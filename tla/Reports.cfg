SPECIFICATION Spec
CONSTANTS
    LrBuf = 68
    LineMax = 64
    MaxFields = 48
    MaxList = 2
    MaxItem = 8
    MaxPgns = 1
    MaxTypes = 1
    FastBytes <- MCFastBytes
    MaxAge = 6
    MapMax = 2
    MapAlive = 1
    MapKeep = 2
    InfraPgns = {}
    NoName = NoName
    Feeds <- MCFeeds
    Decisions <- MCDecisions
    Sentences <- MCSentences
    SourcesInterval = 1
    StatsInterval = 2
    DeadAge = 2
INVARIANTS
    LinesInOrder
    ReadAsMeant
    WindowExact
    DeadShown
PROPERTIES
    MapTells
CHECK_DEADLOCK FALSE
