SPECIFICATION Spec
CONSTANTS
    Circle = 16
    MaxTwa = 4
    MaxTws = 3
    Blank = Blank
    Wave <- MCWave
    Default = 5
    NoValue = NoValue
    PolarFile <- MCPolarFile
    NoPolar = NoPolar
    SeaWinds <- MCSeaWinds
    TickLen = 2
    Late = 1
    StateEvery = 2
    Period <- MCPeriod
    Scenarios <- MCScenarios
    Debounce = 2
    SwitchMs = 9
    SwitchTime = 3
    AliveFor = 6
    Values = {4, 7}
    SimDef = 6
INVARIANTS
    InForce
    OnTime
    PolarRight
PROPERTIES
    AutoNoJump
    ChainAsAsked
