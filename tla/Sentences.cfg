SPECIFICATION Spec
CONSTANTS
    MaxSlot = 2
    DepthTimeout = 2
    MdaFresh = 3
    RmcFresh = 2
    MaxSentences = 8
    LongAgo = 2
    Types = {"DPT", "GSV", "MWV"}
    Outputs <- MCOutputs
    Boats <- MCBoats
INVARIANTS
    ExtremeShown
    MdaKept
    CarriesFresh
PROPERTIES
    BurstsApart
    PagesWhole
