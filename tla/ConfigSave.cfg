SPECIFICATION SSpec
CONSTANTS
    MaxEntries = 3
    MaxLines = 12
    Files <- MCFiles
    Texts <- MCTexts
    MaxSaves = 2
    MaxEdits = 1
INVARIANTS
    WrittenMeansSent
    PromiseHeld
PROPERTIES
    CommentsKept
    PromiseKept
CHECK_DEADLOCK FALSE
