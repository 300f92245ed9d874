SPECIFICATION Spec
CONSTANTS
    Conns = {a, b, c}
    MaxClients = 2
    Units = 2
    Room = 3
    MaxWaits = 1
    Messages <- MCMessages
INVARIANTS
    NoTornLine
    MessageKept
PROPERTIES
    NobodyPassedOver
    BroadcastEnds
