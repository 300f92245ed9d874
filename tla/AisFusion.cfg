\* Two receivers, two ships, a table too small for them, two changes of any kind.
CONSTANTS
    ser1 = ser1  ser2 = ser2  emtrak = emtrak  datahub = datahub
    pos = pos  stat = stat
    None = None
    Addrs = {0, 1}
    Idents = {ser1, ser2}
    Names = {emtrak, datahub}
    Pgns = {pos, stat}
    DepthPgn = None
    LogPgn = None
    AisPgns = {pos, stat}
    Words <- MCWords
    MaxRules = 2
    MaxPrio = 2
    Unranked = 3
    Configs <- MCConfigs
    MaxShips = 2
    Reach <- MCReach
    MaxObs = 2
    Timeout = 2
    MaxQuiet = 5
    MaxChurn = 2
SPECIFICATION ASpec
INVARIANTS NoShipLost
PROPERTIES OneVoice
