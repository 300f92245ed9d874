\* One change of any kind, with room for every line.
CONSTANTS
    a1 = a1  a2 = a2  ser1 = ser1  ser2 = ser2  mad = mad  scx = scx
    wind = wind  rot = rot
    None = None  AnySrc = AnySrc
    Addrs = {a1, a2}
    Idents = {ser1, ser2}
    Names = {mad, scx}
    Pgns = {wind, rot}
    DepthPgn = rot
    LogPgn = rot
    AisPgns = {}
    DiscPgns = {wind}
    ControlPgns = {}
    Words <- MCWords
    MaxRules = 2
    MaxPrio = 2
    Configs <- MCConfigs
    Emits <- MCEmitsWind
    Timeout = 1
    DropTimeout = 2
    Interval = 1
    DropMax = 4
    FDropMax = 3
    Settle = 4
    MaxChurn = 1
SPECIFICATION CSpec
INVARIANTS NoGap NoEcho CutIsCut
