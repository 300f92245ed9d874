\* The same with a list longer than the filter loads.
CONSTANTS
    a1 = a1  a2 = a2  ser1 = ser1  ser2 = ser2  mad = mad  scx = scx
    wind = wind  rot = rot
    None = None  AnySrc = AnySrc
    Addrs = {a1, a2}
    Idents = {ser1, ser2}
    Names = {mad, scx}
    Pgns = {wind, rot}
    DepthPgn = rot
    LogPgn = rot
    AisPgns = {}
    DiscPgns = {wind}
    ControlPgns = {}
    Words <- MCWords
    MaxRules = 2
    MaxPrio = 2
    Configs <- MCCut
    Emits <- MCEmitsWind
    Timeout = 1
    DropTimeout = 2
    Interval = 1
    DropMax = 2
    FDropMax = 1
    Settle = 4
    MaxChurn = 0
SPECIFICATION CSpec
INVARIANTS CutIsCut
