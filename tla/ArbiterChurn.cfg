\* Every kind of message from two sources that come, go and change identity,
\* under a configuration that is replaced.
CONSTANTS
    a1 = a1  a2 = a2  a3 = a3  ser1 = ser1  ser2 = ser2  ser3 = ser3
    mad = mad  scx = scx  ver = ver
    wind = wind  depth = depth  rot = rot  control = control
    None = None
    Addrs = {a1, a2}
    Idents = {ser1, ser2, ser3}
    Names = {mad, scx, ver}
    Pgns = {wind, depth, rot, control}
    DepthPgn = depth
    LogPgn = rot
    AisPgns = {}
    DiscPgns = {wind}
    ControlPgns = {control}
    Words <- MCWords
    Configs <- MCConfigs
    Emits <- MCEmitsTwo
    MaxRules = 3
    MaxPrio = 3
    Timeout = 2
    MaxChurn = 2
SPECIFICATION Spec
INVARIANTS TypeOK HolderOnTop
PROPERTIES HandsOver
