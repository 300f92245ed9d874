\* Messages are missed and units move, then the bus settles.
CONSTANTS
    radar = radar  vane = vane  log = log
    u1 = u1  u2 = u2  u3 = u3
    s1 = s1  s2 = s2  s3 = s3
    a1 = a1  a2 = a2
    claim = claim  product = product  wind = wind
    None = None
    Addrs = {a1, a2}
    Units = {radar, vane, log}
    Uniques = {u1, u2, u3}
    Serials = {s1, s2, s3}
    Pgns = {claim, product, wind}
    ClaimPgn = claim
    ProductPgn = product
    DataPgn = wind
    UniqueOf <- MCUniqueOf
    SerialOf <- MCSerialOf
    MaxDevices = 4
    MaxPgns = 3
    MaxMoves = 3
    MaxMissed = 2
SPECIFICATION BSpec
INVARIANTS AddrUnique HeardIsTruthful OneRecordPerUnit
PROPERTIES KnowledgeKept ClaimWins Heals
