\* A source that wins for a reference and loses for the other.
CONSTANTS
    wind = wind  app = app  tru = tru  gnd = gnd
    AnySrc = AnySrc
    Sources = {a1, a2}
    Discs = {app, tru}
    Flows <- MCFlows
    NoN2k <- MCCut
    DropMax = 4
    DropTimeout = 3
    Interval = 2
SYMMETRY MCSymmetry
SPECIFICATION LSpec
PROPERTIES OnlyIfAllLose
