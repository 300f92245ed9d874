\* Room for every verdict: one source with three references.
CONSTANTS
    wind = wind  app = app  tru = tru  gnd = gnd
    AnySrc = AnySrc
    Sources = {a1}
    Discs = {app, tru, gnd}
    Flows <- MCFlows
    NoN2k <- MCCut
    DropMax = 3
    DropTimeout = 3
    Interval = 2
SYMMETRY MCSymmetry
SPECIFICATION LSpec
PROPERTIES ListedHasLost LoserIsListed WinnerIsReleased
