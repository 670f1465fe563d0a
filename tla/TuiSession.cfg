CONSTANTS
    f = f
    g = g
    Files = {f, g}
    NoFile = NoFile
    Theirs = Theirs
    Targets = {0, 1}
    ChanCap = 1
    MaxInputs = 2
SPECIFICATION FairSpec
INVARIANTS
    OneListener
PROPERTIES
    StatusSettles
CHECK_DEADLOCK FALSE
