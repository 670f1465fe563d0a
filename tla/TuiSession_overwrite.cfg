CONSTANTS
    f = f
    g = g
    Files = {f, g}
    NoFile = NoFile
    Theirs = Theirs
    Targets = {0, 1}
    ChanCap = 1
    MaxInputs = 3
SPECIFICATION LoadedSpec
PROPERTIES
    NoOverwrite
SYMMETRY Interchangeable
CHECK_DEADLOCK FALSE
