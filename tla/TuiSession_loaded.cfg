CONSTANTS
    f = f
    g = g
    Files = {f, g}
    NoFile = NoFile
    Theirs = Theirs
    Targets = {0, 1}
    ChanCap = 1
    MaxInputs = 4
SPECIFICATION LoadedSpec
INVARIANTS
    ViewerShowsRequested
    NoTempLeaks
    QuitCancelsAll
PROPERTIES
    UsersFilesKept
SYMMETRY Interchangeable
CHECK_DEADLOCK FALSE
