CONSTANTS
    d = d
    x = x
    default = default
    own = own
    Opq = Opq
    Names = {d, x}
    DefaultMode = default
    Modes = {default, own}
    Shapes <- AllShapes
    MaxLayers = 3
    MaxPerLayer = 3
    MaxEntries = 4
SPECIFICATION Spec
INVARIANTS
    ViewsAreOverlay
    LabelsTell
    WasteExact
    ReasonsTrue
    ExtractsLive
CHECK_DEADLOCK FALSE
