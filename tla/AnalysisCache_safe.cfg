CONSTANTS
    p1 = p1
    p2 = p2
    d1 = d1
    d2 = d2
    d3 = d3
    amd = amd
    arm = arm
    Procs = {p1,p2}
    Digests = {d1,d2}
    Platforms = {amd,arm}
    Native = amd
    Pins = {NoPin,arm}
    NoPin = NoPin
    NoDigest = NoDigest
    PlatformsOf <- Index
    LocalAtStart = {d1,NoDigest}
    NativeKnown = TRUE
    ScopedSave = TRUE
    TagReturns = FALSE
    MaxMoves = 1
    MaxFaults = 1
SPECIFICATION Spec
INVARIANTS
    NoTornEntry
    WarmEntriesTrue
    HitsTrue
    PlatformFiled
SYMMETRY Interchangeable
