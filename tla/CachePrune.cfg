CONSTANTS
    a = a
    b = b
    c = c
    readme = readme
    Digests = {a, b, c}
    Foreign = {readme}
    NoDigest = NoDigest
    Kinds <- SomeKinds
    TTLs = {0, 1}
    Caps = {0, 2}
    MaxOthers = 1
SPECIFICATION Spec
INVARIANTS
    ResultAccounts
    RemovesWhatWasAsked
    CapHolds
PROPERTIES
    KeepAndForeignSafe
SYMMETRY Interchangeable
CHECK_DEADLOCK FALSE
