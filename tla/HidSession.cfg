SPECIFICATION Spec
CONSTANTS
    Verbs = {}
    Usages = {k1, k2}
    Modifiers = {shift}
    Buttons = {b1, b2}
    MaxKeys = 1
    MaxChunks = 2
    RelConfigured = TRUE
SYMMETRY ButtonSymmetry
INVARIANTS
    TypeOK
    LatchCovers
    ReleaseReachesTarget
