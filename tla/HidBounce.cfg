SPECIFICATION Spec
CONSTANTS
    Verbs = {"reenumerate", "recover"}
    Usages = {}
    Modifiers = {}
    Buttons = {}
    MaxKeys = 1
    MaxChunks = 1
    RelConfigured = FALSE
INVARIANTS
    NoDescriptorAcrossUnbind
    SuccessMeansBound
    NoInventedPosition
PROPERTIES
    QuiesceEnds
    HelperEnds
