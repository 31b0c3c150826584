SPECIFICATION Spec
CONSTANTS
    Verbs = {"reenumerate"}
    Usages = {}
    Modifiers = {}
    Buttons = {b1}
    MaxKeys = 1
    MaxChunks = 1
    RelConfigured = TRUE
INVARIANT ReenumerationReleased
