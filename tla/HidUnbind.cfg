SPECIFICATION Spec
CONSTANTS
    Verbs = {"recover"}
    Usages = {}
    Modifiers = {}
    Buttons = {}
    MaxKeys = 1
    MaxChunks = 1
    RelConfigured = FALSE
INVARIANT DescriptorsClosedAtUnbind
