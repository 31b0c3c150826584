SPECIFICATION Spec
CONSTANTS
    Pins = {p1, p2}
    Requests = {r1, r2}
    Tries = 2
INVARIANTS
    TypeOK
    PressedIsAccounted
PROPERTIES
    NoCutShort
    HoldsEnd
