SPECIFICATION Spec
CONSTANTS
    Pins = {p1}
    Requests = {r1}
    Tries = 2
PROPERTY StopReleases
