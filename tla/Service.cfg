SPECIFICATION ServiceSpec
CONSTANTS
    Viewers = {v1, v2}
    MaxProcs = 2
    MaxFrames = 3
    Gop = 2
    QueueLength = 1
    MaxParts = 3
    Operators = {o1, o2}
    Relative = {o1}
    Keys = {k1}
    MaxMotion = 1
    Pages = {p1}
    Areas = {a1, a2}
    Values = {x1, x2}
    RingMax = 2
    QueueMax = 2
    MaxSeq = 4
    Ports = {s1, s2}
    Targets = {t1, t2}
    MaxReconnects = 1
    Requests = {r1, r2}
    card1 = card1
    card2 = card2
    Cards = {card1, card2}
    Fallback = card1
    Lists <- CardLists
INVARIANTS
    SourceTypeOK
    NoOrphan
    NobodyLeftBehind
    Decodable
    MotionAddsUp
    ClickInPlace
    NothingHeldForTheGone
    NothingMissed
    FoldIsCurrent
    SemanticAddsUp
    ShownIsStreamed
PROPERTIES
    Reaps
    SendsTheNewest
    TapWakes
    OmittedKept
CHECK_DEADLOCK FALSE
