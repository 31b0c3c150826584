SPECIFICATION Spec
CONSTANTS
    Clients = {c1, c2}
    Requests = {r1}
    Free = Free
    Drain = Drain
    MaxPorts = 2
    MaxHandles = 2
    MaxChunks = 3
    QueueSize = 1
    BufSize = 2
SYMMETRY PageSymmetry
VIEW LiveView
INVARIANTS
    TypeOK
    ShownOnce
    BacklogIsTheTail
    OneDrain
    ReadKeepsHandle
    AwaitedWriteKeepsHandle
    DeathIsAnnounced
