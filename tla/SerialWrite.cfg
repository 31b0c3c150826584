SPECIFICATION Spec
CONSTANTS
    Clients = {c1}
    Requests = {r1}
    Free = Free
    Drain = Drain
    MaxPorts = 2
    MaxHandles = 2
    MaxChunks = 1
    QueueSize = 1
    BufSize = 1
INVARIANT
    NoCloseUnderWrite
