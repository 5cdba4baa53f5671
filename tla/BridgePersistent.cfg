\* Two sessions of a persistent bridge, with every fault.
CONSTANTS
    Persistent = TRUE
    LazyNative = TRUE
    Window = 2
    BufferLimit = 3
    PipeLimit = 2
    StdinLimit = 1
    MaxObjects = 3
    MaxPriorities = 1
    MaxSessions = 2
    Faults = {"spawn", "crash", "signal", "bad"}
SPECIFICATION Spec
INVARIANTS
    AckWindow
    StreamsKept
    CleanCodeAudited
