CONSTANTS
    Persistent = FALSE
    LazyNative = FALSE
    Window = 1
    BufferLimit = 3
    PipeLimit = 2
    StdinLimit = 1
    MaxObjects = 1
    MaxPriorities = 0
    MaxSessions = 1
    Faults = {"spawn"}
SPECIFICATION Spec
INVARIANTS
    StatusRejectsMissingAudit
