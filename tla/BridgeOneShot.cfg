\* A one-shot bridge whose window holds one object and whose pipe holds one frame.
CONSTANTS
    Persistent = FALSE
    LazyNative = FALSE
    Window = 1
    BufferLimit = 9
    PipeLimit = 1
    StdinLimit = 1
    MaxObjects = 3
    MaxPriorities = 1
    MaxSessions = 1
    Faults = {}
SPECIFICATION FairSpec
PROPERTIES
    CloseIsAudited
    ObjectsFlow
