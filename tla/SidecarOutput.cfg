\* Three producers, a limit of four bytes, and a frame longer than the limit.
CONSTANTS
    p1 = p1
    p2 = p2
    p3 = p3
    Producers = {p1, p2, p3}
    MainThread = p1
    Limit = 4
    Lengths = {1, 3, 5}
    MaxFrames = 4
SPECIFICATION QueueFairSpec
INVARIANTS
    StreamInOrder
PROPERTIES
    PipeSpec
    NobodyStranded
