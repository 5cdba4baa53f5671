\* Peers that half-close or close at any moment, and sockets of two chunks.
SPECIFICATION ForwardFairSpec
CONSTANTS
    MaxChunks = 3
    Buffer = 2
    FullClose <- BothClose
INVARIANTS
    NothingLost
PROPERTIES
    EndsAreForwarded
    ThreadEnds
