\* Every tool, on every sequence of small inputs.
SPECIFICATION Spec
CONSTANTS
    Started = 1
    Duration = 4
    Threshold = 3
    NoTime <- Minus
    Grid <- MCGrid
    Fractions <- MCFractions
    TileLimit = 4
    Chunk = 2
    PartLimit = 2
    ReadSize = 3
    Length = 5
    Bin = 2
    Missing <- Minus
    MaxObjects = 2
    MaxRows = 3
    MaxGaussians = 5
    MaxEntries = 3
    MaxFrames = 2
    MaxLines = 2
INVARIANTS
    GateIsSound
    ScenesAreKept
    EvidenceReconciles
    InputsAreSound
PROPERTIES
    LateObjectsChangeNothing
\* Inputs are bounded.
CHECK_DEADLOCK FALSE
