\* With and without a cached image, and one interrupt.
SPECIFICATION FairSpec
CONSTANTS
    MaxSignals = 1
INVARIANTS
    PassIsMeasured
    NothingLeft
PROPERTIES
    RunEnds
\* The launcher ends.
CHECK_DEADLOCK FALSE
