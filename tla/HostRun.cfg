\* Every mode that the arguments allow, and one interrupt.
SPECIFICATION FairSpec
CONSTANTS
    Scene = 1
    Formats = {"webm", "all"}
    MaxSignals = 1
INVARIANTS
    PassIsBacked
    NothingLeft
PROPERTIES
    RecordingKept
    LauncherEnds
\* The launcher ends.
CHECK_DEADLOCK FALSE
