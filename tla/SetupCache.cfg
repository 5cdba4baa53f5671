\* Two runners that start three times between them and a base replaced once.
SPECIFICATION FairSpec
CONSTANTS
    Runners = {r1, r2}
    MaxBase = 1
    MaxRuns = 3
    Corruptible = TRUE
INVARIANTS
    PublishedIsPrepared
PROPERTIES
    EntryIsNeverReplaced
    WaiterIsServed
\* The runs are bounded, and runners may be done.
CHECK_DEADLOCK FALSE
