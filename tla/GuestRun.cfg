\* Both kinds of topology, with two background flows (server and client each).
SPECIFICATION FairSpec
CONSTANT
    Ports <- TwoPorts
INVARIANTS
    PassIsEarned
    NothingLeft
    ExitIsHonest
PROPERTY
    RunEnds
\* main ends.
CHECK_DEADLOCK FALSE
