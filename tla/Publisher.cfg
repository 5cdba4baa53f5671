SPECIFICATION FairSpec
CONSTANTS
    Refinements <- MCRefinements
    MaxStarts = 2
INVARIANTS
    NoStaleReadiness
    ReadyIsPublished
    ExitWithdraws
PROPERTIES
    UselessChildIsReplaced
    StopEnds
