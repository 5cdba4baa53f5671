\* One fetch of two objects, three commands and two failures: a chain of
\* superseded wishes, and every order of the frames around it.
CONSTANTS
    f1 = f1
    Fetches = {f1}
    Priorities = {1, 2}
    Objects = {1, 2}
    MaxEpochs = 3
    MaxItems = 1
    MaxFailures = 2
SPECIFICATION FairSpec
INVARIANTS
    TableMatches
    AgreesWithRelay
    OneUpdateInFlight
    FrameOrder
PROPERTIES
    Converges
