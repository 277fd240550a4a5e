SPECIFICATION FairSpec
CONSTANTS
    a = a
    b = b
    NoId = NoId
    Tasks = {a}
    Mutating = {a}
    Producing = {}
    Touched = {}
    MaxRetries = 1
    Faults = {"lost", "status"}
    MaxStarts = 1
    MaxStops = 1
INVARIANT UnfinishedIsWatched
INVARIANT OnePollerEach
PROPERTY EventuallySettled
CHECK_DEADLOCK FALSE
