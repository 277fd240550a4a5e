CONSTANTS
    a = a
    b = b
    Docs = {a}
    Deleted <- SecondOfA
    Removed <- SecondOfA
    Ignored = {}
    Conflicting = {}
    SemaphoreLimit = 2
    BatchSize = 1
    PauseKinds = {}
    Faults = {"get", "read", "gather"}
    MaxRev <- ThreeOfA
    MaxCrashes = 1
    MaxKvOps = 1
    MaxRefilters = 1
SPECIFICATION SpecWithRefilter
PROPERTY HandedInOrder
CHECK_DEADLOCK FALSE
