CONSTANTS
    a = a
    b = b
    Docs = {a, b}
    Deleted <- SecondOfA
    Removed <- SecondOfA
    Ignored = {b}
    Conflicting = {}
    SemaphoreLimit = 2
    BatchSize = 1
    PauseKinds = {}
    Faults = {"put"}
    MaxRev <- ThreeAndOne
    MaxCrashes = 1
    MaxKvOps = 1
    MaxRefilters = 0
SPECIFICATION Spec
INVARIANT TypeOK
PROPERTY SnapshotKeepsUnsettled
PROPERTY ImplementsLedger
CHECK_DEADLOCK FALSE
