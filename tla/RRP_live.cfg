CONSTANTS
    a = a
    b = b
    Docs = {a}
    Deleted <- SecondOfA
    Removed <- SecondOfA
    Ignored = {}
    Conflicting = {}
    SemaphoreLimit = 2
    BatchSize = 1
    PauseKinds = {"setting", "app"}
    Faults = {"put"}
    MaxRev <- ThreeOfA
    MaxCrashes = 0
    MaxKvOps = 1
    MaxRefilters = 0
SPECIFICATION FairSpec
INVARIANT NoLostWakeup
INVARIANT ActivityCoversWork
INVARIANT NewestIsPending
PROPERTY EventuallyReflected
PROPERTY ActivityIsReleased
