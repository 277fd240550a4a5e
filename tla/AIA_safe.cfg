SPECIFICATION Spec
CONSTANTS
    a = a
    b = b
    NoId = NoId
    Tasks = {a}
    Mutating = {a}
    Producing = {a}
    Touched = {a}
    MaxRetries = 1
    Faults = {"lost", "status", "garbled", "slow start"}
    MaxStarts = 1
    MaxStops = 1
INVARIANT TypeOK
INVARIANT ShownIsServed
INVARIANT DeliveredIsStored
CHECK_DEADLOCK FALSE
