SPECIFICATION FairSpec
CONSTANTS
    f1 = f1
    f2 = f2
    File = {f1, f2}
    Setups <- Cases
INVARIANT TypeOK
INVARIANT EventsSuffice
PROPERTY CatchesUp
PROPERTY ListCatchesUp
CHECK_DEADLOCK FALSE
