SPECIFICATION FairSpec
CONSTANTS
    b1 = b1
    b2 = b2
    Body = {b1, b2}
    Resolution = 2
    Rules = {"newer", "merge", "ask"}
    CheckKeys = {"path"}
    Setups <- Cases
INVARIANT TypeOK
INVARIANT DifferenceIsSeen
PROPERTY CatchesUp
