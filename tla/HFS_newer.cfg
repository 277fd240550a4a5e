SPECIFICATION Spec
CONSTANTS
    b1 = b1
    b2 = b2
    Body = {b1, b2}
    Resolution = 1
    Rules = {"newer"}
    CheckKeys = {"path"}
    Setups <- OneEdit
INVARIANT NewerLocalIsApplied
