SPECIFICATION FairSpec
CONSTANTS
    d1 = d1
    d2 = d2
    Devices = {d1, d2}
    Setups <- Cases
    Resolution = 2
INVARIANT TypeOK
INVARIANT NothingLost
INVARIANT VaultShowsResult
INVARIANT SomeVersionSurvives
PROPERTY UnreadableIsKept
PROPERTY Converges
