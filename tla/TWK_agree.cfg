SPECIFICATION FairSpec
CONSTANTS
    d1 = d1
    d2 = d2
    Device <- Devices
    AutoAccept <- Automatics
    Chunk <- Chunks
    First <- Zero
    CacheReads = 1
    MaxChoices = 1
    MaxOverlaps = 1
    MaxFaults = 1
INVARIANT TypeOK
INVARIANT UnrebuiltIsExplained
PROPERTY EncryptionNeedsConsent
PROPERTY Agreement
