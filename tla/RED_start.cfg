SPECIFICATION FairSpec
CONSTANTS
    Fetch <- FetchNames
    Rebuild <- RebuildNames
    Scram = "redflag.md"
    MaxUser = 4
    MaxFails = 2
    MaxKills = 2
CHECK_DEADLOCK FALSE
INVARIANT PartIsIsolated
PROPERTY FlagOutlivesFailure
PROPERTY Ends
