SPECIFICATION FairSpec
CONSTANTS
    BlocksPerChunk = 2
    CommitBatchSize = 2
    TrimHeight = 5
    MaxStops = 3
    CodeHash = "38cc"
    Migrated = {"7da3", "741a"}
    Remote <- MCRemote
    WellKnown <- MCWellKnown
    World <- MCWorld
    Scenarios <- MCToldOfForks
    Databases <- MCDatabases
PROPERTIES
    OldChainEndsAtItsFork
CHECK_DEADLOCK FALSE
