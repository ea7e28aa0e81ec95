SPECIFICATION FairSpec
CONSTANTS
    Runs = {r1, r2}
    Rounds = 1
    Parallel = 2
    PoolSize = 1
    MaxReplays = 1
INVARIANTS
    ConnectionsAreAccounted
    NoRunWithoutPool
PROPERTIES
    EveryRunEnds
    ShutdownCompletes
