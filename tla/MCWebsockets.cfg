SPECIFICATION FairSpec
CONSTANTS
    Pools = {"BTC", "ETH"}
    FDs = {1, 2}
    connectionLimit = 1
PROPERTY
    StopsWhenCancelled
CHECK_DEADLOCK FALSE
