SPECIFICATION FairSpec
CONSTANTS
    TxIndexScale = 10
    TypeDigit = 100
    HeightOf <- MCHeightOf
    OnTransferEnabled = TRUE
    OnMessageEnabled = FALSE
    Chains <- MCChains
    UsdPools <- MCUsdPools
    MaxStops = 2
    intervals <- MCIntervals
    maxIntervalCount = 5
    DayPeriod = 2
    Asked <- MCAsked
    AskedPools <- MCAskedPools
    FirstSecond = 1
INVARIANTS
    TypeOK
    DepthsSurviveRestarts
    ChainInfoSurvivesRestarts
    HistoryIsExact
    EventIdsFollowTheChain
    DepthsFollowTheRows
    DepthsAreServed
PROPERTY
    EverythingIsRecorded
