SPECIFICATION ActionsFairSpec
CONSTANTS
  MaxHeight = 4
  BlockTime <- MCBlockTime
  Second = 4
  MaxStep = 4
  Procedures <- MCProcedures
  MaxFailures = 1
  MaxStops = 2
  intervals <- MCIntervals
  maxIntervalCount = 3
  DayPeriod = 4
  Asked <- MCAsked
  TxIndexScale = 2
  TypeDigit = 10
  RowsOf <- MCRowsOf
  NativeFee = 2
  ActionQueries <- MCActionQueries
  MaxLimit = 10
  MaxTrims = 0
CHECK_DEADLOCK FALSE
INVARIANTS ActionsAreServed AggInv AggregatesAreExact BalancesAreServed AnswersAreComplete RowsAreCountedOnce
PROPERTIES PingsAreFresh EverythingIsAggregated
