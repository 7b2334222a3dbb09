SPECIFICATION ActionsSpec
CONSTANTS
  MaxHeight = 4
  BlockTime <- MCBlockTime
  Second = 4
  MaxStep = 4
  Procedures <- MCProcedures
  MaxFailures = 0
  MaxStops = 0
  intervals <- MCIntervals
  maxIntervalCount = 3
  DayPeriod = 4
  Asked <- MCAsked
  TxIndexScale = 2
  TypeDigit = 10
  RowsOf <- MCRowsOf
  NativeFee = 2
  ActionQueries <- MCActionQueries
  MaxLimit = 10
  MaxTrims = 0
CHECK_DEADLOCK FALSE
INVARIANTS SnapshotsAreValid
