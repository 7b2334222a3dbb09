SPECIFICATION Spec
CONSTANTS
  MaxHeight = 5
  ChannelSize = 2
  GenesisHeight = 3
  CommitBatchSize = 2
  HardForkHeight = 0
  MaxStops = 2
CHECK_DEADLOCK FALSE
INVARIANTS StatesAreExact
