SPECIFICATION FairSpec
CONSTANTS
  MaxHeight = 7
  ChannelSize = 2
  GenesisHeight = 2
  CommitBatchSize = 3
  HardForkHeight = 5
  MaxStops = 2
CHECK_DEADLOCK FALSE
INVARIANTS Inv NothingPastTheFork
PROPERTIES EverythingIsIndexed
