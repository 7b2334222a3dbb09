SPECIFICATION FairSpec
CONSTANTS
  MaxHeight = 7
  ChannelSize = 2
  GenesisHeight = 0
  CommitBatchSize = 3
  HardForkHeight = 0
  MaxStops = 2
CHECK_DEADLOCK FALSE
INVARIANTS TypeOK BlockLogIsContiguous LastRowHasState StatesAreExact PublishedIsCommitted BatchIsBounded
PROPERTIES RowsArePermanent RefreshSeesTheBlock EverythingIsIndexed ImplementsLedger
