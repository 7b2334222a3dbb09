SPECIFICATION FairSpec
CONSTANTS
  MaxHeight = 6
  ChannelSize = 2
  BatchSize = 2
  StoreHeight = 2
  Differ = {2}
  MaxErrorCount = 2
  MaxLate = 1
  MaxErrors = 3
CHECK_DEADLOCK FALSE
INVARIANTS SyncInv LateResultsAreForgiven
PROPERTIES ImplementsFeed EverythingIsFetched
