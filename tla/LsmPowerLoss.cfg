\* Power loss with async and synced writes mixed, as the stores mix them.
CONSTANTS
  Key = {1, 2}
  Level0CompactionTrigger = 2
  Level1Size = 2
  OutputSize = 1
  Batch <- UndoBatches
  Durability = {"kAsync", "kSync"}
  Handle = {}
  WriteBufferSize = 1
  MaxSequence = 4
  MaxCrashes = 1
  PowerLoss = TRUE
  MaxLeft = 1
  IOErrors = {}
SPECIFICATION Spec
INVARIANT SyncedSurvive
\* A directory whose creation was interrupted cannot be opened again.
CHECK_DEADLOCK FALSE
