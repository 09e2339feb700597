\* Crashes at every stage, power loss, every write synced.
CONSTANTS
  Key = {1, 2}
  Level0CompactionTrigger = 2
  Level1Size = 2
  OutputSize = 1
  Batch <- UndoBatches
  Durability = {"kSync"}
  Handle = {}
  WriteBufferSize = 1
  MaxSequence = 4
  MaxCrashes = 2
  PowerLoss = TRUE
  MaxLeft = 1
  IOErrors = {"Append"}
SPECIFICATION Spec
INVARIANTS GetsLastWrite ManifestBacked   BatchesWhole
PROPERTY FlushCompletes
\* A directory whose creation was interrupted cannot be opened again.
CHECK_DEADLOCK FALSE
