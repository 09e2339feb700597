\* Reads during rotation, flush and compaction, with snapshots.
CONSTANTS
  Key = {1, 2}
  Level0CompactionTrigger = 2
  Level1Size = 1
  OutputSize = 1
  Batch <- PairBatches
  Durability = {"kSync"}
  Handle = {h1}
  WriteBufferSize = 1
  MaxSequence = 6
  MaxCrashes = 0
  PowerLoss = FALSE
  MaxLeft = 0
  IOErrors = {"Sync", "Background"}
SPECIFICATION Spec
INVARIANTS TypeOK GetsLastWrite ScansLastWrites VersionOrdered NoBackgroundError
