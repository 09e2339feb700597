\* A crash between SaveHardState and SaveEntries.
CONSTANTS
  Server = {s1, s2, s3}
  Value = {v1}
  ReadId = {}
  Nil = Nil
  NoOp = NoOp
  MaxCampaigns = 1
  MaxProposals = 1
  MaxInFlight = 1
  MaxCrashes = 1
  MaxBeats = 1
  SnapshotThreshold = 100
  MaxLate = 0
  Lossy = TRUE
  TornReady = TRUE
SPECIFICATION Spec
SYMMETRY PeerSymmetry
INVARIANTS AppliedUpToCommit
\* The bounds on campaigns, proposals and heartbeats make behaviours stop.
CHECK_DEADLOCK FALSE
