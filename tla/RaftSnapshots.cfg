\* One leader; every peer compacts its log after two applied entries.
CONSTANTS
  Server = {s1, s2, s3}
  Value = {v1}
  ReadId = {}
  Nil = Nil
  NoOp = NoOp
  MaxCampaigns = 1
  MaxProposals = 1
  MaxInFlight = 1
  MaxCrashes = 0
  MaxBeats = 3
  SnapshotThreshold = 2
  MaxLate = 0
  Lossy = TRUE
  TornReady = FALSE
SPECIFICATION Spec
SYMMETRY PeerSymmetry
VIEW VolatileView
INVARIANTS LogShape AppliedUpToCommit CommittedByQuorum
\* The bounds on campaigns, proposals and heartbeats make behaviours stop.
CHECK_DEADLOCK FALSE
