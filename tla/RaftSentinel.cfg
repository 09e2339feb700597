\* A follower drops the entries of the term in which it compacted its log.
CONSTANTS
  Server = {s1, s2, s3}
  Value = {v1}
  ReadId = {}
  Nil = Nil
  NoOp = NoOp
  MaxCampaigns = 3
  MaxProposals = 2
  MaxInFlight = 1
  MaxCrashes = 0
  MaxBeats = 0
  SnapshotThreshold = 2
  MaxLate = 0
  Lossy = FALSE
  TornReady = FALSE
SPECIFICATION Spec
SYMMETRY PeerSymmetry
INVARIANTS LogShape
VIEW VolatileView
CONSTRAINTS NobodyConfused SnapshotFirst
\* The bounds on campaigns, proposals and heartbeats make behaviours stop.
CHECK_DEADLOCK FALSE
