\* A vote of an earlier campaign arrives in a later one and a term gets two leaders.
CONSTANTS
  Server = {s1, s2, s3}
  Value = {}
  ReadId = {}
  Nil = Nil
  NoOp = NoOp
  MaxCampaigns = 3
  MaxProposals = 0
  MaxInFlight = 1
  MaxCrashes = 0
  MaxBeats = 0
  SnapshotThreshold = 100
  MaxLate = 0
  Lossy = TRUE
  TornReady = FALSE
SPECIFICATION Spec
SYMMETRY PeerSymmetry
INVARIANTS OneLeaderPerTerm
\* The bounds on campaigns, proposals and heartbeats make behaviours stop.
CHECK_DEADLOCK FALSE
