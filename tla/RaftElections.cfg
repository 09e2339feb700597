\* Elections with crashes (also inside a Ready), losses and late messages.
CONSTANTS
  Server = {s1, s2, s3}
  Value = {}
  ReadId = {}
  Nil = Nil
  NoOp = NoOp
  MaxCampaigns = 2
  MaxProposals = 0
  MaxInFlight = 1
  MaxCrashes = 1
  MaxBeats = 0
  SnapshotThreshold = 100
  MaxLate = 1
  Lossy = TRUE
  TornReady = TRUE
SPECIFICATION Spec
SYMMETRY PeerSymmetry
VIEW SeenView
INVARIANTS TypeOK VoteOnce LeaderHasQuorum ElectionSafety
PROPERTIES NothingUnapplied
\* The bounds on campaigns, proposals and heartbeats make behaviours stop.
CHECK_DEADLOCK FALSE
