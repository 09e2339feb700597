\* A restarted peer and the entries it had acknowledged.
CONSTANTS
  Server = {s1, s2, s3}
  Value = {}
  ReadId = {}
  Nil = Nil
  NoOp = NoOp
  MaxCampaigns = 1
  MaxProposals = 0
  MaxInFlight = 1
  MaxCrashes = 1
  MaxBeats = 0
  SnapshotThreshold = 100
  MaxLate = 0
  Lossy = FALSE
  TornReady = FALSE
SPECIFICATION Spec
SYMMETRY PeerSymmetry
INVARIANTS CommittedByQuorum
\* The bounds on campaigns, proposals and heartbeats make behaviours stop.
CHECK_DEADLOCK FALSE
