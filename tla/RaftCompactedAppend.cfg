\* An append that starts before a compacted log.
CONSTANTS
  Server = {s1, s2, s3}
  Value = {v1}
  ReadId = {}
  Nil = Nil
  NoOp = NoOp
  MaxCampaigns = 1
  MaxProposals = 1
  MaxInFlight = 1
  MaxCrashes = 0
  MaxBeats = 2
  SnapshotThreshold = 2
  MaxLate = 0
  Lossy = FALSE
  TornReady = FALSE
SPECIFICATION Spec
SYMMETRY PeerSymmetry
INVARIANTS NoPanic
\* The bounds on campaigns, proposals and heartbeats make behaviours stop.
CHECK_DEADLOCK FALSE
