\* ReadIndex while leadership moves; the only entries are the leaders' no-ops.
CONSTANTS
  Server = {s1, s2, s3}
  Value = {}
  ReadId = {1}
  Nil = Nil
  NoOp = NoOp
  MaxCampaigns = 2
  MaxProposals = 0
  MaxInFlight = 2
  MaxCrashes = 0
  MaxBeats = 1
  SnapshotThreshold = 100
  MaxLate = 0
  Lossy = FALSE
  TornReady = FALSE
SPECIFICATION Spec
SYMMETRY PeerSymmetry
VIEW VolatileView
CONSTRAINTS NobodyConfused FewOnTheWay
INVARIANTS ReadIsFresh
\* The bounds on campaigns, proposals and heartbeats make behaviours stop.
CHECK_DEADLOCK FALSE
