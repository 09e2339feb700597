\* Up to three leaders in turn replicate their no-ops, with one heartbeat; nobody crashes.
CONSTANTS
  Server = {s1, s2, s3}
  Value = {}
  ReadId = {}
  Nil = Nil
  NoOp = NoOp
  MaxCampaigns = 3
  MaxProposals = 0
  MaxInFlight = 1
  MaxCrashes = 0
  MaxBeats = 1
  SnapshotThreshold = 100
  MaxLate = 0
  Lossy = FALSE
  TornReady = FALSE
SPECIFICATION Spec
SYMMETRY PeerSymmetry
VIEW VolatileView
CONSTRAINT NobodyConfused
INVARIANTS LogShape LogMatching StateMachineSafety AppliedUpToCommit CommittedByQuorum
\* The bounds on campaigns, proposals and heartbeats make behaviours stop.
CHECK_DEADLOCK FALSE
