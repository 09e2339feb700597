-------------------------------- MODULE Raft --------------------------------
(***************************************************************************)
(* A region's Raft group: the peers of RaftNode, each driven by its store's *)
(* single raft worker, their durable raft storage, and the transport.      *)
(*                                                                         *)
(* The worker takes one event, runs the peer's method and then processes   *)
(* the Ready (persist, send, hand committed work to the apply worker,      *)
(* publish read states, Advance) before it takes the next event, so an     *)
(* event and its Ready are one action (kv/raftstore/worker.go, peer.go).   *)
(* A crash inside that sequence is an action of its own.                   *)
(***************************************************************************)
EXTENDS RaftNode, Functions

CONSTANTS MaxCampaigns,      \* bound: campaigns in a behaviour (so also the terms)
          MaxProposals,      \* bound: proposals in a behaviour
          MaxInFlight,       \* messages a channel holds; more are lost
          MaxCrashes,        \* bound: process crashes in a behaviour
          MaxBeats,          \* bound: heartbeats in a behaviour
          SnapshotThreshold, \* applied entries between local snapshots
          Lossy,             \* may messages be lost in transit?
          MaxLate,           \* RPCs given up by the sender that may still arrive
          TornReady          \* may a crash separate SaveHardState and SaveEntries?

ASSUME BoundAssumption ==
  /\ MaxCampaigns \in Nat /\ MaxProposals \in Nat /\ MaxInFlight \in Nat
  /\ MaxCrashes \in Nat /\ MaxBeats \in Nat /\ SnapshotThreshold \in Nat /\ MaxLate \in Nat
  /\ {Lossy, TornReady} \subseteq BOOLEAN

VARIABLES node,     \* node[i]: the peer, between two events
          disk,     \* disk[i]: what peer i's raft storage holds
          net,      \* net[i][j]: messages on their way from i to j, in order
          late,     \* messages whose RPC timed out but which may still arrive
          task,     \* task[i]: the local snapshot queued for the raft worker
          lastSnap, \* lastSnap[i]: Peer.lastSnapshotIndex
          applied,  \* applied[i]: the apply watermark at the last snapshot begun
          sm,       \* sm[i]: the entries handed to i's state machine
          crashes,  \* crashes so far
          campaigns, \* campaigns so far
          proposals, \* proposals so far
          beats,    \* heartbeats so far
          grants,   \* history: <<voter, term, candidate>> of every vote cast
          leaders,  \* history: <<term, leader>> of every election won
          confused, \* history: <<term, candidate>> that counted an older campaign's vote
          asked,    \* history: asked[q], the highest commit index when q was issued
          answers   \* history: the read states delivered

store   == <<disk, task, lastSnap, applied, sm>>
history == <<grants, leaders, confused, asked, answers>>
counts  == <<crashes, campaigns, proposals, beats>>
vars    == <<node, net, late, counts, store, history>>

----------------------------------------------------------------------------
(* Raft storage (kv/storage/lsm.go): every save is one synced batch.       *)

DiskType  == [hs : HardState, ents : SUBSET Entry, snap : SnapType]
EmptyDisk == [hs |-> ZeroState, ents |-> {}, snap |-> NoSnap]

\* Slip: a hard state that did not change is saved as well.
SaveAnyHardState(d, hs) == [d EXCEPT !.hs = hs]

SaveHardState(d, hs) == IF hs \in {Nil, ZeroState} THEN d ELSE [d EXCEPT !.hs = hs]

\* Entries are stored under their index: a new one replaces the old one.
SaveEntries(d, es) ==
  [d EXCEPT !.ents = {e \in @ : \A f \in Range(es) : f.index # e.index} \cup Range(es)]

SaveSnapshot(d, snap) == IF snap.index = 0 THEN d ELSE [d EXCEPT !.snap = snap]

Compact(d, index) == [d EXCEPT !.ents = {e \in @ : e.index >= index}]

\* Slip: the last entry is not loaded.
LoadOneShort(d, lo, hi) ==
  LET keys   == {e.index : e \in d.ents} \cap lo .. hi - 2
      Key(k) == CHOOSE x \in keys : Cardinality({y \in keys : y < x}) = k - 1
  IN  [k \in 1 .. Cardinality(keys) |-> CHOOSE e \in d.ents : e.index = Key(k)]

\* The stored entries with lo <= index < hi in index order; gaps are not noticed.
LoadEntries(d, lo, hi) ==
  LET keys   == {e.index : e \in d.ents} \cap lo .. hi - 1
      Key(k) == CHOOSE x \in keys : Cardinality({y \in keys : y < x}) = k - 1
  IN  [k \in 1 .. Cardinality(keys) |-> CHOOSE e \in d.ents : e.index = Key(k)]

persistReady(d, r) == SaveSnapshot(SaveEntries(SaveHardState(d, r.hs), r.ents), r.psnap)

\* A peer restored from its storage.  Only committed entries are loaded.
NewPeer(i, d) ==
  LET r == RestoreSnapshot(NewRaft(i), d.snap)
  IN  IF d.hs = ZeroState THEN r
      ELSE RestoreState(r, d.hs, LoadEntries(d, d.snap.index + 1, d.hs.commit + 1))

\* The state machine after the snapshot and the entries of a Ready.
submitApply(state, r) ==
  (IF r.psnap.index = 0 THEN state ELSE r.psnap.data) \cup Range(r.comm)

----------------------------------------------------------------------------
(* Transport: one unary RPC at a time per destination, so a channel is     *)
(* FIFO unless an RPC that timed out is still executed later.              *)

sendMessages(n, i, msgs) ==
  [n EXCEPT ![i] = [j \in Server |->
     LET q == n[i][j] \o msgs[j] IN SubSeq(q, 1, Min2(Len(q), MaxInFlight))]]

Init ==
  /\ node = [i \in Server |-> NewRaft(i)]
  /\ disk = [i \in Server |-> EmptyDisk]
  /\ net = [i \in Server |-> [j \in Server |-> <<>>]]
  /\ late = {}
  /\ task = [i \in Server |-> NoSnap]
  /\ lastSnap = [i \in Server |-> 0]
  /\ applied = [i \in Server |-> 0]
  /\ sm = [i \in Server |-> {}]
  /\ crashes = 0 /\ campaigns = 0 /\ proposals = 0 /\ beats = 0
  /\ grants = {} /\ leaders = {} /\ confused = {} /\ answers = {}
  /\ asked = [q \in ReadId |-> Nil]

\* The votes and the leadership that the peer r shows once its Ready is out.
Publish(r) ==
  /\ grants' = IF r.vote = Nil THEN grants ELSE grants \cup {<<r.id, r.term, r.vote>>}
  /\ leaders' = IF r.state # "Leader" THEN leaders ELSE leaders \cup {<<r.term, r.id>>}
  /\ answers' = answers \cup r.rstates

\* Process the Ready of r, the peer i after an event; d and n are its storage
\* and the network at that point.  A panic ends the process before the Ready.
handleReady(i, r, d, n) ==
  IF r.state = "Panic"
  THEN /\ node' = [node EXCEPT ![i].state = "Panic"]
       /\ net' = n
       /\ UNCHANGED <<disk, sm, grants, leaders, answers>>
  ELSE /\ node' = [node EXCEPT ![i] = Advance(r)]
       /\ disk' = [disk EXCEPT ![i] = persistReady(d, r)]
       /\ net' = sendMessages(n, i, r.msgs)
       /\ sm' = [sm EXCEPT ![i] = submitApply(@, r)]
       /\ Publish(r)

Alive(i) == node[i].state # "Panic"

----------------------------------------------------------------------------
(* Events of the raft worker.                                              *)

\* A tick at which no timer expires: it only processes a Ready left by NewPeer.
Tick(i) ==
  /\ Alive(i)
  /\ node[i] # Advance(node[i])
  /\ handleReady(i, node[i], disk[i], net)
  /\ UNCHANGED <<late, task, lastSnap, applied, counts, asked, confused>>

Campaign(i) ==
  /\ node[i].state \in {"Follower", "Candidate"}
  /\ campaigns < MaxCampaigns
  /\ campaigns' = campaigns + 1
  /\ handleReady(i, campaign(node[i]), disk[i], net)
  /\ UNCHANGED <<late, task, lastSnap, applied, crashes, proposals, beats, asked, confused>>

LeaderTick(i) ==
  /\ node[i].state = "Leader"
  /\ beats < MaxBeats
  /\ beats' = beats + 1
  /\ handleReady(i, Heartbeat(node[i]), disk[i], net)
  /\ UNCHANGED <<late, task, lastSnap, applied, crashes, campaigns, proposals, asked, confused>>

Propose(i, v) ==
  /\ node[i].state = "Leader"
  /\ proposals < MaxProposals
  /\ proposals' = proposals + 1
  /\ handleReady(i, appendEntry(node[i], v), disk[i], net)
  /\ UNCHANGED <<late, task, lastSnap, applied, crashes, campaigns, beats, asked, confused>>

\* Record a candidate that counts a vote of a campaign before its current one.
NoteVote(m) ==
  confused' = IF /\ m.type = "MsgVoteResp" /\ ~m.reject
                 /\ node[m.to].state = "Candidate" /\ m.term < node[m.to].term
              THEN confused \cup {<<node[m.to].term, m.to>>} ELSE confused

\* Hand the oldest message of the channel from j to i to peer i.
Deliver(i, j, type) ==
  /\ Alive(i)
  /\ net[j][i] # <<>>
  /\ Head(net[j][i]).type = type
  /\ handleReady(i, Step(node[i], Head(net[j][i])), disk[i],
                 [net EXCEPT ![j][i] = Tail(@)])
  /\ NoteVote(Head(net[j][i]))
  /\ UNCHANGED <<late, task, lastSnap, applied, counts, asked>>

ReceiveVote(i, j)     == Deliver(i, j, "MsgVote")
ReceiveVoteResp(i, j) == Deliver(i, j, "MsgVoteResp")
ReceiveApp(i, j)      == Deliver(i, j, "MsgApp")
ReceiveAppResp(i, j)  == Deliver(i, j, "MsgAppResp")
ReceiveSnap(i, j)     == Deliver(i, j, "MsgSnap")
ReceiveSnapResp(i, j) == Deliver(i, j, "MsgSnapResp")

ReceiveLate(m) ==
  /\ Alive(m.to)
  /\ late' = late \ {m}
  /\ handleReady(m.to, Step(node[m.to], m), disk[m.to], net)
  /\ NoteVote(m)
  /\ UNCHANGED <<task, lastSnap, applied, counts, asked>>

\* A linearizable read reaches the raft worker, and its caller gives up.
StartRead(i, q) ==
  /\ node[i].state = "Leader"
  /\ asked[q] = Nil
  /\ asked' = [asked EXCEPT ![q] = CHOOSE c \in {node[j].commit : j \in Server} :
                                     \A j \in Server : node[j].commit <= c]
  /\ handleReady(i, ReadIndex(node[i], q), disk[i], net)
  /\ UNCHANGED <<late, task, lastSnap, applied, counts, confused>>

CancelRead(i, q) ==
  /\ Alive(i)
  /\ node[i].reads[q] # Nil
  /\ handleReady(i, CancelReadIndex(node[i], q), disk[i], net)
  /\ UNCHANGED <<late, task, lastSnap, applied, counts, asked, confused>>

\* The apply worker has applied the command at index a and snapshots the region.
BeginSnapshot(i, a) ==
  /\ Alive(i)
  /\ task[i] = NoSnap
  /\ a >= applied[i]
  /\ a >= lastSnap[i] + SnapshotThreshold
  /\ \E e \in sm[i] : e.index = a /\ e.data # NoOp
  /\ task' = [task EXCEPT ![i] = [index |-> a, term |-> 0,
                                  data |-> {e \in sm[i] : e.index <= a}]]
  /\ applied' = [applied EXCEPT ![i] = a]
  /\ UNCHANGED <<node, disk, net, late, lastSnap, sm, counts, history>>

\* The raft worker persists that snapshot (under the current term) and compacts.
SnapshotTask(i) ==
  /\ Alive(i)
  /\ task[i] # NoSnap
  /\ LET index == task[i].index
         saved == SaveSnapshot(disk[i], [task[i] EXCEPT !.term = node[i].term])
     IN  /\ handleReady(i, Snapshot(node[i], index, task[i].data),
                        Compact(saved, index), net)
         /\ lastSnap' = [lastSnap EXCEPT ![i] = index]
  /\ task' = [task EXCEPT ![i] = NoSnap]
  /\ UNCHANGED <<late, applied, counts, asked, confused>>

----------------------------------------------------------------------------
(* Faults.                                                                 *)

\* Start peer i again from storage d.  The Ready that NewPeer restores waits for
\* the first event of the raft worker.
RestartFrom(i, d) ==
  /\ crashes < MaxCrashes
  /\ crashes' = crashes + 1
  /\ disk' = [disk EXCEPT ![i] = d]
  /\ node' = [node EXCEPT ![i] = NewPeer(i, d)]
  /\ sm' = [sm EXCEPT ![i] = {}]
  /\ task' = [task EXCEPT ![i] = NoSnap]
  /\ lastSnap' = [lastSnap EXCEPT ![i] = d.snap.index]
  /\ applied' = [applied EXCEPT ![i] = 0]

Crash(i) ==
  /\ RestartFrom(i, disk[i])
  /\ UNCHANGED <<net, late, campaigns, proposals, beats, history>>

\* The process dies after SaveHardState and before SaveEntries.
CrashInPersist(i, j) ==
  /\ TornReady
  /\ Alive(i)
  /\ net[j][i] # <<>>
  /\ LET r == Step(node[i], Head(net[j][i]))
     IN  /\ r.state # "Panic" /\ r.hs # Nil /\ r.ents # <<>>
         /\ RestartFrom(i, SaveHardState(disk[i], r.hs))
  /\ net' = [net EXCEPT ![j][i] = Tail(@)]
  /\ UNCHANGED <<late, campaigns, proposals, beats, history>>

Lose(i, j) ==
  /\ Lossy
  /\ net[i][j] # <<>>
  /\ net' = [net EXCEPT ![i][j] = Tail(@)]
  /\ UNCHANGED <<node, late, counts, store, history>>

\* The sender gives up on an RPC that the receiver will still execute.
Delay(i, j) ==
  /\ Cardinality(late) < MaxLate
  /\ net[i][j] # <<>>
  /\ late' = late \cup {Head(net[i][j])}
  /\ net' = [net EXCEPT ![i][j] = Tail(@)]
  /\ UNCHANGED <<node, counts, store, history>>

Next ==
  \/ \E i \in Server : \/ Tick(i) \/ Campaign(i) \/ LeaderTick(i)
                      \/ SnapshotTask(i) \/ Crash(i)
  \/ \E i \in Server, v \in Value : Propose(i, v)
  \/ \E i, j \in Server :
       \/ ReceiveVote(i, j) \/ ReceiveVoteResp(i, j)
       \/ ReceiveApp(i, j)  \/ ReceiveAppResp(i, j)
       \/ ReceiveSnap(i, j) \/ ReceiveSnapResp(i, j)
       \/ Lose(i, j) \/ Delay(i, j) \/ CrashInPersist(i, j)
  \/ \E m \in late : ReceiveLate(m)
  \/ \E i \in Server, q \in ReadId : StartRead(i, q) \/ CancelRead(i, q)
  \/ \E i \in Server : \E a \in 1 .. node[i].cursor : BeginSnapshot(i, a)

Spec == Init /\ [][Next]_vars

----------------------------------------------------------------------------
(* Properties.                                                             *)

\* Every component of the state keeps its type: peers, storage, messages on
\* their way, queued snapshots, state machines and the recorded history.
TypeOK ==
  /\ node \in [Server -> Peer]
  /\ disk \in [Server -> DiskType]
  /\ net \in [Server -> [Server -> Seq(Message)]]
  /\ late \in SUBSET Message
  /\ task \in [Server -> SnapType]
  /\ lastSnap \in [Server -> Nat]
  /\ applied \in [Server -> Nat]
  /\ sm \in [Server -> SUBSET Entry]
  /\ crashes \in Nat /\ campaigns \in Nat /\ proposals \in Nat /\ beats \in Nat
  /\ grants \in SUBSET (Server \X Nat \X Server)
  /\ leaders \in SUBSET (Nat \X Server)
  /\ confused \in SUBSET (Nat \X Server)
  /\ asked \in [ReadId -> Nat \cup {Nil}]
  /\ answers \in SUBSET ReadState

\* handleVote persists the vote before its answer leaves, so a peer votes for
\* at most one candidate in a term, whatever crashes and restarts come between
\* and however the network treats the requests.
VoteOnce ==
  \A g, h \in grants : g[1] = h[1] /\ g[2] = h[2] => g[3] = h[3]

\* handleVoteResp makes a candidate leader only with the votes that a quorum of
\* peers cast for it in the very term it leads, unless it counted a vote of an
\* earlier campaign (the code does not compare the terms).
LeaderHasQuorum ==
  \A l \in leaders \ confused :
    Cardinality({v \in Server : <<v, l[1], l[2]>> \in grants}) >= quorum

\* Whatever is lost, delayed or restarted, one term gets two leaders only through
\* a candidate that counted a vote of an earlier campaign.
ElectionSafety ==
  \A l, k \in leaders : l[1] = k[1] /\ l[2] # k[2] => {l, k} \cap confused # {}

\* A term has at most one leader, ever: what raft.go is written to ensure.
OneLeaderPerTerm ==
  \A l, k \in leaders : l[1] = k[1] => l[2] = k[2]

\* Entry x of a log, when the log still holds it.
Holds(l, x) ==
  /\ l.offset < x.index /\ x.index <= LastIndex(l)
  /\ l.entries[x.index - l.offset + 1] = x

\* The log keeps its sentinel, and its entry at position k is the entry with
\* index offset + k: what every index computation of raft/log.go assumes.
LogShape ==
  \A i \in Server :
    LET l == node[i].log IN
      /\ l.entries # <<>>
      /\ \A k \in 1 .. Len(l.entries) : l.entries[k].index = l.offset + k - 1

\* If two logs hold an entry of the same index and term, they hold the same
\* entries up to it (handleAppend's check of the entry before the new ones).
LogMatching ==
  \A i \in Server : \A j \in Server \ {i} :
    LET a == node[i].log
        b == node[j].log
        lo == Max2(a.offset, b.offset) + 1
    IN  \A x \in lo .. Min2(LastIndex(a), LastIndex(b)) :
          a.entries[x - a.offset + 1].term = b.entries[x - b.offset + 1].term =>
            \A y \in lo .. x : a.entries[y - a.offset + 1] = b.entries[y - b.offset + 1]

\* State machine safety: no two peers hand different entries to their state
\* machines at one index (submitApply of the Ready of emitCommittedEntries).
StateMachineSafety ==
  \A i, j \in Server : \A e \in sm[i], f \in sm[j] : e.index = f.index => e = f

\* What the state machine of i holds once the pending Ready is processed.
Handed(i) == submitApply(sm[i], node[i])

\* A peer's state machine receives every index up to the peer's commit index
\* and nothing beyond it, also after the replay of a restart (NewPeer).
AppliedUpToCommit ==
  \A i \in Server : {e.index : e \in Handed(i)} = 1 .. node[i].commit

\* What was applied anywhere stays in the logs (or snapshots) of a quorum, so
\* that every later leader has it: the meaning of HardState.CommitIndex.
CommittedByQuorum ==
  \A e \in UNION Range(sm) :
    Cardinality({j \in Server : Holds(node[j].log, e)
                                \/ e \in node[j].snap.data}) >= quorum

\* No message makes a peer slice its log out of range (TruncateAndAppend).
NoPanic == \A i \in Server : Alive(i)

\* ReadIndex: the index a read waits for covers everything that any peer had
\* committed when the read was issued.
ReadIsFresh ==
  \A a \in answers : asked[a.id] # Nil /\ a.index >= asked[a.id]

\* A restart replays the snapshot and the committed entries: no step, and no
\* crash, takes an entry away from a state machine.
NothingUnapplied == [][\A i \in Server : Handed(i) \subseteq Handed(i)']_vars
=============================================================================
