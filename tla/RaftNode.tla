------------------------------ MODULE RaftNode ------------------------------
(***************************************************************************)
(* One Raft peer as a pure state machine (raft/raft.go, raft/read_index.go *)
(* and raft/types.go).  A peer is a record; every method of the Go type    *)
(* Raft is an operator from the record before the call to the record after *)
(* it.  The fields hs, ents, psnap, comm, msgs and rstates are the pending *)
(* outputs that Ready hands to the raft worker and Advance clears; msgs    *)
(* keeps one queue per destination.                                        *)
(*                                                                         *)
(* Timers and the leader hint (lead) are left out: a timeout may fire in   *)
(* any state, and lead is read only by the routing layer.                  *)
(***************************************************************************)
EXTENDS RaftLog

CONSTANTS Server,   \* the peers of the region (prs)
          Value,    \* proposal payloads
          ReadId,   \* identifiers of ReadIndex requests
          Nil       \* "no vote", "no hard state", "no read"

ASSUME ServerAssumption == IsFiniteSet(Server) /\ Server # {} /\ Nil \notin Server
ASSUME DataAssumption == NoOp \notin Value /\ Nil \notin ReadId /\ IsFiniteSet(ReadId)

----------------------------------------------------------------------------
(* The types of raft/types.go and raftpb.                                  *)

Entry     == [index : Int, term : Nat, data : Value \cup {NoOp}]
RaftLogs  == [offset : Int, entries : Seq(Entry)]
SnapType  == [index : Nat, term : Nat, data : SUBSET Entry]
HardState == [term : Nat, vote : Server \cup {Nil}, commit : Nat]
ReadRound == [index : Nat, started : BOOLEAN, acks : SUBSET Server]
ReadState == [id : ReadId, index : Nat]

Message ==
  [type : {"MsgVote"}, from : Server, to : Server, term : Nat,
   logIndex : Int, logTerm : Nat]
  \cup [type : {"MsgVoteResp"}, from : Server, to : Server, term : Nat,
        reject : BOOLEAN]
  \cup [type : {"MsgApp"}, from : Server, to : Server, term : Nat,
        logIndex : Int, logTerm : Nat, entries : Seq(Entry), commit : Nat,
        readId : ReadId \cup {Nil}]
  \cup [type : {"MsgAppResp"}, from : Server, to : Server, term : Nat,
        reject : BOOLEAN, logIndex : Int, logTerm : Nat,
        readId : ReadId \cup {Nil}]
  \cup [type : {"MsgSnap"}, from : Server, to : Server, term : Nat,
        snapshot : SnapType, readId : ReadId \cup {Nil}]
  \cup [type : {"MsgSnapResp"}, from : Server, to : Server, term : Nat,
        reject : BOOLEAN, readId : ReadId \cup {Nil}]

Peer ==
  [id : Server, state : {"Follower", "Candidate", "Leader", "Panic"},
   term : Nat, vote : Server \cup {Nil}, commit : Nat,
   log : RaftLogs, cursor : Nat, snap : SnapType,
   votes : [Server -> {"none", "granted", "rejected"}],
   reads : [ReadId -> ReadRound \cup {Nil}],
   match : [Server -> Int], next : [Server -> Int],
   hs : HardState \cup {Nil}, ents : Seq(Entry), psnap : SnapType,
   comm : Seq(Entry), msgs : [Server -> Seq(Message)],
   rstates : SUBSET ReadState]

\* An absent hard state differs from every hard state.
ASSUME NilAssumption == Nil \notin HardState

----------------------------------------------------------------------------

quorum == Cardinality(Server) \div 2 + 1

NoVotes   == [j \in Server |-> "none"]
NoReads   == [q \in ReadId |-> Nil]
NoMsgs    == [j \in Server |-> <<>>]
NoSnap    == [index |-> 0, term |-> 0, data |-> {}]
ZeroState == [term |-> 0, vote |-> Nil, commit |-> 0]

NewRaft(i) ==
  [id |-> i, state |-> "Follower", term |-> 0, vote |-> Nil, commit |-> 0,
   log |-> NewRaftLog, cursor |-> 0, snap |-> NoSnap,
   votes |-> NoVotes, reads |-> NoReads,
   match |-> [j \in Server |-> 0], next |-> [j \in Server |-> 1],
   hs |-> Nil, ents |-> <<>>, psnap |-> NoSnap, comm |-> <<>>,
   msgs |-> NoMsgs, rstates |-> {}]

\* Forget the outputs that the worker has processed.
Advance(r) ==
  [r EXCEPT !.hs = Nil, !.ents = <<>>, !.psnap = NoSnap, !.comm = <<>>,
            !.msgs = NoMsgs, !.rstates = {}]

send(r, m) == [r EXCEPT !.msgs[m.to] = Append(@, m)]

markHardStateChanged(r) ==
  [r EXCEPT !.hs = [term |-> r.term, vote |-> r.vote, commit |-> r.commit]]

----------------------------------------------------------------------------
(* Replication traffic: sendAppend, sendSnapshot, bcastAppend.             *)

sendAppend(r, to, readID) ==
  IF r.next[to] <= FirstIndex(r.log)
  THEN [type |-> "MsgSnap", from |-> r.id, to |-> to, term |-> r.term,
        snapshot |-> r.snap, readId |-> readID]
  ELSE [type |-> "MsgApp", from |-> r.id, to |-> to, term |-> r.term,
        logIndex |-> r.next[to] - 1, logTerm |-> Term(r.log, r.next[to] - 1),
        entries |-> Slice(r.log, r.next[to], LastIndex(r.log) + 1),
        commit |-> r.commit, readId |-> readID]

\* sendSnapshot sends nothing when there is no snapshot to send.
CanSend(r, to) == r.next[to] <= FirstIndex(r.log) => r.snap.index # 0

\* One bcastAppend for each read identifier of the sequence ids, in order.
bcastAppend(r, ids) ==
  [r EXCEPT !.msgs =
     [j \in Server |->
        IF j = r.id \/ ~CanSend(r, j) THEN r.msgs[j]
        ELSE r.msgs[j] \o [k \in 1 .. Len(ids) |-> sendAppend(r, j, ids[k])]]]

----------------------------------------------------------------------------
(* ReadIndex rounds.                                                       *)

\* Slip: a new leader reads before it has committed anything.
CommittedOrNot(r) == TRUE

committedEntryInCurrentTerm(r) ==
  r.commit > 0 /\ Term(r.log, r.commit) = r.term

\* The identifiers of a set in some order: Go iterates its map of rounds in
\* an unspecified order.
Listing(S) ==
  CHOOSE f \in [1 .. Cardinality(S) -> S] : \A q \in S : \E k \in DOMAIN f : f[k] = q

completeReadRound(r, q) ==
  [r EXCEPT !.rstates = @ \cup {[id |-> q, index |-> r.reads[q].index]},
            !.reads[q] = Nil]

PendingRounds(r) == {q \in ReadId : r.reads[q] # Nil /\ ~r.reads[q].started}
StartedRounds(r) == {q \in ReadId : r.reads[q] # Nil /\ r.reads[q].started}

\* startReadRound for every round of qs, none of which has started: capture
\* the commit index and ask the other peers, or finish when alone.
startReadRounds(r, qs) ==
  IF qs = {} \/ ~committedEntryInCurrentTerm(r) THEN r
  ELSE IF quorum <= 1
  THEN [r EXCEPT !.rstates = @ \cup {[id |-> q, index |-> r.commit] : q \in qs},
                 !.reads = [q \in ReadId |-> IF q \in qs THEN Nil ELSE @[q]]]
  ELSE bcastAppend(
         [r EXCEPT !.reads = [q \in ReadId |->
            IF q \in qs THEN [index |-> r.commit, started |-> TRUE, acks |-> {r.id}]
            ELSE @[q]]],
         Listing(qs))

startPendingReadRounds(r) ==
  IF r.state # "Leader" THEN r ELSE startReadRounds(r, PendingRounds(r))

retryReadRounds(r) == bcastAppend(r, Listing(StartedRounds(r)))

ackReadRound(r, q, from) ==
  IF q \notin StartedRounds(r) \/ r.state # "Leader" THEN r
  ELSE LET s == [r EXCEPT !.reads[q].acks = @ \cup {from}]
       IN  IF Cardinality(s.reads[q].acks) >= quorum
           THEN completeReadRound(s, q) ELSE s

ReadIndex(r, q) ==
  startReadRounds([r EXCEPT !.reads[q] = [index |-> 0, started |-> FALSE, acks |-> {}]],
                  {q})

CancelReadIndex(r, q) == [r EXCEPT !.reads[q] = Nil]

----------------------------------------------------------------------------
(* Commit advancement.                                                     *)

\* Slip: the entry at the commit index is left out.
EmitBelowCommit(r) ==
  [r EXCEPT !.comm = @ \o Slice(r.log, r.cursor + 1, r.commit),
            !.cursor = Max2(@, r.commit)]

\* Hand the newly committed entries that the log still holds to Ready.
emitCommittedEntries(r) ==
  [r EXCEPT !.comm = @ \o Slice(r.log, r.cursor + 1, r.commit + 1),
            !.cursor = Max2(@, r.commit)]

commitTo(r, index) ==
  IF index <= r.commit THEN r
  ELSE startPendingReadRounds(
         emitCommittedEntries(
           markHardStateChanged([r EXCEPT !.commit = index])))

\* Slip: one position too early in the descending order.
MatchOfFewer(r) ==
  CHOOSE k \in {r.match[j] : j \in Server} :
    /\ Cardinality({j \in Server : r.match[j] >= k}) >= quorum - 1
    /\ Cardinality({j \in Server : r.match[j] > k}) < quorum - 1

\* The entry at position quorum of the descending match indexes: the highest
\* index that a quorum of the peers is known to hold.
MedianMatch(r) ==
  CHOOSE k \in {r.match[j] : j \in Server} :
    /\ Cardinality({j \in Server : r.match[j] >= k}) >= quorum
    /\ Cardinality({j \in Server : r.match[j] > k}) < quorum

maybeCommit(r) ==
  IF MatchTerm(r.log, MedianMatch(r), r.term) THEN commitTo(r, MedianMatch(r)) ELSE r

appendEntry(r, data) ==
  LET index == LastIndex(r.log) + 1
      entry == [index |-> index, term |-> r.term, data |-> data]
  IN  maybeCommit(bcastAppend(
        [r EXCEPT !.log = AppendEntries(@, <<entry>>),
                  !.ents = Append(@, entry),
                  !.match[r.id] = index,
                  !.next[r.id] = index + 1],
        <<Nil>>))

----------------------------------------------------------------------------
(* Role changes and elections.                                             *)

becomeFollower(r, term) ==
  LET s == [r EXCEPT !.state = "Follower", !.votes = NoVotes, !.reads = NoReads]
  IN  IF term > r.term
      THEN markHardStateChanged([s EXCEPT !.term = term, !.vote = Nil])
      ELSE s

becomeCandidate(r) ==
  markHardStateChanged(
    [r EXCEPT !.state = "Candidate", !.term = @ + 1, !.vote = r.id,
              !.votes = [NoVotes EXCEPT ![r.id] = "granted"], !.reads = NoReads])

becomeLeader(r) ==
  appendEntry([r EXCEPT !.state = "Leader",
                        !.match = [j \in Server |-> 0],
                        !.next = [j \in Server |-> LastIndex(r.log) + 1]],
              NoOp)

VoteRequest(r, to) ==
  [type |-> "MsgVote", from |-> r.id, to |-> to, term |-> r.term,
   logIndex |-> LastIndex(r.log), logTerm |-> LastTerm(r.log)]

campaign(r) ==
  LET s == becomeCandidate(r)
  IN  IF Cardinality(Server) = 1 THEN becomeLeader(s)
      ELSE [s EXCEPT !.msgs =
              [j \in Server |-> IF j = s.id THEN @[j]
                                ELSE Append(@[j], VoteRequest(s, j))]]

\* Slip: an earlier vote of the term is forgotten.
CanVoteAgain(r, m) ==
  /\ r.term <= m.term
  /\ LastTerm(r.log) <= m.logTerm
  /\ LastTerm(r.log) = m.logTerm => LastIndex(r.log) <= m.logIndex

\* Slip: the candidate's log is not compared.
CanVoteAnyLog(r, m) == r.term <= m.term /\ r.vote \in {Nil, m.from}

canVote(r, m) ==
  /\ r.term <= m.term
  /\ r.vote \in {Nil, m.from}
  /\ LastTerm(r.log) <= m.logTerm
  /\ LastTerm(r.log) = m.logTerm => LastIndex(r.log) <= m.logIndex

\* Slip: the vote is not marked for storage.
VoteNotSaved(r, m) ==
  LET granted == canVote(r, m)
      s == IF granted THEN [r EXCEPT !.vote = m.from] ELSE r
  IN  send(s, [type |-> "MsgVoteResp", from |-> r.id, to |-> m.from,
               term |-> s.term, reject |-> ~granted])

handleVote(r, m) ==
  LET granted == canVote(r, m)
      s == IF granted THEN markHardStateChanged([r EXCEPT !.vote = m.from]) ELSE r
  IN  send(s, [type |-> "MsgVoteResp", from |-> r.id, to |-> m.from,
               term |-> s.term, reject |-> ~granted])

\* Slip: every answer counts, also a rejection.
CountEveryAnswer(r, m) ==
  LET s == [r EXCEPT !.votes[m.from] = IF m.reject THEN "rejected" ELSE "granted"]
  IN  IF Cardinality({j \in Server : s.votes[j] # "none"}) >= quorum
      THEN becomeLeader(s) ELSE s

handleVoteResp(r, m) ==
  LET s == [r EXCEPT !.votes[m.from] = IF m.reject THEN "rejected" ELSE "granted"]
      Count(v) == Cardinality({j \in Server : s.votes[j] = v})
  IN  IF Count("granted") >= quorum THEN becomeLeader(s)
      ELSE IF Count("rejected") >= quorum THEN becomeFollower(s, s.term)
      ELSE s

----------------------------------------------------------------------------
(* Log replication at the follower and its acknowledgement at the leader.  *)

AppResp(r, m, reject, logIndex, logTerm) ==
  [type |-> "MsgAppResp", from |-> r.id, to |-> m.from, term |-> r.term,
   reject |-> reject, logIndex |-> logIndex, logTerm |-> logTerm,
   readId |-> m.readId]

\* The log rejects the entry before the new ones: cut the whole run of
\* conflicting entries and report its term and first index.
rejectConflict(r, m) ==
  LET first == FirstIndexOfRun(r.log, m.logIndex)
  IN  send([r EXCEPT !.log = Truncate(@, first)],
           AppResp(r, m, TRUE, first, Term(r.log, m.logIndex)))

\* The log has the entry before the new ones: replace everything after it,
\* then follow the leader's commit index.
acceptEntries(r, m) ==
  LET s == IF m.entries = <<>> THEN r
           ELSE [r EXCEPT !.log = TruncateAndAppend(@, m.logIndex, m.entries),
                          !.ents = @ \o m.entries]
      t == commitTo(s, Min2(m.commit, LastIndex(s.log)))
  IN  IF m.entries # <<>> /\ ~TruncateInRange(r.log, m.logIndex)
      THEN [r EXCEPT !.state = "Panic"]
      ELSE send(t, AppResp(t, m, FALSE, LastIndex(t.log), 0))

\* Slip: the term of the entry before the new ones is not compared.
AppendUnmatched(r, m) ==
  LET s == becomeFollower(r, m.term)
  IN  IF r.term > m.term THEN send(r, AppResp(r, m, TRUE, 0, 0))
      ELSE IF m.logIndex > LastIndex(s.log)
      THEN send(s, AppResp(s, m, TRUE, LastIndex(s.log) + 1, 0))
      ELSE acceptEntries(s, m)

handleAppend(r, m) ==
  LET s == becomeFollower(r, m.term)
  IN  IF r.term > m.term THEN send(r, AppResp(r, m, TRUE, 0, 0))
      ELSE IF m.logIndex > LastIndex(s.log)
      THEN send(s, AppResp(s, m, TRUE, LastIndex(s.log) + 1, 0))
      ELSE IF m.logTerm # Term(s.log, m.logIndex) THEN rejectConflict(s, m)
      ELSE acceptEntries(s, m)

\* Where the leader tries next after a rejection.
NextAfterReject(r, m) ==
  IF m.logTerm = 0 THEN Max2(m.logIndex, 1)
  ELSE IF IndexesOfTerm(r.log, m.logTerm) # {}
  THEN FindLastIndexOfTerm(r.log, m.logTerm) + 1
  ELSE m.logIndex

handleAppendResp(r, m) ==
  LET s     == ackReadRound(r, m.readId, m.from)
      next  == IF m.reject THEN NextAfterReject(r, m)
               ELSE Min2(m.logIndex + 1, LastIndex(r.log) + 1)
      match == IF m.reject THEN r.match[m.from] ELSE m.logIndex
  IN  IF m.term # r.term THEN r
      ELSE maybeCommit([s EXCEPT !.next[m.from] = next,
                                 !.match[m.from] = Min2(match, next - 1)])

----------------------------------------------------------------------------
(* Snapshots: restoring one, taking one, sending one.                      *)

\* Slip: the commit index stays behind the snapshot.
RestoreKeepsCommit(r, snap) ==
  IF snap.index = 0 THEN r
  ELSE [r EXCEPT !.psnap = snap, !.snap = snap,
                 !.log = Restore(snap.index, snap.term),
                 !.cursor = snap.index,
                 !.term = Max2(snap.term, @)]

RestoreSnapshot(r, snap) ==
  IF snap.index = 0 THEN r
  ELSE [r EXCEPT !.psnap = snap, !.snap = snap,
                 !.log = Restore(snap.index, snap.term),
                 !.cursor = snap.index,
                 !.commit = Max2(snap.index, @),
                 !.term = Max2(snap.term, @)]

RestoreState(r, hs, es) ==
  emitCommittedEntries([r EXCEPT !.term = hs.term, !.vote = hs.vote,
                                 !.commit = hs.commit,
                                 !.log = AppendEntries(@, es)])

\* Slip: the log is compacted but the snapshot is not kept for sending.
CompactOnly(r, index, data) ==
  LET term == Term(r.log, index)
      log  == CompactTo(r.log, index, term)
  IN  IF index <= FirstIndex(r.log) THEN r
      ELSE markHardStateChanged(
             [r EXCEPT !.log = log, !.commit = Max2(index, @), !.cursor = Max2(index, @)])

\* Compact the log to a snapshot of the local state machine.
Snapshot(r, index, data) ==
  LET term == Term(r.log, index)
      log  == CompactTo(r.log, index, term)
      s    == markHardStateChanged(
                [r EXCEPT !.log = log, !.commit = Max2(index, @),
                          !.cursor = Max2(index, @),
                          !.snap = [index |-> index, term |-> term, data |-> data]])
  IN  IF index <= FirstIndex(r.log) THEN r
      ELSE IF r.state # "Leader" THEN s
      ELSE [s EXCEPT !.next  = [j \in Server |-> Max2(@[j], FirstIndex(log) + 1)],
                     !.match = [j \in Server |-> Max2(@[j], FirstIndex(log))]]

SnapResp(r, m, reject) ==
  [type |-> "MsgSnapResp", from |-> r.id, to |-> m.from, term |-> r.term,
   reject |-> reject, readId |-> m.readId]

handleSnapshot(r, m) ==
  IF r.term > m.term \/ FirstIndex(r.log) >= m.snapshot.index
  THEN send(r, SnapResp(r, m, TRUE))
  ELSE send(RestoreSnapshot(becomeFollower(r, m.term), m.snapshot),
            SnapResp(r, m, FALSE))

handleSnapshotResp(r, m) ==
  LET s == ackReadRound(r, m.readId, m.from)
  IN  IF m.term # r.term THEN r
      ELSE IF m.reject THEN s
      ELSE [s EXCEPT !.next[m.from] = FirstIndex(r.log) + 1,
                     !.match[m.from] = FirstIndex(r.log)]

----------------------------------------------------------------------------
(* Dispatch by role, and the leader's heartbeat.                           *)

Handles(state, type) ==
  \/ state = "Follower"  /\ type \in {"MsgVote", "MsgApp", "MsgSnap"}
  \/ state = "Candidate" /\ type \in {"MsgVote", "MsgApp", "MsgSnap", "MsgVoteResp"}
  \/ state = "Leader"    /\ type \in {"MsgAppResp", "MsgSnapResp"}

Handle(r, m) ==
  CASE m.type = "MsgVote"     -> handleVote(r, m)
    [] m.type = "MsgVoteResp" -> handleVoteResp(r, m)
    [] m.type = "MsgApp"      -> handleAppend(r, m)
    [] m.type = "MsgAppResp"  -> handleAppendResp(r, m)
    [] m.type = "MsgSnap"     -> handleSnapshot(r, m)
    [] m.type = "MsgSnapResp" -> handleSnapshotResp(r, m)

\* A message of a newer term makes any peer a follower before it is handled.
\* The local messages MsgHup and MsgBeat are left out: only tests send them.
Step(r, m) ==
  LET s == IF m.term > r.term THEN becomeFollower(r, m.term) ELSE r
  IN  IF Handles(s.state, m.type) THEN Handle(s, m) ELSE s

Heartbeat(r) == retryReadRounds(bcastAppend(r, <<Nil>>))
=============================================================================
