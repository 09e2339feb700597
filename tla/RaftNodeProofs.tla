--------------------------- MODULE RaftNodeProofs ---------------------------
(***************************************************************************)
(* What the methods of one Raft peer preserve, for every set of peers and  *)
(* payloads: each operator of RaftNode maps a sound peer to a sound peer.  *)
(***************************************************************************)
EXTENDS RaftNode, FiniteSetTheorems, SequenceTheorems, TLAPS

\* Entries of a term up to t, and logs made of them.
EntriesUpTo(t) == {e \in Entry : e.term <= t}
LogsUpTo(t)    == [offset : Int, entries : Seq(EntriesUpTo(t))]

\* Go's max and min (Max2, Min2) return one of their arguments and bound both.
LEMMA MaxMinType ==
  ASSUME NEW a \in Int, NEW b \in Int
  PROVE  /\ Max2(a, b) \in Int /\ Max2(a, b) >= a /\ Max2(a, b) >= b
         /\ Min2(a, b) \in Int /\ Min2(a, b) <= a /\ Min2(a, b) <= b
         /\ Max2(a, b) \in {a, b} /\ Min2(a, b) \in {a, b}
BY DEF Max2, Min2

\* A log whose terms are bounded is a log.
LEMMA LogsTyped ==
  ASSUME NEW t \in Nat
  PROVE  /\ Seq(EntriesUpTo(t)) \subseteq Seq(Entry)
         /\ LogsUpTo(t) \subseteq RaftLogs
<1>1. EntriesUpTo(t) \subseteq Entry
  BY DEF EntriesUpTo
<1>2. Seq(EntriesUpTo(t)) \subseteq Seq(Entry)
  BY <1>1, SeqMonotonic
<1> QED BY <1>2 DEF LogsUpTo, RaftLogs

\* A log bounded by one term is bounded by every later one.
LEMMA EntriesGrow ==
  ASSUME NEW t \in Nat, NEW u \in Nat, t <= u
  PROVE  /\ Seq(EntriesUpTo(t)) \subseteq Seq(EntriesUpTo(u))
         /\ LogsUpTo(t) \subseteq LogsUpTo(u)
<1>1. EntriesUpTo(t) \subseteq EntriesUpTo(u)
  BY DEF EntriesUpTo, Entry
<1>2. Seq(EntriesUpTo(t)) \subseteq Seq(EntriesUpTo(u))
  BY <1>1, SeqMonotonic
<1> QED BY <1>2 DEF LogsUpTo

\* FirstIndex and LastIndex are integers.
LEMMA LogIndexType ==
  ASSUME NEW t \in Nat, NEW l \in LogsUpTo(t)
  PROVE  /\ FirstIndex(l) \in Int /\ l.offset \in Int
         /\ l.entries \in Seq(EntriesUpTo(t)) /\ Len(l.entries) \in Nat
         /\ LastIndex(l) \in Int
         /\ LastIndex(l) = l.offset + Len(l.entries) - 1
         /\ FirstIndex(l) = l.offset
<1>1. l.offset \in Int /\ l.entries \in Seq(EntriesUpTo(t))
  BY DEF LogsUpTo
<1>2. Len(l.entries) \in Nat
  BY <1>1, LenProperties
<1> QED BY <1>1, <1>2 DEF FirstIndex, LastIndex

\* RaftLog.Term returns a term within the bound of the log.
LEMMA TermType ==
  ASSUME NEW t \in Nat, NEW l \in LogsUpTo(t), NEW i \in Int
  PROVE  Term(l, i) \in 0 .. t
<1>1. CASE i < l.offset \/ i > LastIndex(l)
  BY <1>1 DEF Term
<1>2. CASE ~(i < l.offset \/ i > LastIndex(l))
  <2>1. i - l.offset + 1 \in 1 .. Len(l.entries)
    BY <1>2, LogIndexType
  <2>2. l.entries[i - l.offset + 1] \in EntriesUpTo(t)
    BY <2>1, LogIndexType, ElementOfSeq, Zenon
  <2> QED BY <1>2, <2>2 DEF Term, EntriesUpTo, Entry
<1> QED BY <1>1, <1>2

\* RaftLog.LastTerm returns a term within the bound of the log.
LEMMA LastTermType ==
  ASSUME NEW t \in Nat, NEW l \in LogsUpTo(t)
  PROVE  LastTerm(l) \in 0 .. t
<1>1. CASE l.entries = <<>>
  BY <1>1 DEF LastTerm
<1>2. CASE l.entries # <<>>
  <2>1. Len(l.entries) \in 1 .. Len(l.entries)
    BY <1>2, LogIndexType, EmptySeq
  <2>2. l.entries[Len(l.entries)] \in EntriesUpTo(t)
    BY <2>1, LogIndexType, ElementOfSeq
  <2> QED BY <1>2, <2>2 DEF LastTerm, EntriesUpTo, Entry
<1> QED BY <1>1, <1>2

\* Cutting a sequence out of a log's entries.
LEMMA CutType ==
  ASSUME NEW S, NEW es \in Seq(S), NEW m \in Int, NEW n \in Int, m >= 1, n <= Len(es)
  PROVE  SubSeq(es, m, n) \in Seq(S)
<1>1. Len(es) \in Nat
  BY LenProperties
<1>2. \A i \in m .. n : es[i] \in S
  <2> TAKE i \in m .. n
  <2>1. i \in 1 .. Len(es)
    BY <1>1
  <2> QED BY <2>1, ElementOfSeq
<1> QED BY <1>2, SubSeqProperties

\* RaftLog.Slice returns entries within the bound of the log.
LEMMA SliceType ==
  ASSUME NEW t \in Nat, NEW l \in LogsUpTo(t), NEW lo \in Int, NEW hi \in Int
  PROVE  Slice(l, lo, hi) \in Seq(EntriesUpTo(t))
<1>1. /\ l.offset \in Int /\ LastIndex(l) \in Int /\ Len(l.entries) \in Nat
      /\ LastIndex(l) = l.offset + Len(l.entries) - 1
  BY LogIndexType
<1>2. PICK m \in Int : m >= 1 /\ m = Max2(lo, l.offset) - l.offset + 1
  <2>1. Max2(lo, l.offset) \in Int /\ Max2(lo, l.offset) >= l.offset
    BY <1>1, MaxMinType, Zenon
  <2> QED BY <1>1, <2>1
<1>3. PICK n \in Int : n <= Len(l.entries) /\ n = Min2(hi, LastIndex(l) + 1) - l.offset
  <2>1. LastIndex(l) + 1 \in Int
    BY <1>1
  <2>2. /\ Min2(hi, LastIndex(l) + 1) \in Int
        /\ Min2(hi, LastIndex(l) + 1) <= LastIndex(l) + 1
    BY <2>1, MaxMinType, Zenon
  <2> QED BY <1>1, <2>2
<1>4. SubSeq(l.entries, m, n) \in Seq(EntriesUpTo(t))
  BY <1>2, <1>3, LogIndexType, CutType, Zenon
<1> QED BY <1>2, <1>3, <1>4 DEF Slice

----------------------------------------------------------------------------
(* Elements of finite sets of integers by rank, and the largest of them.   *)

\* A finite set of integers has a k-th smallest element: LoadEntries lists
\* the stored indexes in this order.
LEMMA KthSmallest ==
  ASSUME NEW S \in SUBSET Int, IsFiniteSet(S), NEW k \in 1 .. Cardinality(S)
  PROVE  \E x \in S : Cardinality({y \in S : y < x}) = k - 1
<1> DEFINE below(x) == {y \in S : y < x}
           n == Cardinality(S)
           rank == [x \in S |-> Cardinality(below(x))]
<1>1. n \in Nat
  BY FS_CardinalityType
<1>2. \A x \in S : IsFiniteSet(below(x)) /\ Cardinality(below(x)) \in 0 .. n - 1
  <2> TAKE x \in S
  <2>1. below(x) \in SUBSET S /\ x \notin below(x)
    OBVIOUS
  <2>2. /\ IsFiniteSet(below(x)) /\ Cardinality(below(x)) <= n
        /\ Cardinality(below(x)) # n
    BY <2>1, FS_Subset
  <2>3. Cardinality(below(x)) \in Nat
    BY <2>2, FS_CardinalityType
  <2> QED BY <1>1, <2>2, <2>3
<1>3. \A x, z \in S : x < z => Cardinality(below(x)) # Cardinality(below(z))
  <2> TAKE x, z \in S
  <2> HAVE x < z
  <2>1. x \in Int /\ z \in Int
    OBVIOUS
  <2>2. \A y \in below(x) : y \in Int /\ y < z
    BY <2>1
  <2>3. below(x) \in SUBSET below(z)
    BY <2>2, Zenon
  <2>4. x \in below(z) /\ x \notin below(x)
    BY <2>1
  <2> QED BY <1>2, <2>3, <2>4, FS_Subset
<1>4. rank \in Injection(S, 0 .. n - 1)
  <2>1. rank \in [S -> 0 .. n - 1]
    BY <1>2
  <2>2. ASSUME NEW x \in S, NEW z \in S, rank[x] = rank[z]  PROVE x = z
    BY <2>2, <1>3
  <2> QED BY <2>1, <2>2, Zenon DEF Injection, IsInjective
<1>5. IsFiniteSet(0 .. n - 1) /\ Cardinality(0 .. n - 1) = n
  <2>1. 0 \in Int /\ n - 1 \in Int
    BY <1>1
  <2>2. /\ IsFiniteSet(0 .. n - 1)
        /\ Cardinality(0 .. n - 1) = IF 0 > n - 1 THEN 0 ELSE n - 1 - 0 + 1
    BY <2>1, FS_Interval, Zenon
  <2> QED BY <1>1, <2>2
<1>6. rank \in Surjection(S, 0 .. n - 1)
  <2> HIDE DEF rank
  <2> QED BY <1>4, <1>5, FS_Injection
<1>7. \A i \in 0 .. n - 1 : \E x \in S : rank[x] = i
  <2> HIDE DEF rank
  <2> QED BY <1>6 DEF Surjection
<1>8. k - 1 \in 0 .. n - 1
  BY <1>1
<1> QED BY <1>7, <1>8

\* A finite non-empty set of integers has a largest element.
LEMMA LargestExists ==
  ASSUME NEW S \in SUBSET Int, IsFiniteSet(S), S # {}
  PROVE  \E x \in S : \A y \in S : y <= x
<1> DEFINE n == Cardinality(S)
<1>1. n \in Nat /\ n # 0
  BY FS_CardinalityType, FS_EmptySet
<1>2. PICK x \in S : Cardinality({y \in S : y < x}) = n - 1
  BY <1>1, KthSmallest
<1>3. ASSUME NEW z \in S, z > x  PROVE FALSE
  <2> DEFINE T == {y \in S : y < x}
  <2>1. IsFiniteSet(S \ {x}) /\ Cardinality(S \ {x}) = n - 1
    BY FS_RemoveElement
  <2>2. T \in SUBSET (S \ {x}) /\ z \in S \ {x} /\ z \notin T
    BY <1>3
  <2> QED BY <1>2, <2>1, <2>2, FS_Subset
<1> QED BY <1>3

----------------------------------------------------------------------------
(* Sound peers.                                                            *)

\* What a peer i of term t that votes for v may have queued for j: messages of
\* its term, and a granted vote only for the candidate it voted for.
OutMsg(i, j, t, v, K) ==
  {m \in Message :
     /\ m.from = i /\ m.to = j /\ m.term = t /\ m.type \in K
     /\ m.type = "MsgApp" => m.entries \in Seq(EntriesUpTo(t))
     /\ m.type = "MsgSnap" => m.snapshot.term <= t
     /\ m.type = "MsgVoteResp" /\ ~m.reject => v = j}

\* No term stored in a peer exceeds the peer's own, its pending hard state is
\* its current one, and its pending messages have kinds in K.
Sound(r, K) ==
  /\ r \in Peer
  /\ r.log \in LogsUpTo(r.term)
  /\ r.ents \in Seq(EntriesUpTo(r.term))
  /\ r.snap.term <= r.term /\ r.psnap.term <= r.term
  /\ r.hs # Nil => r.hs.term = r.term /\ r.hs.vote = r.vote
  /\ \A j \in Server : r.msgs[j] \in Seq(OutMsg(r.id, j, r.term, r.vote, K))

\* The election state is the same and a pending hard state stays pending.
Keeps(r, s) ==
  /\ s.id = r.id /\ s.state = r.state /\ s.term = r.term
  /\ s.vote = r.vote /\ s.votes = r.votes
  /\ r.hs # Nil => s.hs # Nil

AppKinds == {"MsgApp", "MsgSnap"}

\* Replacing the outgoing queues keeps a peer sound.
LEMMA SetMsgs ==
  ASSUME NEW K, NEW r, Sound(r, K), NEW M,
         M \in [Server -> Seq(Message)],
         \A j \in Server : M[j] \in Seq(OutMsg(r.id, j, r.term, r.vote, K))
  PROVE  Sound([r EXCEPT !.msgs = M], K) /\ Keeps(r, [r EXCEPT !.msgs = M])
BY Zenon DEF Sound, Keeps, Peer

\* Replacing the read rounds keeps a peer sound.
LEMMA SetReads ==
  ASSUME NEW K, NEW r, Sound(r, K), NEW R \in [ReadId -> ReadRound \cup {Nil}]
  PROVE  Sound([r EXCEPT !.reads = R], K) /\ Keeps(r, [r EXCEPT !.reads = R])
BY Zenon DEF Sound, Keeps, Peer

\* Replacing the read rounds and the delivered read states keeps a peer sound.
LEMMA FinishReads ==
  ASSUME NEW K, NEW r, Sound(r, K), NEW R \in [ReadId -> ReadRound \cup {Nil}],
         NEW Q \in SUBSET ReadState, NEW s, s = [r EXCEPT !.reads = R, !.rstates = Q]
  PROVE  Sound(s, K) /\ Keeps(r, s)
BY Zenon DEF Sound, Keeps, Peer

\* What a function gives for each position is a sequence.
LEMMA MakeSeq ==
  ASSUME NEW S, NEW n \in Nat, NEW f \in [1 .. n -> S]
  PROVE  f \in Seq(S)
BY SeqDef

\* The types of the fields of a sound peer.
LEMMA SoundFields ==
  ASSUME NEW K, NEW r, Sound(r, K)
  PROVE  /\ r.id \in Server /\ r.term \in Nat /\ r.commit \in Nat /\ r.cursor \in Nat
         /\ r.vote \in Server \cup {Nil}
         /\ r.log \in LogsUpTo(r.term) /\ r.log \in RaftLogs
         /\ r.ents \in Seq(EntriesUpTo(r.term))
         /\ r.comm \in Seq(Entry)
         /\ r.snap \in SnapType /\ r.snap.term <= r.term
         /\ r.psnap \in SnapType /\ r.psnap.term <= r.term
         /\ r.next \in [Server -> Int] /\ r.match \in [Server -> Int]
         /\ r.votes \in [Server -> {"none", "granted", "rejected"}]
         /\ r.reads \in [ReadId -> ReadRound \cup {Nil}]
         /\ r.rstates \in SUBSET ReadState
         /\ r.msgs \in [Server -> Seq(Message)]
         /\ \A j \in Server : r.msgs[j] \in Seq(OutMsg(r.id, j, r.term, r.vote, K))
BY Zenon DEF Sound, Peer

\* sendAppend and sendSnapshot build well-typed messages of the peer's term.
LEMMA SendAppendType ==
  ASSUME NEW K, NEW r, Sound(r, K), AppKinds \subseteq K,
         NEW to \in Server, NEW q \in ReadId \cup {Nil}
  PROVE  sendAppend(r, to, q) \in OutMsg(r.id, to, r.term, r.vote, K)
<1>1. r.next[to] \in Int /\ r.next[to] - 1 \in Int /\ LastIndex(r.log) + 1 \in Int
  <2>1. r.next \in [Server -> Int] /\ r.term \in Nat /\ r.log \in LogsUpTo(r.term)
    BY SoundFields
  <2>2. LastIndex(r.log) \in Int
    BY <2>1, LogIndexType
  <2> QED BY <2>1, <2>2
<1>2. Term(r.log, r.next[to] - 1) \in 0 .. r.term
  BY <1>1, SoundFields, TermType, Zenon
<1>3. Slice(r.log, r.next[to], LastIndex(r.log) + 1) \in Seq(EntriesUpTo(r.term))
  BY <1>1, SoundFields, SliceType
<1>4. Slice(r.log, r.next[to], LastIndex(r.log) + 1) \in Seq(Entry)
  BY <1>3, SoundFields, LogsTyped, Zenon
<1>5. CASE r.next[to] <= FirstIndex(r.log)
  BY <1>5, SoundFields DEF sendAppend, OutMsg, Message, AppKinds
<1>6. CASE ~(r.next[to] <= FirstIndex(r.log))
  BY <1>1, <1>2, <1>3, <1>4, <1>6, SoundFields DEF sendAppend, OutMsg, Message, AppKinds
<1> QED BY <1>5, <1>6

\* bcastAppend only adds messages.
LEMMA BcastAppendSound ==
  ASSUME NEW K, NEW r, Sound(r, K), AppKinds \subseteq K,
         NEW ids \in Seq(ReadId \cup {Nil})
  PROVE  Sound(bcastAppend(r, ids), K) /\ Keeps(r, bcastAppend(r, ids))
<1> DEFINE new(j) == [k \in 1 .. Len(ids) |-> sendAppend(r, j, ids[k])]
           M == [j \in Server |-> IF j = r.id \/ ~CanSend(r, j) THEN r.msgs[j]
                                   ELSE r.msgs[j] \o new(j)]
           Out(j) == OutMsg(r.id, j, r.term, r.vote, K)
<1>1. Len(ids) \in Nat /\ \A k \in 1 .. Len(ids) : ids[k] \in ReadId \cup {Nil}
  BY LenProperties, ElementOfSeq
<1>2. ASSUME NEW j \in Server  PROVE M[j] \in Seq(Out(j)) /\ M[j] \in Seq(Message)
  <2>1. \A k \in 1 .. Len(ids) : sendAppend(r, j, ids[k]) \in Out(j)
    BY <1>1, SendAppendType
  <2>2. new(j) \in Seq(Out(j))
    BY <1>1, <2>1, MakeSeq
  <2>3. r.msgs[j] \in Seq(Out(j))
    BY SoundFields
  <2>4. r.msgs[j] \o new(j) \in Seq(Out(j))
    BY <2>2, <2>3, ConcatProperties
  <2>5. Seq(Out(j)) \subseteq Seq(Message)
    <3>1. Out(j) \subseteq Message
      BY DEF OutMsg
    <3> QED BY <3>1, SeqMonotonic
  <2>6. M[j] \in Seq(Out(j))
    BY <2>3, <2>4, Zenon
  <2> QED BY <2>5, <2>6, Zenon
<1>3. M \in [Server -> Seq(Message)]
  BY <1>2, Zenon
<1>4. Sound([r EXCEPT !.msgs = M], K) /\ Keeps(r, [r EXCEPT !.msgs = M])
  <2> HIDE DEF M
  <2> QED BY <1>2, <1>3, SetMsgs
<1> QED BY <1>4 DEF bcastAppend

----------------------------------------------------------------------------
(* ReadIndex rounds and commit advancement.                                *)

\* Listing enumerates a set of read identifiers.
LEMMA ListingType ==
  ASSUME NEW S \in SUBSET ReadId
  PROVE  Listing(S) \in Seq(ReadId \cup {Nil})
<1> DEFINE n == Cardinality(S)
<1>1. IsFiniteSet(S) /\ n \in Nat /\ ExistsBijection(1 .. n, S)
  BY DataAssumption, FS_Subset, FS_CardinalityType
<1>2. \E f \in [1 .. n -> S] : \A q \in S : \E k \in DOMAIN f : f[k] = q
  BY <1>1 DEF ExistsBijection, Bijection, Surjection
<1>3. Listing(S) \in [1 .. n -> S]
  BY <1>2, Zenon DEF Listing
<1>4. Listing(S) \in [1 .. n -> ReadId \cup {Nil}]
  <2> HIDE DEF n
  <2> QED BY <1>3
<1> QED BY <1>1, <1>4, MakeSeq

\* Keeps is transitive.
LEMMA KeepsTrans ==
  ASSUME NEW r, NEW s, NEW t, Keeps(r, s), Keeps(s, t)
  PROVE  Keeps(r, t)
BY DEF Keeps

\* startReadRound keeps term, vote and role.
LEMMA StartReadRoundsSound ==
  ASSUME NEW K, NEW r, Sound(r, K), AppKinds \subseteq K, NEW qs \in SUBSET ReadId
  PROVE  Sound(startReadRounds(r, qs), K) /\ Keeps(r, startReadRounds(r, qs))
<1> DEFINE R1 == [q \in ReadId |-> IF q \in qs THEN Nil ELSE r.reads[q]]
           Q  == r.rstates \cup {[id |-> q, index |-> r.commit] : q \in qs}
           R2 == [q \in ReadId |->
                    IF q \in qs THEN [index |-> r.commit, started |-> TRUE, acks |-> {r.id}]
                    ELSE r.reads[q]]
           s  == [r EXCEPT !.reads = R2]
<1>1. CASE qs = {} \/ ~committedEntryInCurrentTerm(r)
  BY <1>1 DEF startReadRounds, Keeps
<1>2. CASE ~(qs = {} \/ ~committedEntryInCurrentTerm(r)) /\ quorum <= 1
  <2>1. R1 \in [ReadId -> ReadRound \cup {Nil}] /\ Q \in SUBSET ReadState
    BY SoundFields DEF ReadState
  <2>2. startReadRounds(r, qs) = [r EXCEPT !.reads = R1, !.rstates = Q]
    BY <1>2, SoundFields, Zenon DEF startReadRounds, Sound, Peer
  <2> HIDE DEF R1, Q
  <2> QED BY <2>1, <2>2, FinishReads, Zenon
<1>3. CASE ~(qs = {} \/ ~committedEntryInCurrentTerm(r)) /\ ~(quorum <= 1)
  <2>1. R2 \in [ReadId -> ReadRound \cup {Nil}]
    BY SoundFields DEF ReadRound
  <2>2. r.rstates \in SUBSET ReadState
    BY SoundFields
  <2>3. Sound(s, K) /\ Keeps(r, s)
    <3> HIDE DEF R2
    <3> QED BY <2>1, <2>2, SetReads
  <2>4. Listing(qs) \in Seq(ReadId \cup {Nil})
    BY ListingType
  <2>5. Sound(bcastAppend(s, Listing(qs)), K) /\ Keeps(s, bcastAppend(s, Listing(qs)))
    <3> HIDE DEF s
    <3> QED BY <2>3, <2>4, BcastAppendSound
  <2>6. startReadRounds(r, qs) = bcastAppend(s, Listing(qs))
    BY <1>3 DEF startReadRounds
  <2> HIDE DEF s
  <2> QED BY <2>3, <2>5, <2>6, KeepsTrans
<1> QED BY <1>1, <1>2, <1>3

\* startPendingReadRounds keeps term, vote and role.
LEMMA PendingReadRoundsSound ==
  ASSUME NEW K, NEW r, Sound(r, K), AppKinds \subseteq K
  PROVE  /\ Sound(startPendingReadRounds(r), K) /\ Keeps(r, startPendingReadRounds(r))
         /\ Sound(retryReadRounds(r), K) /\ Keeps(r, retryReadRounds(r))
<1>1. PendingRounds(r) \in SUBSET ReadId /\ StartedRounds(r) \in SUBSET ReadId
  BY DEF PendingRounds, StartedRounds
<1>2. Sound(startPendingReadRounds(r), K) /\ Keeps(r, startPendingReadRounds(r))
  <2>1. CASE r.state # "Leader"
    BY <2>1 DEF startPendingReadRounds, Keeps
  <2>2. CASE r.state = "Leader"
    BY <2>2, <1>1, StartReadRoundsSound DEF startPendingReadRounds
  <2> QED BY <2>1, <2>2
<1>3. Sound(retryReadRounds(r), K) /\ Keeps(r, retryReadRounds(r))
  BY <1>1, ListingType, BcastAppendSound DEF retryReadRounds
<1> QED BY <1>2, <1>3

\* ackReadRound and completeReadRound keep term, vote and role.
LEMMA AckReadRoundSound ==
  ASSUME NEW K, NEW r, Sound(r, K), NEW q, NEW from \in Server
  PROVE  Sound(ackReadRound(r, q, from), K) /\ Keeps(r, ackReadRound(r, q, from))
<1> DEFINE a == r.reads[q].acks \cup {from}
           s == [r EXCEPT !.reads[q].acks = @ \cup {from}]
           Q == s.rstates \cup {[id |-> q, index |-> s.reads[q].index]}
<1>1. CASE q \notin StartedRounds(r) \/ r.state # "Leader"
  BY <1>1 DEF ackReadRound, Keeps
<1>2. CASE q \in StartedRounds(r) /\ r.state = "Leader"
  <2>1. q \in ReadId /\ r.reads[q] \in ReadRound /\ r.reads \in [ReadId -> ReadRound \cup {Nil}]
    BY <1>2, SoundFields DEF StartedRounds
  <2>2. [r.reads EXCEPT ![q].acks = @ \cup {from}] \in [ReadId -> ReadRound \cup {Nil}]
    BY <2>1 DEF ReadRound
  <2>3. s = [r EXCEPT !.reads = [r.reads EXCEPT ![q].acks = @ \cup {from}]]
    BY DEF Sound, Peer
  <2>4. r.rstates \in SUBSET ReadState
    BY SoundFields
  <2>5. Sound(s, K) /\ Keeps(r, s)
    <3> HIDE DEF s
    <3> QED BY <2>2, <2>3, <2>4, SetReads, Zenon
  <2>6. s.reads[q] \in ReadRound /\ s.reads \in [ReadId -> ReadRound \cup {Nil}]
    BY <2>1, <2>2, <2>3, Zenon DEF Sound, Peer, ReadRound
  <2> HIDE DEF s
  <2>7. /\ [s.reads EXCEPT ![q] = Nil] \in [ReadId -> ReadRound \cup {Nil}]
        /\ Q \in SUBSET ReadState
    BY <2>1, <2>5, <2>6, SoundFields DEF ReadState, ReadRound
  <2>8. completeReadRound(s, q) = [s EXCEPT !.reads = [s.reads EXCEPT ![q] = Nil], !.rstates = Q]
    BY <2>5, Zenon DEF completeReadRound, Sound, Peer
  <2>9. Sound(completeReadRound(s, q), K) /\ Keeps(s, completeReadRound(s, q))
    <3> HIDE DEF Q
    <3> QED BY <2>5, <2>7, <2>8, FinishReads, Zenon
  <2>10. ackReadRound(r, q, from) \in {s, completeReadRound(s, q)}
    BY <1>2 DEF ackReadRound, s
  <2> QED BY <2>5, <2>9, <2>10, KeepsTrans
<1> QED BY <1>1, <1>2

\* ReadIndex keeps term, vote and role.
LEMMA ReadIndexSound ==
  ASSUME NEW K, NEW r, Sound(r, K), AppKinds \subseteq K, NEW q \in ReadId
  PROVE  /\ Sound(ReadIndex(r, q), K) /\ Keeps(r, ReadIndex(r, q))
         /\ Sound(CancelReadIndex(r, q), K) /\ Keeps(r, CancelReadIndex(r, q))
<1> DEFINE round == [index |-> 0, started |-> FALSE, acks |-> {}]
           R == [r.reads EXCEPT ![q] = round]
           C == [r.reads EXCEPT ![q] = Nil]
           s == [r EXCEPT !.reads = R]
<1>1. R \in [ReadId -> ReadRound \cup {Nil}] /\ C \in [ReadId -> ReadRound \cup {Nil}]
  BY SoundFields DEF ReadRound
<1>2. CancelReadIndex(r, q) = [r EXCEPT !.reads = C]
  BY DEF CancelReadIndex, Sound, Peer
<1>3. ReadIndex(r, q) = startReadRounds(s, {q})
  BY DEF ReadIndex, Sound, Peer
<1>4. Sound(CancelReadIndex(r, q), K) /\ Keeps(r, CancelReadIndex(r, q))
  <2> HIDE DEF C
  <2> QED BY <1>1, <1>2, SetReads
<1>5. Sound(s, K) /\ Keeps(r, s)
  <2> HIDE DEF R
  <2> QED BY <1>1, SetReads
<1>6. Sound(startReadRounds(s, {q}), K) /\ Keeps(s, startReadRounds(s, {q}))
  <2> HIDE DEF s
  <2> QED BY <1>5, StartReadRoundsSound
<1> HIDE DEF s
<1> QED BY <1>3, <1>4, <1>5, <1>6, KeepsTrans, Zenon

\* markHardStateChanged schedules the current hard state for storage.
LEMMA MarkHardStateSound ==
  ASSUME NEW K, NEW r, Sound(r, K)
  PROVE  /\ Sound(markHardStateChanged(r), K) /\ Keeps(r, markHardStateChanged(r))
         /\ markHardStateChanged(r).hs # Nil
<1> DEFINE h == [term |-> r.term, vote |-> r.vote, commit |-> r.commit]
<1>1. h \in HardState /\ h.term = r.term /\ h.vote = r.vote
  BY SoundFields DEF HardState
<1>2. h # Nil
  BY <1>1, NilAssumption
<1>3. markHardStateChanged(r) = [r EXCEPT !.hs = h]
  BY DEF markHardStateChanged
<1> HIDE DEF h
<1> QED BY <1>1, <1>2, <1>3, Zenon DEF Sound, Keeps, Peer

\* emitCommittedEntries hands out entries of the log only.
LEMMA EmitCommittedSound ==
  ASSUME NEW K, NEW r, Sound(r, K)
  PROVE  Sound(emitCommittedEntries(r), K) /\ Keeps(r, emitCommittedEntries(r))
<1>1. r.cursor + 1 \in Int /\ r.commit + 1 \in Int /\ r.term \in Nat
  BY SoundFields
<1>2. Slice(r.log, r.cursor + 1, r.commit + 1) \in Seq(Entry)
  BY <1>1, SoundFields, SliceType, LogsTyped
<1>3. r.comm \o Slice(r.log, r.cursor + 1, r.commit + 1) \in Seq(Entry)
  BY <1>2, SoundFields, ConcatProperties
<1>4. Max2(r.cursor, r.commit) \in Nat
  BY SoundFields DEF Max2
<1> QED BY <1>3, <1>4, Zenon DEF Sound, Keeps, Peer, emitCommittedEntries

\* commitTo keeps term, vote and role and schedules the hard state.
LEMMA CommitToSound ==
  ASSUME NEW K, NEW r, Sound(r, K), AppKinds \subseteq K, NEW index \in Int
  PROVE  Sound(commitTo(r, index), K) /\ Keeps(r, commitTo(r, index))
<1>1. CASE index <= r.commit
  BY <1>1 DEF commitTo, Keeps
<1>2. CASE ~(index <= r.commit)
  <2> DEFINE s == [r EXCEPT !.commit = index]
             u == markHardStateChanged(s)
             v == emitCommittedEntries(u)
  <2>1. index \in Nat
    BY <1>2, SoundFields
  <2>2. Sound(s, K) /\ Keeps(r, s)
    BY <2>1, Zenon DEF Sound, Keeps, Peer
  <2> HIDE DEF s
  <2>3. Sound(u, K) /\ Keeps(s, u)
    BY <2>2, MarkHardStateSound
  <2> HIDE DEF u
  <2>4. Sound(v, K) /\ Keeps(u, v)
    BY <2>3, EmitCommittedSound
  <2> HIDE DEF v
  <2>5. Sound(startPendingReadRounds(v), K) /\ Keeps(v, startPendingReadRounds(v))
    BY <2>4, PendingReadRoundsSound
  <2>6. commitTo(r, index) = startPendingReadRounds(v)
    BY <1>2 DEF commitTo, s, u, v
  <2> QED BY <2>2, <2>3, <2>4, <2>5, <2>6, KeepsTrans, Zenon
<1> QED BY <1>1, <1>2

\* maybeCommit keeps term, vote and role.
LEMMA MaybeCommitSound ==
  ASSUME NEW K, NEW r, Sound(r, K), AppKinds \subseteq K
  PROVE  Sound(maybeCommit(r), K) /\ Keeps(r, maybeCommit(r))
<1>1. CASE ~MatchTerm(r.log, MedianMatch(r), r.term)
  BY <1>1 DEF maybeCommit, Keeps
<1>2. CASE MatchTerm(r.log, MedianMatch(r), r.term)
  <2>1. r.log.offset \in Int /\ LastIndex(r.log) \in Int
    BY SoundFields, LogIndexType
  <2>2. MedianMatch(r) \in Int
    BY <1>2, <2>1 DEF MatchTerm
  <2> QED BY <1>2, <2>2, CommitToSound DEF maybeCommit
<1> QED BY <1>1, <1>2

\* Appending entries of bounded term to a log keeps its bound.
LEMMA AppendLogType ==
  ASSUME NEW t \in Nat, NEW l \in LogsUpTo(t), NEW es \in Seq(EntriesUpTo(t))
  PROVE  AppendEntries(l, es) \in LogsUpTo(t)
<1>1. l.entries \o es \in Seq(EntriesUpTo(t))
  BY LogIndexType, ConcatProperties
<1> QED BY <1>1, Zenon DEF AppendEntries, LogsUpTo

\* appendEntry keeps term, vote and role.
LEMMA AppendEntrySound ==
  ASSUME NEW K, NEW r, Sound(r, K), AppKinds \subseteq K, NEW data \in Value \cup {NoOp}
  PROVE  Sound(appendEntry(r, data), K) /\ Keeps(r, appendEntry(r, data))
<1> DEFINE index == LastIndex(r.log) + 1
           entry == [index |-> index, term |-> r.term, data |-> data]
           s == [r EXCEPT !.log = AppendEntries(@, <<entry>>), !.ents = Append(@, entry),
                          !.match[r.id] = index, !.next[r.id] = index + 1]
           u == bcastAppend(s, <<Nil>>)
<1>1. index \in Int /\ index + 1 \in Int /\ r.term \in Nat /\ r.id \in Server
  <2>1. r.term \in Nat /\ r.log \in LogsUpTo(r.term) /\ r.id \in Server
    BY SoundFields
  <2>2. LastIndex(r.log) \in Int
    BY <2>1, LogIndexType
  <2> QED BY <2>1, <2>2
<1>2. entry \in EntriesUpTo(r.term)
  BY <1>1 DEF EntriesUpTo, Entry
<1> HIDE DEF index, entry
<1>3. <<entry>> \in Seq(EntriesUpTo(r.term))
  BY <1>2
<1>4. AppendEntries(r.log, <<entry>>) \in LogsUpTo(r.term)
  BY <1>1, <1>3, SoundFields, AppendLogType, Zenon
<1>5. Append(r.ents, entry) \in Seq(EntriesUpTo(r.term))
  BY <1>2, SoundFields, AppendProperties
<1>6. /\ AppendEntries(r.log, <<entry>>) \in RaftLogs
      /\ Append(r.ents, entry) \in Seq(Entry)
  BY <1>1, <1>4, <1>5, LogsTyped, Zenon
<1>7. Sound(s, K) /\ Keeps(r, s)
  BY <1>1, <1>4, <1>5, <1>6, Zenon DEF Sound, Keeps, Peer
<1> HIDE DEF s
<1>8. Sound(u, K) /\ Keeps(s, u)
  <2>1. <<Nil>> \in Seq(ReadId \cup {Nil})
    OBVIOUS
  <2> QED BY <1>7, <2>1, BcastAppendSound, Zenon
<1> HIDE DEF u
<1>9. Sound(maybeCommit(u), K) /\ Keeps(u, maybeCommit(u))
  BY <1>8, MaybeCommitSound
<1>10. appendEntry(r, data) = maybeCommit(u)
  BY DEF appendEntry, u, s, entry, index
<1> QED BY <1>7, <1>8, <1>9, <1>10, KeepsTrans

----------------------------------------------------------------------------
(* Role changes and elections.                                             *)

\* A peer without pending messages, as the worker leaves it between events.
Idle(r, K) == Sound(r, K) /\ r.msgs = NoMsgs

\* A step of a peer: terms only grow, a vote is final within its term, and a
\* changed term or vote is pending for storage.
Evolves(r, s) ==
  /\ s.id = r.id /\ s.term >= r.term
  /\ s.term = r.term => r.vote \in {Nil, s.vote}
  /\ s.term # r.term \/ s.vote # r.vote \/ r.hs # Nil => s.hs # Nil

\* The empty queues have every type of queue.
LEMMA NoMsgsType ==
  ASSUME NEW S
  PROVE  NoMsgs \in [Server -> Seq(S)] /\ \A j \in Server : NoMsgs[j] = <<>>
<1>1. <<>> \in Seq(S)
  BY EmptySeq
<1> QED BY <1>1 DEF NoMsgs

\* A step that keeps term and vote is an evolution of the peer.
LEMMA KeepsEvolves ==
  ASSUME NEW K, NEW r, NEW s, Sound(r, K), Keeps(r, s)
  PROVE  Evolves(r, s)
BY SoundFields DEF Keeps, Evolves

\* Evolutions compose.
LEMMA EvolvesTrans ==
  ASSUME NEW r, NEW s, NEW t, Evolves(r, s), Evolves(s, t),
         r.term \in Nat, s.term \in Nat, t.term \in Nat
  PROVE  Evolves(r, t)
BY DEF Evolves

\* Raising the term of an idle peer leaves everything it stores below its term.
Raised(r, st, vs, t, v, h) ==
  [r EXCEPT !.state = st, !.votes = vs, !.reads = NoReads,
            !.term = t, !.vote = v, !.hs = h]

\* Moving to a later term without a vote is an evolution of the peer.
LEMMA RaiseTerm ==
  ASSUME NEW K, NEW r, Idle(r, K), NEW t \in Nat, r.term <= t,
         NEW v \in Server \cup {Nil}, NEW s,
         NEW st \in {"Follower", "Candidate"},
         NEW vs \in [Server -> {"none", "granted", "rejected"}],
         NEW h \in HardState, h.term = t, h.vote = v,
         s = Raised(r, st, vs, t, v, h)
  PROVE  /\ Idle(s, K) /\ s.id = r.id /\ s.state = st /\ s.term = t /\ s.vote = v
         /\ s.votes = vs /\ s.hs # Nil /\ s.log = r.log
<1>1. Sound(r, K) /\ r.msgs = NoMsgs /\ r \in Peer
  BY DEF Idle, Sound
<1>2. r.term \in Nat /\ r.snap.term \in Nat /\ r.psnap.term \in Nat
  BY <1>1, SoundFields, Zenon DEF SnapType
<1>3. r.log \in LogsUpTo(t) /\ r.ents \in Seq(EntriesUpTo(t))
  BY <1>1, <1>2, SoundFields, EntriesGrow, Zenon
<1>4. r.snap.term <= t /\ r.psnap.term <= t
  BY <1>1, <1>2, SoundFields
<1>5. NoReads \in [ReadId -> ReadRound \cup {Nil}]
  BY DEF NoReads
<1>6. \A j \in Server : NoMsgs[j] \in Seq(OutMsg(r.id, j, t, v, K))
  BY NoMsgsType
<1>7. s \in Peer
  BY <1>1, <1>5, Zenon DEF Peer, Raised
<1>8. /\ s.id = r.id /\ s.state = st /\ s.term = t /\ s.vote = v /\ s.votes = vs
      /\ s.hs = h /\ s.log = r.log /\ s.ents = r.ents /\ s.snap = r.snap
      /\ s.psnap = r.psnap /\ s.msgs = r.msgs
  BY <1>1 DEF Peer, Raised
<1>9. h # Nil
  BY NilAssumption
<1> QED BY <1>1, <1>3, <1>4, <1>6, <1>7, <1>8, <1>9, Zenon DEF Sound, Idle

\* becomeFollower never lowers the term and clears the vote only with a new one.
LEMMA BecomeFollowerSound ==
  ASSUME NEW K, NEW r, Idle(r, K), NEW t \in Nat, NEW s, s = becomeFollower(r, t)
  PROVE  /\ Idle(s, K) /\ Evolves(r, s) /\ s.state = "Follower"
         /\ s.term = IF t > r.term THEN t ELSE r.term
         /\ t <= r.term => s.vote = r.vote
         /\ s.log = r.log
<1>1. Sound(r, K) /\ r \in Peer /\ r.msgs = NoMsgs /\ r.term \in Nat /\ r.commit \in Nat
  BY SoundFields, Zenon DEF Idle, Sound
<1>2. NoVotes \in [Server -> {"none", "granted", "rejected"}]
  BY DEF NoVotes
<1>3. NoReads \in [ReadId -> ReadRound \cup {Nil}]
  BY DEF NoReads
<1>4. CASE t > r.term
  <2> DEFINE h == [term |-> t, vote |-> Nil, commit |-> r.commit]
  <2>1. s = Raised(r, "Follower", NoVotes, t, Nil, h)
    BY <1>1, <1>4 DEF becomeFollower, markHardStateChanged, Peer, Raised
  <2>2. r.term <= t
    BY <1>1, <1>4
  <2>3. h \in HardState /\ h.term = t /\ h.vote = Nil
    BY <1>1, Zenon DEF HardState
  <2>4. /\ Idle(s, K) /\ s.id = r.id /\ s.state = "Follower" /\ s.term = t
        /\ s.hs # Nil /\ s.log = r.log
    <3> HIDE DEF h
    <3> QED BY <1>2, <2>1, <2>2, <2>3, RaiseTerm
  <2> QED BY <1>1, <1>4, <2>4 DEF Evolves
<1>5. CASE ~(t > r.term)
  <2>1. s = [r EXCEPT !.state = "Follower", !.votes = NoVotes, !.reads = NoReads]
    BY <1>5 DEF becomeFollower
  <2>2. Sound(s, K)
    BY <1>1, <1>2, <1>3, <2>1, ZenonT(40) DEF Sound, Peer
  <2>3. /\ s.msgs = r.msgs /\ s.id = r.id /\ s.term = r.term /\ s.vote = r.vote
        /\ s.hs = r.hs /\ s.log = r.log /\ s.state = "Follower"
    BY <1>1, <2>1 DEF Peer
  <2> QED BY <1>1, <1>5, <2>2, <2>3 DEF Idle, Evolves
<1> QED BY <1>4, <1>5

\* becomeCandidate raises the term and votes for itself.
LEMMA BecomeCandidateSound ==
  ASSUME NEW K, NEW r, Idle(r, K), NEW s, s = becomeCandidate(r)
  PROVE  /\ Idle(s, K) /\ s.id = r.id /\ s.state = "Candidate" /\ s.term = r.term + 1
         /\ s.vote = r.id /\ s.hs # Nil /\ s.votes = [NoVotes EXCEPT ![r.id] = "granted"]
<1> DEFINE h == [term |-> r.term + 1, vote |-> r.id, commit |-> r.commit]
           vs == [NoVotes EXCEPT ![r.id] = "granted"]
<1>1. Sound(r, K) /\ r \in Peer /\ r.id \in Server /\ r.term \in Nat /\ r.commit \in Nat
  BY SoundFields, Zenon DEF Idle, Sound
<1>2. vs \in [Server -> {"none", "granted", "rejected"}]
  BY Zenon DEF NoVotes
<1>3. s = Raised(r, "Candidate", vs, r.term + 1, r.id, h)
  BY <1>1, Zenon DEF becomeCandidate, markHardStateChanged, Peer, Raised
<1>4. r.term <= r.term + 1 /\ r.term + 1 \in Nat
  BY <1>1
<1>5. h \in HardState /\ h.term = r.term + 1 /\ h.vote = r.id
  BY <1>1 DEF HardState
<1> HIDE DEF h, vs
<1>6. /\ Idle(s, K) /\ s.id = r.id /\ s.state = "Candidate" /\ s.term = r.term + 1
      /\ s.vote = r.id /\ s.hs # Nil /\ s.votes = vs
  BY <1>1, <1>2, <1>3, <1>4, <1>5, RaiseTerm
<1> QED BY <1>6 DEF vs

\* Becoming leader keeps everything but the role.
LEMMA BecomeLeaderSound ==
  ASSUME NEW K, NEW r, Sound(r, K), AppKinds \subseteq K, NEW s, s = becomeLeader(r)
  PROVE  /\ Sound(s, K) /\ s.id = r.id /\ s.state = "Leader" /\ s.term = r.term
         /\ s.vote = r.vote /\ s.votes = r.votes /\ (r.hs # Nil => s.hs # Nil)
<1> DEFINE zero == [j \in Server |-> 0]
           after == [j \in Server |-> LastIndex(r.log) + 1]
           u == [r EXCEPT !.state = "Leader", !.match = zero, !.next = after]
<1>1. LastIndex(r.log) + 1 \in Int
  <2>1. LastIndex(r.log) \in Int
    BY SoundFields, LogIndexType
  <2> QED BY <2>1
<1>2. Sound(u, K)
  <2>1. zero \in [Server -> Int] /\ after \in [Server -> Int]
    BY <1>1
  <2> HIDE DEF zero, after
  <2> QED BY <2>1, Zenon DEF Sound, Peer
<1>3. /\ u.id = r.id /\ u.state = "Leader" /\ u.term = r.term /\ u.vote = r.vote
      /\ u.votes = r.votes /\ u.hs = r.hs
  BY DEF Sound, Peer
<1>4. s = appendEntry(u, NoOp)
  BY DEF becomeLeader
<1> HIDE DEF u
<1>5. Sound(s, K) /\ Keeps(u, s)
  BY <1>2, <1>4, AppendEntrySound
<1> QED BY <1>3, <1>5 DEF Keeps

CampaignKinds == AppKinds \cup {"MsgVote"}

\* A candidate starts with its own vote only; alone in its region it leads.
LEMMA CampaignSound ==
  ASSUME NEW r, Idle(r, CampaignKinds), NEW s, s = campaign(r)
  PROVE  /\ Sound(s, CampaignKinds) /\ s.id = r.id /\ s.term = r.term + 1
         /\ s.vote = r.id /\ s.hs # Nil
         /\ \/ s.state = "Leader" /\ Cardinality(Server) = 1
            \/ s.state = "Candidate" /\ \A v \in Server : s.votes[v] = "granted" => v = r.id
<1> DEFINE c == becomeCandidate(r)
           M == [j \in Server |-> IF j = c.id THEN c.msgs[j]
                                   ELSE Append(c.msgs[j], VoteRequest(c, j))]
<1>1. /\ Idle(c, CampaignKinds) /\ c.id = r.id /\ c.state = "Candidate"
      /\ c.term = r.term + 1 /\ c.vote = r.id /\ c.hs # Nil
      /\ c.votes = [NoVotes EXCEPT ![r.id] = "granted"]
  BY BecomeCandidateSound
<1>2. r.id \in Server
  BY SoundFields DEF Idle
<1> HIDE DEF c
<1>3. Sound(c, CampaignKinds)
  BY <1>1 DEF Idle
<1>4. CASE Cardinality(Server) = 1
  <2>1. s = becomeLeader(c)
    BY <1>4 DEF campaign, c
  <2>2. AppKinds \subseteq CampaignKinds
    BY DEF CampaignKinds
  <2> QED BY <1>1, <1>3, <1>4, <2>1, <2>2, BecomeLeaderSound
<1>5. CASE Cardinality(Server) # 1
  <2>1. s = [c EXCEPT !.msgs = M]
    BY <1>5 DEF campaign, c
  <2>2. ASSUME NEW j \in Server
        PROVE  M[j] \in Seq(OutMsg(c.id, j, c.term, c.vote, CampaignKinds))
    <3>1. LastIndex(c.log) \in Int /\ LastTerm(c.log) \in Nat
      BY <1>3, SoundFields, LogIndexType, LastTermType
    <3>2. VoteRequest(c, j) \in OutMsg(c.id, j, c.term, c.vote, CampaignKinds)
      BY <1>3, <3>1, SoundFields DEF VoteRequest, OutMsg, Message, CampaignKinds
    <3>3. c.msgs[j] \in Seq(OutMsg(c.id, j, c.term, c.vote, CampaignKinds))
      BY <1>3, SoundFields
    <3> QED BY <3>2, <3>3, AppendProperties, Zenon
  <2>3. \A j \in Server : OutMsg(c.id, j, c.term, c.vote, CampaignKinds) \subseteq Message
    BY DEF OutMsg
  <2>4. M \in [Server -> Seq(Message)]
    BY <2>2, <2>3, SeqMonotonic, Zenon
  <2>5. Sound(s, CampaignKinds) /\ Keeps(c, s)
    <3> HIDE DEF M
    <3> QED BY <1>3, <2>1, <2>2, <2>4, SetMsgs
  <2>6. \A v \in Server : c.votes[v] = "granted" => v = r.id
    BY <1>1, <1>2 DEF NoVotes
  <2> QED BY <1>1, <2>5, <2>6 DEF Keeps
<1> QED BY <1>4, <1>5

\* Sending one message keeps the peer sound.
LEMMA SendSound ==
  ASSUME NEW K, NEW r, Sound(r, K), NEW to \in Server,
         NEW m \in OutMsg(r.id, to, r.term, r.vote, K), NEW s, s = send(r, m)
  PROVE  Sound(s, K) /\ Keeps(r, s) /\ s.msgs = [r.msgs EXCEPT ![to] = Append(@, m)]
<1> DEFINE M == [r.msgs EXCEPT ![to] = Append(@, m)]
<1>1. m \in Message /\ m.to = to
  BY DEF OutMsg
<1>2. r.msgs \in [Server -> Seq(Message)] /\ r \in Peer
  BY SoundFields, Zenon DEF Sound
<1>3. Append(r.msgs[to], m) \in Seq(Message)
  BY <1>1, <1>2, AppendProperties
<1>4. Append(r.msgs[to], m) \in Seq(OutMsg(r.id, to, r.term, r.vote, K))
  BY SoundFields, AppendProperties
<1>5. M \in [Server -> Seq(Message)]
  BY <1>2, <1>3, Zenon
<1>6. \A j \in Server : M[j] \in Seq(OutMsg(r.id, j, r.term, r.vote, K))
  BY <1>2, <1>4, SoundFields, Zenon
<1>7. s = [r EXCEPT !.msgs = M]
  BY <1>1, <1>2 DEF send, Peer
<1>8. s.msgs = M
  BY <1>2, <1>7 DEF Peer
<1> HIDE DEF M
<1>9. Sound(s, K) /\ Keeps(r, s)
  BY <1>5, <1>6, <1>7, SetMsgs
<1> QED BY <1>8, <1>9 DEF M

\* A vote is cast for one candidate of the peer's own term, is pending for
\* storage when its answer is queued, and only the candidate is answered.
LEMMA HandleVoteSound ==
  ASSUME NEW K, NEW r, Idle(r, K), "MsgVoteResp" \in K,
         NEW m \in Message, m.type = "MsgVote", m.to = r.id, m.term <= r.term,
         NEW s, s = handleVote(r, m)
  PROVE  /\ Sound(s, K) /\ Evolves(r, s)
         /\ s.state = r.state /\ s.term = r.term /\ s.votes = r.votes
         /\ \A j \in Server : j # m.from => s.msgs[j] = <<>>
<1> DEFINE v == [r EXCEPT !.vote = m.from]
           u == IF canVote(r, m) THEN markHardStateChanged(v) ELSE r
           a == [type |-> "MsgVoteResp", from |-> r.id, to |-> m.from,
                 term |-> u.term, reject |-> ~canVote(r, m)]
<1>1. /\ Sound(r, K) /\ r \in Peer /\ r.msgs = NoMsgs /\ r.id \in Server /\ r.term \in Nat
      /\ r.commit \in Nat
  BY SoundFields, Zenon DEF Idle, Sound
<1>2. m.from \in Server
  BY DEF Message
<1>3. s = send(u, a)
  BY DEF handleVote
<1>4. /\ Sound(u, K) /\ Evolves(r, u) /\ u.state = r.state /\ u.term = r.term
      /\ u.votes = r.votes /\ u.msgs = NoMsgs /\ u.id = r.id
      /\ canVote(r, m) => u.vote = m.from
  <2>1. CASE ~canVote(r, m)
    BY <1>1, <2>1 DEF Evolves
  <2>2. CASE canVote(r, m)
    <3> DEFINE h == [term |-> r.term, vote |-> m.from, commit |-> r.commit]
    <3>1. r.vote \in {Nil, m.from}
      BY <2>2 DEF canVote
    <3>2. h \in HardState /\ h.term = r.term /\ h.vote = m.from
      BY <1>1, <1>2 DEF HardState
    <3>3. h # Nil
      BY <3>2, NilAssumption
    <3>4. u = [r EXCEPT !.vote = m.from, !.hs = h]
      BY <1>1, <2>2 DEF markHardStateChanged, Peer
    <3> HIDE DEF u, h
    <3>5. \A j \in Server : NoMsgs[j] \in Seq(OutMsg(r.id, j, r.term, m.from, K))
      BY NoMsgsType
    <3>6. u \in Peer
      BY <1>1, <1>2, <3>2, <3>4, Zenon DEF Peer
    <3>7. /\ u.state = r.state /\ u.term = r.term /\ u.votes = r.votes /\ u.msgs = NoMsgs
          /\ u.id = r.id /\ u.vote = m.from /\ u.hs = h /\ u.log = r.log
          /\ u.ents = r.ents /\ u.snap = r.snap /\ u.psnap = r.psnap
      BY <1>1, <3>4 DEF Peer
    <3>8. Sound(u, K)
      BY <1>1, <3>2, <3>5, <3>6, <3>7 DEF Sound
    <3>9. Evolves(r, u)
      BY <1>1, <3>1, <3>3, <3>7 DEF Evolves
    <3> QED BY <3>7, <3>8, <3>9
  <2> QED BY <2>1, <2>2
<1> HIDE DEF u
<1>5. a \in OutMsg(u.id, m.from, u.term, u.vote, K)
  BY <1>1, <1>2, <1>4, Zenon DEF OutMsg, Message
<1> HIDE DEF a
<1>6. Sound(s, K) /\ Keeps(u, s) /\ s.msgs = [u.msgs EXCEPT ![m.from] = Append(@, a)]
  BY <1>2, <1>3, <1>4, <1>5, SendSound
<1>7. Evolves(r, s)
  <2>1. Evolves(u, s)
    BY <1>4, <1>6, KeepsEvolves, Zenon
  <2>2. u.term \in Nat /\ s.term \in Nat
    BY <1>4, <1>6, SoundFields, Zenon
  <2> QED BY <1>1, <1>4, <2>1, <2>2, EvolvesTrans, Zenon
<1>8. \A j \in Server : j # m.from => s.msgs[j] = <<>>
  BY <1>4, <1>6, NoMsgsType DEF NoMsgs
<1> QED BY <1>4, <1>6, <1>7, <1>8 DEF Keeps

\* The vote of v that the message m adds to candidate r's count.
Counts(r, m, v) ==
  m.type = "MsgVoteResp" /\ ~m.reject /\ m.from = v /\ m.term <= r.term

\* A step keeps a candidate or leader in its term, makes nobody a candidate,
\* and makes a candidate leader only with a quorum of votes it has counted.
Roles(r, m, s) ==
  /\ s.state \in {"Candidate", "Leader"} =>
       r.state \in {"Candidate", "Leader"} /\ s.term = r.term
  /\ s.state = "Candidate" => r.state = "Candidate"
  /\ s.state \in {"Candidate", "Leader"} /\ r.state = "Candidate" =>
       \A v \in Server : s.votes[v] = "granted" => r.votes[v] = "granted" \/ Counts(r, m, v)
  /\ s.state = "Leader" /\ r.state = "Candidate" =>
       Cardinality({v \in Server : s.votes[v] = "granted"}) >= quorum

\* A step that keeps the role elects nobody.
LEMMA KeepsRoles ==
  ASSUME NEW r, NEW m, NEW s, Keeps(r, s)
  PROVE  Roles(r, m, s)
BY Zenon DEF Keeps, Roles

\* handleVoteResp elects a candidate only with a quorum of granted answers.
LEMMA HandleVoteRespSound ==
  ASSUME NEW K, NEW r, Idle(r, K), AppKinds \subseteq K, r.state = "Candidate",
         NEW m \in Message, m.type = "MsgVoteResp", m.term <= r.term,
         NEW s, s = handleVoteResp(r, m)
  PROVE  Sound(s, K) /\ Evolves(r, s) /\ Roles(r, m, s) /\ s.state # "Panic"
<1> DEFINE vs == [r.votes EXCEPT ![m.from] = IF m.reject THEN "rejected" ELSE "granted"]
           u == [r EXCEPT !.votes[m.from] = IF m.reject THEN "rejected" ELSE "granted"]
           Count(v) == Cardinality({j \in Server : u.votes[j] = v})
<1>1. Sound(r, K) /\ r \in Peer /\ r.msgs = NoMsgs /\ r.term \in Nat
  BY SoundFields, Zenon DEF Idle, Sound
<1>2. m.from \in Server /\ m.reject \in BOOLEAN
  BY DEF Message
<1>3. vs \in [Server -> {"none", "granted", "rejected"}]
  BY <1>1, <1>2, SoundFields
<1>4. u = [r EXCEPT !.votes = vs]
  BY <1>1 DEF Peer
<1>5. \A v \in Server : vs[v] = "granted" => r.votes[v] = "granted" \/ Counts(r, m, v)
  BY <1>1, <1>2, SoundFields DEF Counts
<1> HIDE DEF u, vs
<1>6. Sound(u, K)
  BY <1>1, <1>3, <1>4, Zenon DEF Sound, Peer
<1>7. /\ u.id = r.id /\ u.state = "Candidate" /\ u.term = r.term /\ u.vote = r.vote
      /\ u.hs = r.hs /\ u.msgs = NoMsgs /\ u.votes = vs
  BY <1>1, <1>4 DEF Peer
<1>8. Idle(u, K) /\ Evolves(r, u)
  BY <1>1, <1>6, <1>7 DEF Idle, Evolves
<1>9. CASE Count("granted") >= quorum
  <2>1. s = becomeLeader(u)
    BY <1>9 DEF handleVoteResp, u
  <2>2. /\ Sound(s, K) /\ s.id = u.id /\ s.state = "Leader" /\ s.term = u.term
        /\ s.vote = u.vote /\ s.votes = u.votes /\ (u.hs # Nil => s.hs # Nil)
    BY <1>6, <2>1, BecomeLeaderSound
  <2>3. Evolves(r, s)
    BY <1>1, <1>7, <2>2 DEF Evolves
  <2>4. Roles(r, m, s)
    BY <1>5, <1>7, <1>9, <2>2, Zenon DEF Roles
  <2> QED BY <2>2, <2>3, <2>4
<1>10. CASE ~(Count("granted") >= quorum) /\ Count("rejected") >= quorum
  <2>1. s = becomeFollower(u, u.term)
    BY <1>10 DEF handleVoteResp, u
  <2>2. Idle(s, K) /\ Evolves(u, s) /\ s.state = "Follower"
    BY <1>1, <1>7, <1>8, <2>1, BecomeFollowerSound
  <2>3. s.term \in Nat
    BY <2>2, SoundFields DEF Idle
  <2>4. Evolves(r, s)
    BY <1>1, <1>7, <1>8, <2>2, <2>3, EvolvesTrans, Zenon
  <2> QED BY <2>2, <2>4 DEF Idle, Roles
<1>11. CASE ~(Count("granted") >= quorum) /\ ~(Count("rejected") >= quorum)
  <2>1. s = u
    BY <1>11 DEF handleVoteResp, u
  <2> QED BY <1>5, <1>6, <1>7, <1>8, <2>1 DEF Roles
<1> QED BY <1>9, <1>10, <1>11, Zenon

----------------------------------------------------------------------------
(* Replication.                                                            *)

\* A prefix of a log with new entries behind it keeps the bound.
LEMMA CutLogType ==
  ASSUME NEW t \in Nat, NEW l \in LogsUpTo(t), NEW n \in Int, n <= LastIndex(l),
         NEW es \in Seq(EntriesUpTo(t))
  PROVE  /\ TruncateAndAppend(l, n, es) \in LogsUpTo(t)
         /\ Truncate(l, n) \in LogsUpTo(t)
<1>1. /\ l.offset \in Int /\ LastIndex(l) \in Int /\ Len(l.entries) \in Nat
      /\ LastIndex(l) = l.offset + Len(l.entries) - 1
      /\ l.entries \in Seq(EntriesUpTo(t))
  BY LogIndexType
<1>2. /\ n - l.offset + 1 \in Int /\ n - l.offset + 1 <= Len(l.entries)
      /\ n - l.offset \in Int /\ n - l.offset <= Len(l.entries)
  <2>1. PICK o, k : o = l.offset /\ k = Len(l.entries)
    BY Zenon
  <2>2. o \in Int /\ k \in Nat /\ n <= o + k - 1
    BY <1>1, <2>1, Zenon
  <2>3. n - o + 1 \in Int /\ n - o + 1 <= k /\ n - o \in Int /\ n - o <= k
    BY ONLY <2>2, n \in Int
  <2> QED BY <2>1, <2>3, Zenon
<1>3. /\ SubSeq(l.entries, 1, n - l.offset + 1) \in Seq(EntriesUpTo(t))
      /\ SubSeq(l.entries, 1, n - l.offset) \in Seq(EntriesUpTo(t))
  <2>1. 1 \in Int /\ 1 >= 1
    BY ONLY TRUE
  <2> QED BY <1>1, <1>2, <2>1, CutType, Zenon
<1>4. SubSeq(l.entries, 1, n - l.offset + 1) \o es \in Seq(EntriesUpTo(t))
  BY <1>3, ConcatProperties
<1>5. TruncateAndAppend(l, n, es) \in LogsUpTo(t)
  BY <1>4, Zenon DEF TruncateAndAppend, LogsUpTo
<1>6. Truncate(l, n) \in LogsUpTo(t)
  BY <1>3, Zenon DEF Truncate, LogsUpTo
<1> QED BY <1>5, <1>6

\* The conflict run that handleAppend cuts starts at an integer index.
LEMMA RunStart ==
  ASSUME NEW t \in Nat, NEW l \in LogsUpTo(t), NEW n \in Int
  PROVE  FirstIndexOfRun(l, n) \in Int /\ FirstIndexOfRun(l, n) <= n
<1> DEFINE S == {i \in l.offset + 1 .. n :
                   \A k \in i - 1 .. n : Term(l, k) = Term(l, n)}
<1>1. l.offset + 1 \in Int
  <2>1. l.offset \in Int
    BY LogIndexType
  <2> QED BY <2>1
<1>2. IsFiniteSet(l.offset + 1 .. n)
  BY <1>1, FS_Interval
<1>3. IsFiniteSet(S)
  BY <1>2, FS_Subset, Zenon
<1>4. Cardinality(S) \in Nat
  BY <1>3, FS_CardinalityType
<1>5. FirstIndexOfRun(l, n) = n - Cardinality(S)
  BY DEF FirstIndexOfRun
<1> HIDE DEF S
<1> QED BY <1>4, <1>5

\* What a message from another peer is known to satisfy when it arrives.
Bounded(m) ==
  /\ m \in Message
  /\ m.type = "MsgApp" => m.entries \in Seq(EntriesUpTo(m.term))
  /\ m.type = "MsgSnap" => m.snapshot.term <= m.term

\* The sender, receiver and term of a message.
LEMMA MsgFields ==
  ASSUME NEW m \in Message
  PROVE  /\ m.from \in Server /\ m.to \in Server /\ m.term \in Nat
         /\ m.type \in {"MsgVote", "MsgVoteResp", "MsgApp", "MsgAppResp", "MsgSnap",
                        "MsgSnapResp"}
         /\ m.type = "MsgApp" =>
              /\ m.logIndex \in Int /\ m.logTerm \in Nat /\ m.entries \in Seq(Entry)
              /\ m.commit \in Nat /\ m.readId \in ReadId \cup {Nil}
         /\ m.type = "MsgAppResp" =>
              /\ m.logIndex \in Int /\ m.logTerm \in Nat /\ m.reject \in BOOLEAN
         /\ m.type = "MsgSnap" => m.snapshot \in SnapType /\ m.readId \in ReadId \cup {Nil}
BY DEF Message

\* An AppResp answers in the peer's own term.
LEMMA ReplySound ==
  ASSUME NEW K, NEW r, Sound(r, K), "MsgAppResp" \in K,
         NEW m \in Message, m.type = "MsgApp",
         NEW reject \in BOOLEAN, NEW i \in Int, NEW t \in Nat,
         NEW s, s = send(r, AppResp(r, m, reject, i, t))
  PROVE  Sound(s, K) /\ Keeps(r, s)
<1>1. m.from \in Server /\ m.readId \in ReadId \cup {Nil}
  BY MsgFields
<1>2. AppResp(r, m, reject, i, t) \in OutMsg(r.id, m.from, r.term, r.vote, K)
  BY <1>1, SoundFields DEF AppResp, OutMsg, Message
<1> QED BY <1>1, <1>2, SendSound, Zenon

\* The conflict branch of handleAppend keeps term and vote.
LEMMA RejectConflictSound ==
  ASSUME NEW K, NEW r, Sound(r, K), "MsgAppResp" \in K,
         NEW m \in Message, m.type = "MsgApp", m.logIndex <= LastIndex(r.log),
         NEW s, s = rejectConflict(r, m)
  PROVE  Sound(s, K) /\ Keeps(r, s)
<1> DEFINE first == FirstIndexOfRun(r.log, m.logIndex)
           u == [r EXCEPT !.log = Truncate(@, first)]
           a == AppResp(r, m, TRUE, first, Term(r.log, m.logIndex))
<1>1. m.logIndex \in Int /\ m.from \in Server /\ m.readId \in ReadId \cup {Nil}
  BY MsgFields, Zenon
<1>2. r.term \in Nat /\ r.log \in LogsUpTo(r.term) /\ LastIndex(r.log) \in Int
  BY SoundFields, LogIndexType
<1>3. first \in Int /\ first <= m.logIndex
  BY <1>1, <1>2, RunStart, Zenon
<1>4. Term(r.log, m.logIndex) \in Nat
  BY <1>1, <1>2, TermType
<1>5. first <= LastIndex(r.log)
  BY <1>1, <1>2, <1>3
<1> HIDE DEF first
<1>6. Truncate(r.log, first) \in LogsUpTo(r.term)
  <2>1. <<>> \in Seq(EntriesUpTo(r.term))
    BY EmptySeq
  <2> QED BY <1>2, <1>3, <1>5, <2>1, CutLogType, Zenon
<1>7. Truncate(r.log, first) \in RaftLogs
  BY <1>2, <1>6, LogsTyped
<1>8. Sound(u, K) /\ Keeps(r, u)
  BY <1>6, <1>7, Zenon DEF Sound, Keeps, Peer
<1>9. a \in OutMsg(u.id, m.from, u.term, u.vote, K)
  BY <1>1, <1>3, <1>4, <1>8, SoundFields, Zenon DEF AppResp, OutMsg, Message, Keeps
<1>10. s = send(u, a)
  BY DEF rejectConflict, first
<1> HIDE DEF u, a
<1>11. Sound(s, K) /\ Keeps(u, s)
  BY <1>1, <1>8, <1>9, <1>10, SendSound, Zenon
<1> QED BY <1>8, <1>11, KeepsTrans, Zenon

\* The accepting branch of handleAppend keeps term and vote unless it panics.
LEMMA AcceptEntriesSound ==
  ASSUME NEW K, NEW r, Sound(r, K), AppKinds \subseteq K, "MsgAppResp" \in K,
         NEW m, Bounded(m), m.type = "MsgApp", m.term <= r.term,
         m.logIndex <= LastIndex(r.log),
         NEW s, s = acceptEntries(r, m), s.state # "Panic"
  PROVE  Sound(s, K) /\ Keeps(r, s)
<1> DEFINE L == TruncateAndAppend(r.log, m.logIndex, m.entries)
           E == r.ents \o m.entries
           u == IF m.entries = <<>> THEN r ELSE [r EXCEPT !.log = L, !.ents = E]
           c == Min2(m.commit, LastIndex(u.log))
           t == commitTo(u, c)
<1>1. /\ m \in Message /\ m.logIndex \in Int /\ m.commit \in Nat /\ m.term \in Nat
      /\ m.entries \in Seq(EntriesUpTo(m.term))
  BY MsgFields DEF Bounded
<1>2. r.term \in Nat /\ r.log \in LogsUpTo(r.term) /\ r \in Peer
  BY SoundFields, Zenon DEF Sound
<1>3. m.entries \in Seq(EntriesUpTo(r.term))
  BY <1>1, <1>2, EntriesGrow
<1>4. L \in LogsUpTo(r.term)
  BY <1>1, <1>2, <1>3, CutLogType
<1>5. E \in Seq(EntriesUpTo(r.term))
  BY <1>3, SoundFields, ConcatProperties, Zenon
<1>6. L \in RaftLogs /\ E \in Seq(Entry)
  BY <1>2, <1>4, <1>5, LogsTyped, Zenon
<1>7. Sound(u, K) /\ Keeps(r, u)
  <2> HIDE DEF L, E
  <2>1. CASE m.entries = <<>>
    BY <2>1 DEF Keeps
  <2>2. CASE m.entries # <<>>
    BY <1>4, <1>5, <1>6, <2>2, Zenon DEF Sound, Keeps, Peer
  <2> QED BY <2>1, <2>2
<1>8. s = send(t, AppResp(t, m, FALSE, LastIndex(t.log), 0))
  <2>1. ~(m.entries # <<>> /\ ~TruncateInRange(r.log, m.logIndex))
    BY <1>2, Zenon DEF acceptEntries, Peer
  <2> QED BY <2>1, <1>2, Zenon DEF acceptEntries, Peer
<1> HIDE DEF u
<1>9. c \in Int
  <2>1. LastIndex(u.log) \in Int
    BY <1>7, SoundFields, LogIndexType, Zenon
  <2>2. m.commit \in Int
    BY ONLY <1>1
  <2> QED BY <2>1, <2>2, MaxMinType, Zenon
<1> HIDE DEF c
<1>10. Sound(t, K) /\ Keeps(u, t)
  BY <1>7, <1>9, CommitToSound, Zenon
<1> HIDE DEF t
<1>11. LastIndex(t.log) \in Int
  BY <1>10, SoundFields, LogIndexType, Zenon
<1>12. Sound(s, K) /\ Keeps(t, s)
  BY <1>1, <1>8, <1>10, <1>11, ReplySound, Zenon
<1> QED BY <1>7, <1>10, <1>12, KeepsTrans

\* handleAppend follows the sender's term and casts no vote.
LEMMA HandleAppendSound ==
  ASSUME NEW K, NEW r, Idle(r, K), AppKinds \subseteq K, "MsgAppResp" \in K,
         NEW m, Bounded(m), m.type = "MsgApp", m.term <= r.term,
         r.state \in {"Follower", "Candidate"},
         NEW s, s = handleAppend(r, m), s.state # "Panic"
  PROVE  Sound(s, K) /\ Evolves(r, s) /\ Roles(r, m, s)
<1> DEFINE f == becomeFollower(r, m.term)
<1>1. m \in Message /\ m.logIndex \in Int /\ m.term \in Nat
  BY MsgFields, Zenon DEF Bounded
<1>2. Sound(r, K) /\ r.term \in Nat
  BY SoundFields DEF Idle
<1>3. /\ Idle(f, K) /\ Evolves(r, f) /\ f.state = "Follower" /\ f.log = r.log
      /\ f.term = r.term
  BY <1>1, <1>2, BecomeFollowerSound
<1>4. Sound(f, K) /\ LastIndex(f.log) \in Int /\ f.term \in Nat
  <2>1. Sound(f, K)
    BY <1>3, Zenon DEF Idle
  <2> QED BY <2>1, SoundFields, LogIndexType, Zenon
<1> HIDE DEF f
<1>5. ASSUME Sound(s, K), Keeps(f, s)
      PROVE  Sound(s, K) /\ Evolves(r, s) /\ Roles(r, m, s)
  <2>1. Evolves(f, s)
    BY <1>4, <1>5, KeepsEvolves, Zenon
  <2>2. s.term \in Nat
    BY <1>5, SoundFields
  <2>3. Evolves(r, s)
    BY <1>2, <1>3, <1>4, <2>1, <2>2, EvolvesTrans, Zenon
  <2>4. s.state = "Follower"
    BY <1>3, <1>5, Zenon DEF Keeps
  <2> QED BY <1>5, <2>3, <2>4, Zenon DEF Roles
<1>6. CASE r.term > m.term
  <2>1. PICK y \in Int, z \in Nat : y = 0 /\ z = 0
    OBVIOUS
  <2>2. s = send(r, AppResp(r, m, TRUE, y, z))
    BY <1>6, <2>1, Zenon DEF handleAppend
  <2>3. Sound(s, K) /\ Keeps(r, s)
    BY <1>1, <1>2, <2>2, ReplySound, Zenon
  <2> QED BY <1>2, <2>3, KeepsEvolves, KeepsRoles, Zenon
<1>7. CASE ~(r.term > m.term) /\ m.logIndex > LastIndex(f.log)
  <2>1. s = send(f, AppResp(f, m, TRUE, LastIndex(f.log) + 1, 0))
    BY <1>7 DEF handleAppend, f
  <2>2. LastIndex(f.log) + 1 \in Int
    BY <1>4
  <2>3. Sound(s, K) /\ Keeps(f, s)
    BY <1>1, <1>4, <2>1, <2>2, ReplySound, Zenon
  <2> QED BY <1>5, <2>3
<1>8. CASE /\ ~(r.term > m.term) /\ ~(m.logIndex > LastIndex(f.log))
           /\ m.logTerm # Term(f.log, m.logIndex)
  <2>1. s = rejectConflict(f, m)
    BY <1>8 DEF handleAppend, f
  <2>2. m.logIndex <= LastIndex(f.log)
    BY <1>1, <1>4, <1>8
  <2>3. Sound(s, K) /\ Keeps(f, s)
    BY <1>1, <1>4, <2>1, <2>2, RejectConflictSound
  <2> QED BY <1>5, <2>3
<1>9. CASE /\ ~(r.term > m.term) /\ ~(m.logIndex > LastIndex(f.log))
           /\ m.logTerm = Term(f.log, m.logIndex)
  <2>1. s = acceptEntries(f, m)
    BY <1>9 DEF handleAppend, f
  <2>2. m.logIndex <= LastIndex(f.log) /\ m.term <= f.term
    BY <1>1, <1>3, <1>4, <1>9
  <2>3. Sound(s, K) /\ Keeps(f, s)
    BY <1>4, <2>1, <2>2, AcceptEntriesSound, Zenon
  <2> QED BY <1>5, <2>3
<1> QED BY <1>6, <1>7, <1>8, <1>9

\* The next index after a rejection is an integer.
LEMMA NextAfterRejectType ==
  ASSUME NEW K, NEW r, Sound(r, K), NEW m \in Message, m.type = "MsgAppResp"
  PROVE  NextAfterReject(r, m) \in Int
<1> DEFINE S == IndexesOfTerm(r.log, m.logTerm)
<1>1. m.logIndex \in Int /\ m.logTerm \in Nat
  BY MsgFields
<1>2. r.log.offset \in Int /\ LastIndex(r.log) \in Int
  BY SoundFields, LogIndexType
<1>3. CASE m.logTerm # 0 /\ S # {}
  <2>1. S \in SUBSET (r.log.offset .. LastIndex(r.log)) /\ S \in SUBSET Int
    BY <1>2 DEF IndexesOfTerm
  <2>2. IsFiniteSet(S)
    BY <1>2, <2>1, FS_Interval, FS_Subset, Zenon
  <2>3. \E i \in S : \A j \in S : j <= i
    BY <1>3, <2>1, <2>2, LargestExists
  <2>4. \E i \in S : \A j \in S : i >= j
    BY <2>1, <2>3
  <2>5. FindLastIndexOfTerm(r.log, m.logTerm) \in Int
    BY <2>1, <2>4 DEF FindLastIndexOfTerm
  <2> QED BY <1>3, <2>5 DEF NextAfterReject
<1>4. CASE m.logTerm = 0
  BY <1>1, <1>4 DEF NextAfterReject, Max2
<1>5. CASE m.logTerm # 0 /\ S = {}
  BY <1>1, <1>5, Zenon DEF NextAfterReject
<1> QED BY <1>3, <1>4, <1>5

\* handleAppendResp keeps term, vote and role.
LEMMA HandleAppendRespSound ==
  ASSUME NEW K, NEW r, Sound(r, K), AppKinds \subseteq K,
         NEW m \in Message, m.type = "MsgAppResp",
         NEW s, s = handleAppendResp(r, m)
  PROVE  Sound(s, K) /\ Keeps(r, s)
<1> DEFINE a == ackReadRound(r, m.readId, m.from)
           next == IF m.reject THEN NextAfterReject(r, m)
                   ELSE Min2(m.logIndex + 1, LastIndex(r.log) + 1)
           match == IF m.reject THEN r.match[m.from] ELSE m.logIndex
           u == [a EXCEPT !.next[m.from] = next, !.match[m.from] = Min2(match, next - 1)]
<1>1. m.from \in Server /\ m.logIndex \in Int /\ m.reject \in BOOLEAN
  BY MsgFields, Zenon
<1>2. LastIndex(r.log) \in Int /\ r.match \in [Server -> Int]
  BY SoundFields, LogIndexType
<1>3. CASE m.term # r.term
  BY <1>3 DEF handleAppendResp, Keeps
<1>4. CASE m.term = r.term
  <2>1. Sound(a, K) /\ Keeps(r, a)
    BY <1>1, AckReadRoundSound
  <2>2. next \in Int
    <3>1. m.logIndex + 1 \in Int /\ LastIndex(r.log) + 1 \in Int
      BY <1>1, <1>2
    <3> QED BY <3>1, NextAfterRejectType, MaxMinType, Zenon
  <2>3. match \in Int
    BY <1>1, <1>2
  <2> HIDE DEF next, match, a
  <2>4. Min2(match, next - 1) \in Int
    BY <2>2, <2>3 DEF Min2
  <2>5. Sound(u, K) /\ Keeps(a, u)
    BY <1>1, <2>1, <2>2, <2>4, Zenon DEF Sound, Keeps, Peer
  <2>6. s = maybeCommit(u)
    BY <1>4 DEF handleAppendResp, a, next, match
  <2> HIDE DEF u
  <2>7. Sound(s, K) /\ Keeps(u, s)
    BY <2>5, <2>6, MaybeCommitSound
  <2> QED BY <2>1, <2>5, <2>7, KeepsTrans, Zenon
<1> QED BY <1>3, <1>4, Zenon

----------------------------------------------------------------------------
(* Snapshots.                                                              *)

\* A log of a sentinel alone is a log.
LEMMA SentinelLogType ==
  ASSUME NEW t \in Nat, NEW i \in Int, NEW u \in 0 .. t
  PROVE  Restore(i, u) \in LogsUpTo(t) /\ <<Sentinel(i, u)>> \in Seq(EntriesUpTo(t))
<1>1. Sentinel(i, u) \in EntriesUpTo(t)
  BY DEF Sentinel, EntriesUpTo, Entry
<1>2. <<Sentinel(i, u)>> \in Seq(EntriesUpTo(t))
  BY <1>1
<1> QED BY <1>2 DEF Restore, LogsUpTo

\* RaftLog.CompactTo keeps the bound of the log.
LEMMA CompactToType ==
  ASSUME NEW t \in Nat, NEW l \in LogsUpTo(t), NEW i \in Int, NEW u \in 0 .. t
  PROVE  CompactTo(l, i, u) \in LogsUpTo(t)
<1> DEFINE to == Min2(i, LastIndex(l))
           rest == Slice(l, to + 1, LastIndex(l) + 1)
<1>1. LastIndex(l) \in Int
  BY LogIndexType
<1>2. to \in Int
  BY <1>1, MaxMinType
<1> HIDE DEF to
<1>3. to + 1 \in Int /\ LastIndex(l) + 1 \in Int
  BY <1>1, <1>2
<1>4. rest \in Seq(EntriesUpTo(t))
  BY <1>3, SliceType
<1>5. <<Sentinel(to, u)>> \in Seq(EntriesUpTo(t))
  BY <1>2, SentinelLogType
<1> HIDE DEF rest
<1>6. <<Sentinel(to, u)>> \o rest \in Seq(EntriesUpTo(t))
  BY <1>4, <1>5, ConcatProperties, Zenon
<1>7. [offset |-> to, entries |-> <<Sentinel(to, u)>> \o rest] \in LogsUpTo(t)
  BY <1>2, <1>6 DEF LogsUpTo
<1>8. CompactTo(l, i, u) \in {l, [offset |-> to, entries |-> <<Sentinel(to, u)>> \o rest]}
  BY DEF CompactTo, to, rest
<1> QED BY <1>7, <1>8, Zenon

\* Restoring a snapshot raises the term to the snapshot's, if that is newer.
LEMMA RestoreSnapshotSound ==
  ASSUME NEW K, NEW r, Idle(r, K), NEW snap \in SnapType,
         snap.term <= r.term \/ r.hs = Nil,
         NEW s, s = RestoreSnapshot(r, snap)
  PROVE  /\ Idle(s, K) /\ s.id = r.id /\ s.state = r.state /\ s.vote = r.vote
         /\ s.votes = r.votes /\ s.hs = r.hs /\ s.term >= r.term
         /\ snap.term <= r.term => s.term = r.term
         /\ snap.index # 0 => s.term = Max2(snap.term, r.term)
         /\ snap.index = 0 => s = r
<1>1. Sound(r, K) /\ r \in Peer /\ r.msgs = NoMsgs /\ r.term \in Nat /\ r.commit \in Nat
  BY SoundFields, Zenon DEF Idle, Sound
<1>2. snap.index \in Nat /\ snap.term \in Nat
  BY DEF SnapType
<1>3. CASE snap.index = 0
  BY <1>1, <1>3 DEF RestoreSnapshot
<1>4. CASE snap.index # 0
  <2> DEFINE t == Max2(snap.term, r.term)
             c == Max2(snap.index, r.commit)
             L == Restore(snap.index, snap.term)
  <2>1. /\ t \in Nat /\ c \in Nat /\ t >= r.term /\ snap.term <= t
        /\ snap.term <= r.term => t = r.term
    BY <1>1, <1>2 DEF Max2
  <2>2. s = [r EXCEPT !.psnap = snap, !.snap = snap, !.log = L, !.cursor = snap.index,
                      !.commit = c, !.term = t]
    BY <1>1, <1>4 DEF RestoreSnapshot, Peer
  <2>3. L \in LogsUpTo(t)
    <3> HIDE DEF t
    <3> QED BY <1>2, <2>1, SentinelLogType
  <2>4. L \in RaftLogs
    <3> HIDE DEF t, L
    <3> QED BY <2>1, <2>3, LogsTyped, Zenon
  <2>5. r.ents \in Seq(EntriesUpTo(t))
    <3> HIDE DEF t
    <3> QED BY <1>1, <2>1, SoundFields, EntriesGrow, Zenon
  <2> HIDE DEF t, c, L
  <2>6. s \in Peer
    <3> DEFINE u == [r EXCEPT !.psnap = snap, !.snap = snap, !.log = L]
    <3>1. u \in Peer
      BY <1>1, <2>4, Zenon DEF Peer
    <3>2. s = [u EXCEPT !.cursor = snap.index, !.commit = c, !.term = t]
      BY <2>2
    <3> HIDE DEF u
    <3> QED BY <1>2, <2>1, <3>1, <3>2, ZenonT(40) DEF Peer
  <2>7. /\ s.id = r.id /\ s.state = r.state /\ s.vote = r.vote /\ s.votes = r.votes
        /\ s.hs = r.hs /\ s.term = t /\ s.msgs = NoMsgs /\ s.log = L /\ s.snap = snap
        /\ s.psnap = snap /\ s.ents = r.ents
    BY <1>1, <2>2 DEF Peer
  <2>8. \A j \in Server : NoMsgs[j] \in Seq(OutMsg(r.id, j, t, r.vote, K))
    BY NoMsgsType
  <2>9. s.hs # Nil => s.hs.term = s.term /\ s.hs.vote = s.vote
    BY <1>1, <2>1, <2>7, Zenon DEF Sound
  <2>10. Idle(s, K)
    BY <2>1, <2>3, <2>5, <2>6, <2>7, <2>8, <2>9, Zenon DEF Idle, Sound
  <2> QED BY <1>4, <2>1, <2>7, <2>10 DEF t
<1> QED BY <1>3, <1>4, Zenon

\* A SnapResp answers in the peer's own term.
LEMMA SnapReplySound ==
  ASSUME NEW K, NEW u, Sound(u, K), "MsgSnapResp" \in K,
         NEW r, r.id = u.id, r.term = u.term,
         NEW m \in Message, m.type = "MsgSnap", NEW reject \in BOOLEAN,
         NEW s, s = send(u, SnapResp(r, m, reject))
  PROVE  Sound(s, K) /\ Keeps(u, s)
<1>1. m.from \in Server /\ m.readId \in ReadId \cup {Nil}
  BY MsgFields
<1>2. SnapResp(r, m, reject) \in OutMsg(u.id, m.from, u.term, u.vote, K)
  BY <1>1, SoundFields DEF SnapResp, OutMsg, Message
<1> QED BY <1>1, <1>2, SendSound, Zenon

\* handleSnapshot follows the sender's term and casts no vote.
LEMMA HandleSnapshotSound ==
  ASSUME NEW K, NEW r, Idle(r, K), "MsgSnapResp" \in K,
         NEW m, Bounded(m), m.type = "MsgSnap", m.term <= r.term,
         r.state \in {"Follower", "Candidate"},
         NEW s, s = handleSnapshot(r, m)
  PROVE  Sound(s, K) /\ Evolves(r, s) /\ Roles(r, m, s) /\ s.state # "Panic"
<1> DEFINE f == becomeFollower(r, m.term)
           u == RestoreSnapshot(f, m.snapshot)
<1>1. /\ m \in Message /\ m.term \in Nat
      /\ m.snapshot \in SnapType /\ m.snapshot.term <= m.term
  BY MsgFields, Zenon DEF Bounded
<1>2. Sound(r, K) /\ r.term \in Nat
  BY SoundFields DEF Idle
<1>3. CASE r.term > m.term \/ FirstIndex(r.log) >= m.snapshot.index
  <2>1. s = send(r, SnapResp(r, m, TRUE))
    BY <1>3, Zenon DEF handleSnapshot
  <2>2. Sound(s, K) /\ Keeps(r, s)
    BY <1>1, <1>2, <2>1, SnapReplySound, Zenon
  <2>3. s.state # "Panic"
    BY <2>2 DEF Keeps
  <2> QED BY <1>2, <2>2, <2>3, KeepsEvolves, KeepsRoles, Zenon
<1>4. CASE ~(r.term > m.term \/ FirstIndex(r.log) >= m.snapshot.index)
  <2>1. /\ Idle(f, K) /\ Evolves(r, f) /\ f.state = "Follower"
        /\ f.term = r.term /\ f.vote = r.vote
    BY <1>1, <1>2, BecomeFollowerSound
  <2> HIDE DEF f
  <2>2. m.snapshot.term \in Nat /\ m.snapshot.term <= f.term
    BY <1>1, <1>2, <2>1 DEF SnapType
  <2>3. /\ Idle(u, K) /\ u.id = f.id /\ u.state = f.state /\ u.vote = f.vote
        /\ u.votes = f.votes /\ u.hs = f.hs /\ u.term = f.term
    BY <1>1, <2>1, <2>2, RestoreSnapshotSound
  <2> HIDE DEF u
  <2>4. Sound(u, K) /\ u.id = r.id /\ u.term = r.term /\ u.vote = r.vote
    BY <2>1, <2>3, Zenon DEF Idle, Evolves
  <2>5. s = send(u, SnapResp(r, m, FALSE))
    BY <1>4, Zenon DEF handleSnapshot, u, f
  <2>6. Sound(s, K) /\ Keeps(u, s)
    BY <1>1, <2>4, <2>5, SnapReplySound, Zenon
  <2>7. Evolves(r, s)
    BY <1>2, <2>1, <2>3, <2>4, <2>6 DEF Evolves, Keeps
  <2> QED BY <2>1, <2>3, <2>6, <2>7, Zenon DEF Keeps, Roles
<1> QED BY <1>3, <1>4, Zenon

\* handleSnapshotResp keeps term, vote and role.
LEMMA HandleSnapshotRespSound ==
  ASSUME NEW K, NEW r, Sound(r, K), NEW m \in Message, m.type = "MsgSnapResp",
         NEW s, s = handleSnapshotResp(r, m)
  PROVE  Sound(s, K) /\ Keeps(r, s)
<1> DEFINE a == ackReadRound(r, m.readId, m.from)
           n == FirstIndex(r.log)
           u == [a EXCEPT !.next[m.from] = n + 1, !.match[m.from] = n]
<1>1. m.from \in Server
  BY MsgFields, Zenon
<1>2. n \in Int
  BY SoundFields, LogIndexType, Zenon
<1>3. Sound(a, K) /\ Keeps(r, a)
  BY <1>1, AckReadRoundSound
<1> HIDE DEF a, n
<1>4. n + 1 \in Int
  BY <1>2
<1>5. Sound(u, K) /\ Keeps(a, u)
  BY <1>1, <1>2, <1>3, <1>4, Zenon DEF Sound, Keeps, Peer
<1>6. s \in {r, a, u}
  BY DEF handleSnapshotResp, a, n
<1>7. Keeps(r, r)
  BY DEF Keeps
<1> HIDE DEF u
<1> QED BY <1>3, <1>5, <1>6, <1>7, KeepsTrans

\* Snapshot (local compaction) keeps term, vote and role.
LEMMA SnapshotSound ==
  ASSUME NEW K, NEW r, Sound(r, K), NEW i \in Nat, NEW data \in SUBSET Entry,
         NEW s, s = Snapshot(r, i, data)
  PROVE  Sound(s, K) /\ Keeps(r, s)
<1> DEFINE t == Term(r.log, i)
           L == CompactTo(r.log, i, t)
           c == Max2(i, r.commit)
           d == Max2(i, r.cursor)
           sn == [index |-> i, term |-> t, data |-> data]
           u == [r EXCEPT !.log = L, !.commit = c, !.cursor = d, !.snap = sn]
           h == markHardStateChanged(u)
           nx == [j \in Server |-> Max2(h.next[j], FirstIndex(L) + 1)]
           mt == [j \in Server |-> Max2(h.match[j], FirstIndex(L))]
           w == [h EXCEPT !.next = nx, !.match = mt]
<1>1. r.term \in Nat /\ r.log \in LogsUpTo(r.term) /\ r.commit \in Nat /\ r.cursor \in Nat
  BY SoundFields
<1>2. t \in 0 .. r.term
  BY <1>1, TermType
<1>3. c \in Nat /\ d \in Nat
  BY <1>1 DEF Max2
<1>4. sn \in SnapType /\ sn.term <= r.term
  BY <1>1, <1>2 DEF SnapType
<1> HIDE DEF t
<1>5. L \in LogsUpTo(r.term)
  BY <1>1, <1>2, CompactToType
<1>6. L \in RaftLogs /\ FirstIndex(L) \in Int
  BY <1>1, <1>5, LogsTyped, LogIndexType, Zenon
<1> HIDE DEF L, c, d, sn
<1>7. Sound(u, K) /\ Keeps(r, u)
  BY <1>3, <1>4, <1>5, <1>6, Zenon DEF Sound, Keeps, Peer
<1>8. s \in {r, h, w}
  BY DEF Snapshot, t, L, c, d, sn
<1> HIDE DEF u
<1>9. Sound(h, K) /\ Keeps(u, h)
  BY <1>7, MarkHardStateSound
<1> HIDE DEF h
<1>10. Sound(w, K) /\ Keeps(h, w)
  <2>1. h.next \in [Server -> Int] /\ h.match \in [Server -> Int]
    BY <1>9, SoundFields
  <2>2. nx \in [Server -> Int] /\ mt \in [Server -> Int]
    BY <1>6, <2>1 DEF Max2
  <2> HIDE DEF nx, mt
  <2> QED BY <1>9, <2>2, ZenonT(40) DEF Sound, Keeps, Peer
<1> HIDE DEF w
<1>11. Keeps(r, r)
  BY DEF Keeps
<1> QED BY <1>7, <1>8, <1>9, <1>10, <1>11, KeepsTrans

\* A leader's tick keeps term, vote and role.
LEMMA HeartbeatSound ==
  ASSUME NEW K, NEW r, Sound(r, K), AppKinds \subseteq K, NEW s, s = Heartbeat(r)
  PROVE  Sound(s, K) /\ Keeps(r, s)
<1> DEFINE u == bcastAppend(r, <<Nil>>)
<1>1. <<Nil>> \in Seq(ReadId \cup {Nil})
  OBVIOUS
<1>2. Sound(u, K) /\ Keeps(r, u)
  BY <1>1, BcastAppendSound
<1>3. s = retryReadRounds(u)
  BY DEF Heartbeat
<1> HIDE DEF u
<1>4. Sound(s, K) /\ Keeps(u, s)
  BY <1>2, <1>3, PendingReadRoundsSound, Zenon
<1> QED BY <1>2, <1>4, KeepsTrans, Zenon

----------------------------------------------------------------------------
(* One event at a peer, and a peer restored from storage.                  *)

ReplyKinds == AppKinds \cup {"MsgAppResp", "MsgSnapResp"}

\* The kinds of messages a peer sends when it handles m.
KindsAfter(m) == IF m.type = "MsgVote" THEN {"MsgVoteResp"} ELSE ReplyKinds

\* A peer without pending messages is idle for every set of message kinds.
LEMMA IdleAny ==
  ASSUME NEW K, NEW r, Idle(r, K), NEW J
  PROVE  Idle(r, J)
<1>1. \A j \in Server : NoMsgs[j] \in Seq(OutMsg(r.id, j, r.term, r.vote, J))
  BY NoMsgsType, Zenon
<1> QED BY <1>1 DEF Idle, Sound

\* Step: whatever arrives, terms and votes evolve, roles change only as the
\* election rules allow, and only a vote request is answered with a vote.
LEMMA StepSound ==
  ASSUME NEW K, NEW r, Idle(r, K), NEW m, Bounded(m), m.to = r.id, r.state # "Panic",
         NEW s, s = Step(r, m), s.state # "Panic"
  PROVE  /\ Sound(s, KindsAfter(m)) /\ Evolves(r, s) /\ Roles(r, m, s)
         /\ s.term >= m.term
         /\ m.type = "MsgVote" => \A j \in Server : j # m.from => s.msgs[j] = <<>>
<1> DEFINE J == KindsAfter(m)
           f == IF m.term > r.term THEN becomeFollower(r, m.term) ELSE r
           h == Handle(f, m)
<1>1. /\ m \in Message /\ m.term \in Nat /\ m.from \in Server
      /\ m.type \in {"MsgVote", "MsgVoteResp", "MsgApp", "MsgAppResp", "MsgSnap",
                     "MsgSnapResp"}
  BY MsgFields, Zenon DEF Bounded
<1>2. Idle(r, J) /\ r.term \in Nat
  BY IdleAny, SoundFields, Zenon DEF Idle
<1>3. /\ Idle(f, J) /\ Evolves(r, f) /\ f.term \in Nat /\ f.term >= m.term
      /\ f = r \/ f.state = "Follower"
  <2>1. CASE m.term > r.term
    <3>1. Idle(f, J) /\ Evolves(r, f) /\ f.state = "Follower" /\ f.term = m.term
      BY <1>1, <1>2, <2>1, BecomeFollowerSound
    <3> QED BY <1>1, <3>1
  <2>2. CASE ~(m.term > r.term)
    BY <1>1, <1>2, <2>2 DEF Evolves
  <2> QED BY <2>1, <2>2, Zenon
<1>4. s = IF Handles(f.state, m.type) THEN h ELSE f
  BY Zenon DEF Step
<1> HIDE DEF f
<1>5. Sound(f, J) /\ f.msgs = NoMsgs /\ m.term <= f.term /\ f.id = r.id
  BY <1>1, <1>3, Zenon DEF Idle, Evolves
<1>6. CASE ~Handles(f.state, m.type)
  <2>1. s = f
    BY <1>4, <1>6, Zenon
  <2>2. Roles(r, m, s)
    BY <1>3, <2>1, Zenon DEF Roles
  <2> QED BY <1>3, <1>5, <2>1, <2>2, NoMsgsType, Zenon
<1>7. CASE Handles(f.state, m.type)
  <2>1. s = h
    BY <1>4, <1>7, Zenon
  <2>2. /\ Sound(s, J) /\ Evolves(f, s) /\ Roles(f, m, s)
        /\ m.type = "MsgVote" => \A j \in Server : j # m.from => s.msgs[j] = <<>>
    <3>1. CASE m.type = "MsgVote"
      <4>1. s = handleVote(f, m)
        BY <2>1, <3>1, Zenon DEF Handle
      <4>2. "MsgVoteResp" \in J
        BY <3>1, Zenon DEF KindsAfter
      <4>3. /\ Sound(s, J) /\ Evolves(f, s) /\ s.state = f.state /\ s.term = f.term
            /\ s.votes = f.votes
            /\ \A j \in Server : j # m.from => s.msgs[j] = <<>>
        BY <1>1, <1>3, <1>5, <3>1, <4>1, <4>2, HandleVoteSound
      <4> QED BY <4>3 DEF Roles
    <3>2. CASE m.type = "MsgVoteResp"
      <4>1. s = handleVoteResp(f, m) /\ f.state = "Candidate"
        BY <1>7, <2>1, <3>2, Zenon DEF Handle, Handles
      <4>2. AppKinds \subseteq J
        BY <3>2, Zenon DEF KindsAfter, ReplyKinds
      <4> QED BY <1>1, <1>3, <1>5, <3>2, <4>1, <4>2, HandleVoteRespSound, Zenon
    <3>3. CASE m.type = "MsgApp"
      <4>1. s = handleAppend(f, m) /\ f.state \in {"Follower", "Candidate"}
        BY <1>7, <2>1, <3>3, Zenon DEF Handle, Handles
      <4>2. AppKinds \subseteq J /\ "MsgAppResp" \in J
        BY <3>3, Zenon DEF KindsAfter, ReplyKinds
      <4> QED BY <1>3, <1>5, <3>3, <4>1, <4>2, HandleAppendSound, Zenon
    <3>4. CASE m.type = "MsgAppResp"
      <4>1. s = handleAppendResp(f, m)
        BY <2>1, <3>4, Zenon DEF Handle
      <4>2. AppKinds \subseteq J
        BY <3>4, Zenon DEF KindsAfter, ReplyKinds
      <4>3. Sound(s, J) /\ Keeps(f, s)
        BY <1>1, <1>5, <3>4, <4>1, <4>2, HandleAppendRespSound, Zenon
      <4> QED BY <1>5, <3>4, <4>3, KeepsEvolves, KeepsRoles, Zenon
    <3>5. CASE m.type = "MsgSnap"
      <4>1. s = handleSnapshot(f, m) /\ f.state \in {"Follower", "Candidate"}
        BY <1>7, <2>1, <3>5, Zenon DEF Handle, Handles
      <4>2. "MsgSnapResp" \in J
        BY <3>5, Zenon DEF KindsAfter, ReplyKinds
      <4> QED BY <1>3, <1>5, <3>5, <4>1, <4>2, HandleSnapshotSound, Zenon
    <3>6. CASE m.type = "MsgSnapResp"
      <4>1. s = handleSnapshotResp(f, m)
        BY <2>1, <3>6, Zenon DEF Handle
      <4>2. Sound(s, J) /\ Keeps(f, s)
        BY <1>1, <1>5, <3>6, <4>1, HandleSnapshotRespSound, Zenon
      <4> QED BY <1>5, <3>6, <4>2, KeepsEvolves, KeepsRoles, Zenon
    <3> QED BY <1>1, <3>1, <3>2, <3>3, <3>4, <3>5, <3>6, Zenon
  <2>3. s.term \in Nat
    BY <2>2, SoundFields, Zenon
  <2>4. Evolves(r, s)
    BY <1>2, <1>3, <2>2, <2>3, EvolvesTrans, Zenon
  <2>5. s.term >= m.term
    BY <1>1, <1>3, <2>2, <2>3 DEF Evolves
  <2>6. Roles(r, m, s)
    <3>1. CASE f = r
      BY <2>2, <3>1, Zenon
    <3>2. CASE f.state = "Follower"
      BY <2>2, <3>2, Zenon DEF Roles
    <3> QED BY <1>3, <3>1, <3>2, Zenon
  <2> QED BY <2>2, <2>4, <2>5, <2>6, Zenon
<1> QED BY <1>6, <1>7, Zenon

\* The absent snapshot is a snapshot of index and term 0.
LEMMA NoSnapType == NoSnap \in SnapType /\ NoSnap.term = 0 /\ NoSnap.index = 0
BY Zenon DEF NoSnap, SnapType

\* A new peer is idle in term 0.
LEMMA NewRaftSound ==
  ASSUME NEW K, NEW i \in Server, NEW s, s = NewRaft(i)
  PROVE  /\ Idle(s, K) /\ s.id = i /\ s.state = "Follower" /\ s.term = 0
         /\ s.vote = Nil /\ s.hs = Nil
<1>1. NewRaftLog \in LogsUpTo(0) /\ NewRaftLog \in RaftLogs
  <2>1. PICK z \in Nat : z = 0
    OBVIOUS
  <2>2. Restore(z, z) \in LogsUpTo(z)
    BY SentinelLogType
  <2>3. NewRaftLog = Restore(z, z)
    BY <2>1 DEF NewRaftLog, Restore
  <2> QED BY <2>1, <2>2, <2>3, LogsTyped, Zenon
<1>2. <<>> \in Seq(EntriesUpTo(0)) /\ <<>> \in Seq(Entry)
  BY EmptySeq
<1>3. NoMsgs \in [Server -> Seq(Message)]
  BY NoMsgsType
<1>4. \A j \in Server : NoMsgs[j] \in Seq(OutMsg(i, j, 0, Nil, K))
  BY NoMsgsType
<1>5. NoVotes \in [Server -> {"none", "granted", "rejected"}]
  BY DEF NoVotes
<1>6. NoReads \in [ReadId -> ReadRound \cup {Nil}]
  BY Zenon DEF NoReads
<1>7. s \in Peer
  BY <1>1, <1>2, <1>3, <1>5, <1>6, NoSnapType DEF NewRaft, Peer
<1>8. /\ s.id = i /\ s.state = "Follower" /\ s.term = 0 /\ s.vote = Nil /\ s.hs = Nil
      /\ s.log = NewRaftLog /\ s.ents = <<>> /\ s.snap = NoSnap /\ s.psnap = NoSnap
      /\ s.msgs = NoMsgs
  BY Zenon DEF NewRaft
<1> QED BY <1>1, <1>2, <1>4, <1>7, <1>8, NoSnapType DEF Idle, Sound

\* RestoreState takes over the stored term and vote.
LEMMA RestoreStateSound ==
  ASSUME NEW K, NEW r, Idle(r, K), r.hs = Nil, NEW h \in HardState, r.term <= h.term,
         NEW es \in Seq(EntriesUpTo(h.term)), NEW s, s = RestoreState(r, h, es)
  PROVE  /\ Idle(s, K) /\ s.id = r.id /\ s.state = r.state /\ s.term = h.term
         /\ s.vote = h.vote /\ s.hs = Nil
<1> DEFINE L == AppendEntries(r.log, es)
           u == [r EXCEPT !.term = h.term, !.vote = h.vote, !.commit = h.commit, !.log = L]
<1>1. Sound(r, K) /\ r \in Peer /\ r.msgs = NoMsgs /\ r.term \in Nat
  BY SoundFields, Zenon DEF Idle, Sound
<1>2. h.term \in Nat /\ h.vote \in Server \cup {Nil} /\ h.commit \in Nat
  BY DEF HardState
<1>3. r.log \in LogsUpTo(h.term) /\ r.ents \in Seq(EntriesUpTo(h.term))
  BY <1>1, <1>2, SoundFields, EntriesGrow, Zenon
<1>4. L \in LogsUpTo(h.term)
  BY <1>2, <1>3, AppendLogType, Zenon
<1>5. L \in RaftLogs
  BY <1>2, <1>4, LogsTyped, Zenon
<1>6. r.snap.term <= h.term /\ r.psnap.term <= h.term
  <2>1. /\ r.snap.term \in Nat /\ r.psnap.term \in Nat
        /\ r.snap.term <= r.term /\ r.psnap.term <= r.term
    BY <1>1, SoundFields, Zenon DEF SnapType
  <2> QED BY <1>1, <1>2, <2>1
<1>7. \A j \in Server : NoMsgs[j] \in Seq(OutMsg(r.id, j, h.term, h.vote, K))
  BY NoMsgsType
<1> HIDE DEF L
<1>8. u \in Peer
  BY <1>1, <1>2, <1>5, ZenonT(40) DEF Peer
<1>9. /\ u.id = r.id /\ u.state = r.state /\ u.term = h.term /\ u.vote = h.vote
      /\ u.hs = Nil /\ u.log = L /\ u.ents = r.ents /\ u.snap = r.snap /\ u.psnap = r.psnap
      /\ u.msgs = NoMsgs
  BY <1>1 DEF Peer
<1>10. s = emitCommittedEntries(u)
  BY DEF RestoreState, L
<1> HIDE DEF u
<1>11. Sound(u, K)
  BY <1>3, <1>4, <1>6, <1>7, <1>8, <1>9 DEF Sound
<1>12. Sound(s, K) /\ Keeps(u, s)
  BY <1>10, <1>11, EmitCommittedSound
<1>13. s.msgs = u.msgs /\ s.hs = u.hs
  BY <1>8, <1>10 DEF emitCommittedEntries, Peer
<1> QED BY <1>9, <1>12, <1>13, Zenon DEF Keeps, Idle

\* Advance clears the outputs and nothing else.
LEMMA AdvanceSound ==
  ASSUME NEW K, NEW r, Sound(r, K), NEW J, NEW s, s = Advance(r)
  PROVE  /\ Idle(s, J) /\ s.hs = Nil /\ s.id = r.id /\ s.state = r.state
         /\ s.term = r.term /\ s.vote = r.vote /\ s.votes = r.votes
<1>1. r \in Peer /\ r.term \in Nat
  BY SoundFields, Zenon DEF Sound
<1>2. <<>> \in Seq(EntriesUpTo(r.term)) /\ <<>> \in Seq(Entry)
  BY EmptySeq
<1>3. NoMsgs \in [Server -> Seq(Message)]
  BY NoMsgsType
<1>4. \A j \in Server : NoMsgs[j] \in Seq(OutMsg(r.id, j, r.term, r.vote, J))
  BY NoMsgsType
<1>5. s \in Peer
  BY <1>1, <1>2, <1>3, NoSnapType, Zenon DEF Advance, Peer
<1>6. /\ s.id = r.id /\ s.state = r.state /\ s.term = r.term /\ s.vote = r.vote
      /\ s.votes = r.votes /\ s.hs = Nil /\ s.log = r.log /\ s.ents = <<>>
      /\ s.snap = r.snap /\ s.psnap = NoSnap /\ s.msgs = NoMsgs
  BY <1>1 DEF Advance, Peer
<1>7. r.log \in LogsUpTo(r.term) /\ r.snap.term <= r.term
  BY SoundFields
<1> QED BY <1>1, <1>2, <1>4, <1>5, <1>6, <1>7, NoSnapType DEF Idle, Sound
=============================================================================
