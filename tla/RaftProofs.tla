----------------------------- MODULE RaftProofs -----------------------------
(***************************************************************************)
(* Votes, storage and types in module Raft, for every number of peers, of  *)
(* crashes, of late messages and of campaigns.                             *)
(***************************************************************************)
EXTENDS Raft, RaftNodeProofs

----------------------------------------------------------------------------
(* Storage.                                                                *)

\* No term in storage exceeds the term of the stored hard state.
DiskOK(d) ==
  /\ d \in DiskType
  /\ d.ents \subseteq EntriesUpTo(d.hs.term)
  /\ d.snap.term <= d.hs.term

\* The types of the fields of a raft storage.
LEMMA DiskFields ==
  ASSUME NEW d, DiskOK(d)
  PROVE  /\ d.hs \in HardState /\ d.hs.term \in Nat /\ d.hs.vote \in Server \cup {Nil}
         /\ d.ents \in SUBSET Entry /\ d.snap \in SnapType /\ d.snap.term \in Nat
         /\ d.snap.index \in Nat /\ d.hs.commit \in Nat
BY DEF DiskOK, DiskType, HardState, SnapType

\* LoadEntries returns stored entries.
LEMMA LoadEntriesType ==
  ASSUME NEW d, DiskOK(d), NEW lo \in Int, NEW hi \in Int
  PROVE  LoadEntries(d, lo, hi) \in Seq(EntriesUpTo(d.hs.term))
<1> DEFINE keys == {e.index : e \in d.ents} \cap lo .. hi - 1
           Key(k) == CHOOSE x \in keys : Cardinality({y \in keys : y < x}) = k - 1
           n == Cardinality(keys)
           f == [k \in 1 .. n |-> CHOOSE e \in d.ents : e.index = Key(k)]
<1>1. keys \in SUBSET (lo .. hi - 1) /\ keys \in SUBSET Int
  OBVIOUS
<1>2. IsFiniteSet(keys) /\ n \in Nat
  <2>1. hi - 1 \in Int
    OBVIOUS
  <2>2. IsFiniteSet(lo .. hi - 1)
    BY <2>1, FS_Interval
  <2>3. IsFiniteSet(keys)
    BY <1>1, <2>2, FS_Subset, Zenon
  <2> QED BY <2>3, FS_CardinalityType
<1>3. \A x \in keys : \E e \in d.ents : e.index = x
  OBVIOUS
<1>4. ASSUME NEW k \in 1 .. n
      PROVE  (CHOOSE e \in d.ents : e.index = Key(k)) \in EntriesUpTo(d.hs.term)
  <2> HIDE DEF keys
  <2>1. \E x \in keys : Cardinality({y \in keys : y < x}) = k - 1
    BY <1>1, <1>2, KthSmallest, Zenon
  <2>2. Key(k) \in keys
    BY <2>1
  <2>3. \E e \in d.ents : e.index = Key(k)
    <3> HIDE DEF Key
    <3> QED BY <1>3, <2>2
  <2>4. (CHOOSE e \in d.ents : e.index = Key(k)) \in d.ents
    <3> HIDE DEF Key
    <3> QED BY <2>3
  <2> HIDE DEF Key
  <2> QED BY <2>4 DEF DiskOK
<1>5. f \in [1 .. n -> EntriesUpTo(d.hs.term)]
  <2> HIDE DEF Key, n
  <2> QED BY <1>4
<1>6. LoadEntries(d, lo, hi) = f
  BY DEF LoadEntries
<1> HIDE DEF f, n
<1> QED BY <1>2, <1>5, <1>6, MakeSeq, Zenon

\* A peer restored from storage has the stored term and vote and is a follower
\* with nothing to send.
LEMMA NewPeerSound ==
  ASSUME NEW K, NEW i \in Server, NEW d, DiskOK(d), NEW s, s = NewPeer(i, d)
  PROVE  /\ Idle(s, K) /\ s.id = i /\ s.state = "Follower" /\ s.hs = Nil
         /\ s.term = d.hs.term /\ s.vote = d.hs.vote
<1> DEFINE r0 == NewRaft(i)
           r == RestoreSnapshot(r0, d.snap)
           es == LoadEntries(d, d.snap.index + 1, d.hs.commit + 1)
<1>1. /\ Idle(r0, K) /\ r0.id = i /\ r0.state = "Follower" /\ r0.term = 0
      /\ r0.vote = Nil /\ r0.hs = Nil
  BY NewRaftSound
<1> HIDE DEF r0
<1>2. d.snap \in SnapType /\ d.snap.term \in Nat /\ d.hs \in HardState /\ d.hs.term \in Nat
  BY DiskFields, Zenon
<1>3. /\ Idle(r, K) /\ r.id = r0.id /\ r.state = r0.state /\ r.vote = r0.vote
      /\ r.hs = r0.hs
      /\ d.snap.index # 0 => r.term = Max2(d.snap.term, r0.term)
      /\ d.snap.index = 0 => r = r0
  BY <1>1, <1>2, RestoreSnapshotSound
<1> HIDE DEF r
<1>4. r.term <= d.hs.term /\ r.term \in Nat
  BY <1>1, <1>2, <1>3 DEF Max2, DiskOK
<1>5. CASE d.hs = ZeroState
  <2>1. s = r
    BY <1>5, Zenon DEF NewPeer, r, r0
  <2>2. d.hs.term = 0 /\ d.hs.vote = Nil
    BY <1>5 DEF ZeroState
  <2>3. r.term = 0
    BY <1>4, <2>2
  <2> QED BY <1>1, <1>3, <2>1, <2>2, <2>3, Zenon
<1>6. CASE d.hs # ZeroState
  <2>1. s = RestoreState(r, d.hs, es)
    BY <1>6, Zenon DEF NewPeer, r, r0
  <2>2. d.snap.index + 1 \in Int /\ d.hs.commit + 1 \in Int
    BY DiskFields
  <2>3. es \in Seq(EntriesUpTo(d.hs.term))
    BY <2>2, LoadEntriesType, Zenon
  <2> HIDE DEF es
  <2> QED BY <1>1, <1>2, <1>3, <1>4, <2>1, <2>3, RestoreStateSound
<1> QED BY <1>5, <1>6, Zenon

----------------------------------------------------------------------------
(* The inductive invariant.                                                *)

\* What a message from i to j on its way is known to satisfy: its terms are
\* bounded, and a granted vote was cast.
Wire(i, j) ==
  {m \in Message :
     /\ m.from = i /\ m.to = j /\ Bounded(m)
     /\ m.type = "MsgVoteResp" /\ ~m.reject => <<i, m.term, j>> \in grants}

\* Between events a peer has no pending message or hard state, and its term and
\* vote are the stored ones.
PeersOK ==
  \A i \in Server :
    /\ Idle(node[i], {}) /\ node[i].hs = Nil /\ node[i].id = i
    /\ DiskOK(disk[i])
    /\ node[i].term = disk[i].hs.term /\ node[i].vote = disk[i].hs.vote

WiresOK ==
  /\ \A i, j \in Server : net[i][j] \in Seq(Wire(i, j))
  /\ \A m \in late : m \in Wire(m.from, m.to)

\* A vote of the peer's current term is the peer's current vote.
GrantsOK ==
  \A g \in grants : /\ g[2] <= node[g[1]].term
                    /\ g[2] = node[g[1]].term => g[3] = node[g[1]].vote

Inv == TypeOK /\ PeersOK /\ WiresOK /\ GrantsOK /\ VoteOnce

\* SaveHardState makes the stored term and vote those of the peer.
LEMMA SaveHardStateOK ==
  ASSUME NEW K, NEW a, NEW r, Sound(r, K), Evolves(a, r), a.term \in Nat,
         NEW d, DiskOK(d), d.hs.term = a.term, d.hs.vote = a.vote,
         NEW D, D = SaveHardState(d, r.hs)
  PROVE  /\ DiskOK(D) /\ D.hs.term = r.term /\ D.hs.vote = r.vote
         /\ D.ents = d.ents /\ D.snap = d.snap
<1>1. r.term \in Nat /\ r.hs \in HardState \cup {Nil}
  BY SoundFields, Zenon DEF Sound, Peer
<1>2. a.term <= r.term
  BY <1>1 DEF Evolves
<1>3. CASE r.hs \in {Nil, ZeroState}
  <2>1. D = d
    BY <1>3, Zenon DEF SaveHardState
  <2>2. r.term = a.term /\ r.vote = a.vote
    <3>1. CASE r.hs = Nil
      BY <3>1 DEF Evolves
    <3>2. CASE r.hs = ZeroState /\ r.hs # Nil
      <4>1. r.term = 0 /\ r.vote = Nil
        BY <3>2 DEF Sound, ZeroState
      <4>2. a.term = r.term
        BY <1>1, <1>2, <4>1
      <4> QED BY <4>1, <4>2, Zenon DEF Evolves
    <3> QED BY <1>3, <3>1, <3>2, Zenon
  <2> QED BY <2>1, <2>2, Zenon
<1>4. CASE r.hs \notin {Nil, ZeroState}
  <2>1. D = [d EXCEPT !.hs = r.hs]
    BY <1>4, Zenon DEF SaveHardState
  <2>2. r.hs \in HardState /\ r.hs.term = r.term /\ r.hs.vote = r.vote
    BY <1>1, <1>4, Zenon DEF Sound
  <2>3. D \in DiskType /\ D.hs = r.hs /\ D.ents = d.ents /\ D.snap = d.snap
    BY <2>1, <2>2, Zenon DEF DiskOK, DiskType
  <2>4. d.ents \subseteq EntriesUpTo(r.term)
    <3>1. EntriesUpTo(d.hs.term) \subseteq EntriesUpTo(r.term)
      BY <1>1, <1>2 DEF EntriesUpTo, Entry
    <3> QED BY <3>1, Zenon DEF DiskOK
  <2>5. d.snap.term <= r.term
    BY <1>1, <1>2, DiskFields DEF DiskOK
  <2> QED BY <2>2, <2>3, <2>4, <2>5, Zenon DEF DiskOK
<1> QED BY <1>3, <1>4, Zenon

\* persistReady stores the term and vote the peer now has.
LEMMA PersistReadyOK ==
  ASSUME NEW K, NEW a, NEW r, Sound(r, K), Evolves(a, r), a.term \in Nat,
         NEW d, DiskOK(d), d.hs.term = a.term, d.hs.vote = a.vote,
         NEW D, D = persistReady(d, r)
  PROVE  DiskOK(D) /\ D.hs.term = r.term /\ D.hs.vote = r.vote
<1> DEFINE x == SaveHardState(d, r.hs)
           y == SaveEntries(x, r.ents)
<1>1. DiskOK(x) /\ x.hs.term = r.term /\ x.hs.vote = r.vote
  BY SaveHardStateOK
<1> HIDE DEF x
<1>2. Range(r.ents) \subseteq EntriesUpTo(r.term) /\ Range(r.ents) \subseteq Entry
  <2>1. r.ents \in Seq(EntriesUpTo(r.term))
    BY SoundFields, Zenon
  <2>2. Range(r.ents) \subseteq EntriesUpTo(r.term)
    BY <2>1, RangeOfSeq, Zenon
  <2> QED BY <2>2, Zenon DEF EntriesUpTo
<1>3. DiskOK(y) /\ y.hs = x.hs
  <2> DEFINE E == {e \in x.ents : \A f \in Range(r.ents) : f.index # e.index} \cup Range(r.ents)
  <2>1. y = [x EXCEPT !.ents = E]
    BY DEF SaveEntries
  <2>2. E \subseteq EntriesUpTo(x.hs.term) /\ E \subseteq Entry
    BY <1>1, <1>2, DiskFields, Zenon DEF DiskOK
  <2> HIDE DEF E
  <2> QED BY <1>1, <2>1, <2>2, Zenon DEF DiskOK, DiskType
<1> HIDE DEF y
<1>4. D = SaveSnapshot(y, r.psnap)
  BY DEF persistReady, x, y
<1>5. CASE r.psnap.index = 0
  BY <1>1, <1>3, <1>4, <1>5, Zenon DEF SaveSnapshot
<1>6. CASE r.psnap.index # 0
  <2>1. D = [y EXCEPT !.snap = r.psnap]
    BY <1>4, <1>6, Zenon DEF SaveSnapshot
  <2>2. r.psnap \in SnapType /\ r.psnap.term <= r.term
    BY SoundFields, Zenon
  <2> QED BY <1>1, <1>3, <2>1, <2>2, Zenon DEF DiskOK, DiskType
<1> QED BY <1>5, <1>6, Zenon

\* sendMessages puts only the Ready's messages on the network.
LEMMA SendMessagesOK ==
  ASSUME NEW i \in Server, NEW n \in [Server -> [Server -> Seq(Message)]],
         NEW W \in [Server -> [Server -> SUBSET Message]],
         \A a, b \in Server : n[a][b] \in Seq(W[a][b]),
         NEW M, \A j \in Server : M[j] \in Seq(W[i][j]),
         NEW N, N = sendMessages(n, i, M)
  PROVE  /\ N \in [Server -> [Server -> Seq(Message)]]
         /\ \A a, b \in Server : N[a][b] \in Seq(W[a][b])
<1> DEFINE Q(j) == n[i][j] \o M[j]
           C(j) == SubSeq(Q(j), 1, Min2(Len(Q(j)), MaxInFlight))
<1>1. ASSUME NEW j \in Server  PROVE C(j) \in Seq(W[i][j]) /\ C(j) \in Seq(Message)
  <2>1. Q(j) \in Seq(W[i][j])
    BY ConcatProperties, Zenon
  <2> HIDE DEF Q
  <2>2. Len(Q(j)) \in Nat
    BY <2>1, LenProperties
  <2>3. Min2(Len(Q(j)), MaxInFlight) \in Int /\ Min2(Len(Q(j)), MaxInFlight) <= Len(Q(j))
    BY <2>2, BoundAssumption DEF Min2
  <2>4. C(j) \in Seq(W[i][j])
    <3>1. PICK q, m, S : q = Q(j) /\ m = Min2(Len(q), MaxInFlight) /\ S = W[i][j]
      OBVIOUS
    <3>2. q \in Seq(S) /\ m \in Int /\ m <= Len(q)
      BY <2>1, <2>3, <3>1, Zenon
    <3>3. SubSeq(q, 1, m) \in Seq(S)
      BY ONLY <3>2, CutType
    <3> QED BY <3>1, <3>3, Zenon
  <2>5. Seq(W[i][j]) \subseteq Seq(Message)
    <3>1. W[i][j] \subseteq Message
      OBVIOUS
    <3> QED BY <3>1, SeqMonotonic, Zenon
  <2> QED BY <2>4, <2>5, Zenon
<1>2. N = [n EXCEPT ![i] = [j \in Server |-> C(j)]]
  BY DEF sendMessages
<1> HIDE DEF C
<1> QED BY <1>1, <1>2

\* A peer that panicked keeps all it had.
LEMMA PanicSound ==
  ASSUME NEW r, Idle(r, {}), NEW s, s = [r EXCEPT !.state = "Panic"]
  PROVE  /\ s \in Peer /\ Idle(s, {}) /\ s.hs = r.hs /\ s.id = r.id
         /\ s.term = r.term /\ s.vote = r.vote
<1>1. r \in Peer
  BY DEF Idle, Sound
<1>2. s \in Peer
  BY <1>1, Zenon DEF Peer
<1>3. /\ s.id = r.id /\ s.term = r.term /\ s.vote = r.vote
      /\ s.log = r.log /\ s.ents = r.ents /\ s.snap = r.snap
      /\ s.psnap = r.psnap /\ s.hs = r.hs /\ s.msgs = r.msgs
  BY <1>1 DEF Peer
<1> QED BY <1>2, <1>3, Zenon DEF Idle, Sound

\* Processing a Ready keeps the part of the invariant that it touches: the
\* peer, its storage, the network, its state machine and the history.
LEMMA ReadyOK ==
  ASSUME Inv, NEW i \in Server, NEW K, NEW r, NEW d, NEW n,
         r.state # "Panic" => Sound(r, K) /\ Evolves(node[i], r),
         DiskOK(d), d.hs = disk[i].hs,
         n \in [Server -> [Server -> Seq(Message)]],
         \A a, b \in Server : n[a][b] \in Seq(Wire(a, b)),
         handleReady(i, r, d, n)
  PROVE  /\ node' \in [Server -> Peer] /\ disk' \in [Server -> DiskType]
         /\ net' \in [Server -> [Server -> Seq(Message)]]
         /\ sm' \in [Server -> SUBSET Entry]
         /\ grants' \in SUBSET (Server \X Nat \X Server)
         /\ leaders' \in SUBSET (Nat \X Server) /\ answers' \in SUBSET ReadState
         /\ PeersOK' /\ GrantsOK' /\ VoteOnce'
         /\ \A a, b \in Server : net'[a][b] \in Seq(Wire(a, b)')
         /\ \A a, b \in Server : Wire(a, b) \subseteq Wire(a, b)'
<1>1. /\ node \in [Server -> Peer] /\ disk \in [Server -> DiskType]
      /\ sm \in [Server -> SUBSET Entry] /\ grants \in SUBSET (Server \X Nat \X Server)
      /\ leaders \in SUBSET (Nat \X Server) /\ answers \in SUBSET ReadState
  BY Zenon DEF Inv, TypeOK
<1>2. /\ Idle(node[i], {}) /\ node[i].hs = Nil /\ node[i].id = i /\ DiskOK(disk[i])
      /\ node[i].term = disk[i].hs.term /\ node[i].vote = disk[i].hs.vote
  BY DEF Inv, PeersOK
<1>3. Sound(node[i], {}) /\ node[i].term \in Nat
  BY <1>2, SoundFields, Zenon DEF Idle
<1>4. CASE r.state = "Panic"
  <2> DEFINE p == [node[i] EXCEPT !.state = "Panic"]
  <2>1. /\ node' = [node EXCEPT ![i] = p] /\ net' = n
        /\ disk' = disk /\ sm' = sm /\ grants' = grants /\ leaders' = leaders
        /\ answers' = answers
    BY <1>1, <1>4, Zenon DEF handleReady
  <2>2. /\ p \in Peer /\ Idle(p, {}) /\ p.hs = Nil /\ p.id = i
        /\ p.term = node[i].term /\ p.vote = node[i].vote
    <3>1. p = [node[i] EXCEPT !.state = "Panic"]
      BY Zenon
    <3> HIDE DEF p
    <3> QED BY <1>2, <3>1, PanicSound
  <2> HIDE DEF p
  <2>3. PeersOK'
    BY <1>1, <1>2, <2>1, <2>2, Zenon DEF Inv, PeersOK
  <2>4. GrantsOK' /\ VoteOnce'
    BY <1>1, <2>1, <2>2, Zenon DEF Inv, GrantsOK, VoteOnce
  <2>5. \A a, b \in Server : Wire(a, b)' = Wire(a, b)
    BY <2>1, Zenon DEF Wire
  <2> QED BY <1>1, <2>1, <2>2, <2>3, <2>4, <2>5, Zenon
<1>5. CASE r.state # "Panic"
  <2> DEFINE p == Advance(r)
             D == persistReady(d, r)
             g == <<r.id, r.term, r.vote>>
  <2>1. Sound(r, K) /\ Evolves(node[i], r)
    BY <1>5, Zenon
  <2>2. /\ r.id = i /\ r.term \in Nat /\ r.vote \in Server \cup {Nil}
        /\ r.term >= node[i].term
        /\ r.term = node[i].term => node[i].vote \in {Nil, r.vote}
    BY <1>2, <2>1, SoundFields, Zenon DEF Evolves
  <2>3. /\ node' = [node EXCEPT ![i] = p] /\ disk' = [disk EXCEPT ![i] = D]
        /\ net' = sendMessages(n, i, r.msgs)
        /\ sm' = [sm EXCEPT ![i] = submitApply(@, r)]
        /\ grants' = IF r.vote = Nil THEN grants ELSE grants \cup {g}
        /\ leaders' = IF r.state # "Leader" THEN leaders ELSE leaders \cup {<<r.term, r.id>>}
        /\ answers' = answers \cup r.rstates
    BY <1>5, Zenon DEF handleReady, Publish
  <2>4. /\ Idle(p, {}) /\ p.hs = Nil /\ p.id = i /\ p.term = r.term /\ p.vote = r.vote
    BY <2>1, <2>2, AdvanceSound, Zenon
  <2>5. p \in Peer
    BY <2>4 DEF Idle, Sound
  <2>6. DiskOK(D) /\ D.hs.term = r.term /\ D.hs.vote = r.vote
    <3> HIDE DEF p
    <3>1. PICK a, x : a = node[i] /\ x = D
      BY Zenon
    <3>2. a.term \in Nat /\ d.hs.term = a.term /\ d.hs.vote = a.vote
      BY <1>2, <1>3, <3>1, Zenon
    <3>3. Sound(r, K) /\ Evolves(a, r) /\ x = persistReady(d, r)
      BY <2>1, <3>1, Zenon
    <3> HIDE DEF D
    <3>4. DiskOK(x) /\ x.hs.term = r.term /\ x.hs.vote = r.vote
      BY ONLY DiskOK(d), <3>2, <3>3, PersistReadyOK
    <3> QED BY <3>1, <3>4
  <2> HIDE DEF p, D
  <2>7. PeersOK'
    BY <1>1, <1>2, <2>3, <2>4, <2>6, Zenon DEF Inv, PeersOK
  <2>8. node' \in [Server -> Peer] /\ disk' \in [Server -> DiskType]
    BY <1>1, <2>3, <2>5, <2>6, Zenon DEF DiskOK
  <2>9. leaders' \in SUBSET (Nat \X Server) /\ answers' \in SUBSET ReadState
    BY <1>1, <2>1, <2>2, <2>3, SoundFields
  <2>10. grants' \in SUBSET (Server \X Nat \X Server)
    BY <1>1, <2>2, <2>3
  <2>11. submitApply(sm[i], r) \in SUBSET Entry
    <3>1. Range(r.comm) \subseteq Entry
      BY <2>1, SoundFields, RangeOfSeq, Zenon
    <3>2. r.psnap.data \subseteq Entry
      BY <2>1, SoundFields, Zenon DEF SnapType
    <3> QED BY <1>1, <3>1, <3>2, Zenon DEF submitApply
  <2>12. sm' \in [Server -> SUBSET Entry]
    BY <1>1, <2>3, <2>11, Zenon
  <2>13. \A h \in grants : h[1] = i /\ h[2] = r.term => h[3] = r.vote
    <3> TAKE h \in grants
    <3> HAVE h[1] = i /\ h[2] = r.term
    <3>1. h[2] <= node[i].term /\ (h[2] = node[i].term => h[3] = node[i].vote)
      BY Zenon DEF Inv, GrantsOK
    <3>2. h[3] \in Server /\ h[2] \in Nat
      BY <1>1, Zenon
    <3>3. h[2] = node[i].term
      BY <1>3, <2>2, <3>1, <3>2
    <3> QED BY <2>2, <3>1, <3>2, <3>3, ServerAssumption, Zenon
  <2>14. VoteOnce'
    <3>1. ASSUME NEW h \in grants, h[1] = i, h[2] = r.term  PROVE h[3] = r.vote
      BY <2>13, <3>1, Zenon
    <3>2. g[1] = i /\ g[2] = r.term /\ g[3] = r.vote
      BY <2>2, Zenon
    <3> HIDE DEF g
    <3> QED BY <2>3, <3>1, <3>2 DEF Inv, VoteOnce
  <2>15. GrantsOK'
    <3>1. ASSUME NEW h \in grants
          PROVE  /\ h[2] <= node'[h[1]].term
                 /\ h[2] = node'[h[1]].term => h[3] = node'[h[1]].vote
      <4>1. /\ h[1] \in Server /\ h[2] \in Nat
            /\ h[2] <= node[h[1]].term
            /\ h[2] = node[h[1]].term => h[3] = node[h[1]].vote
        BY <1>1, Zenon DEF Inv, GrantsOK
      <4>2. CASE h[1] = i
        <5>1. node'[h[1]].term = r.term /\ node'[h[1]].vote = r.vote
          BY <1>1, <2>3, <2>4, <4>2, Zenon
        <5>2. h[2] <= r.term
          BY <1>3, <2>2, <4>1, <4>2
        <5> QED BY <2>13, <4>2, <5>1, <5>2, Zenon
      <4>3. CASE h[1] # i
        BY <1>1, <2>3, <4>1, <4>3, Zenon
      <4> QED BY <4>2, <4>3, Zenon
    <3>2. g[1] = i /\ g[2] = r.term /\ g[3] = r.vote
      BY <2>2
    <3>3. node'[i].term = r.term /\ node'[i].vote = r.vote
      BY <1>1, <2>3, <2>4, Zenon
    <3> HIDE DEF g
    <3> QED BY <2>2, <2>3, <3>1, <3>2, <3>3 DEF GrantsOK
  <2>16. \A a, b \in Server : Wire(a, b) \subseteq Wire(a, b)'
    BY <2>3, Zenon DEF Wire
  <2>17. /\ net' \in [Server -> [Server -> Seq(Message)]]
         /\ \A a, b \in Server : net'[a][b] \in Seq(Wire(a, b)')
    <3> DEFINE W == [a \in Server |-> [b \in Server |-> Wire(a, b)']]
    <3>1. W \in [Server -> [Server -> SUBSET Message]]
      BY DEF Wire
    <3>2. \A a, b \in Server : W[a][b] = Wire(a, b)'
      OBVIOUS
    <3>3. ASSUME NEW j \in Server  PROVE r.msgs[j] \in Seq(W[i][j])
      <4>1. r.msgs[j] \in Seq(OutMsg(r.id, j, r.term, r.vote, K))
        BY <2>1, SoundFields, Zenon
      <4>2. OutMsg(r.id, j, r.term, r.vote, K) \subseteq W[i][j]
        <5> SUFFICES ASSUME NEW m \in OutMsg(r.id, j, r.term, r.vote, K)
                     PROVE  m \in Wire(i, j)'
          BY <3>2, Zenon
        <5>1. m \in Message /\ m.from = i /\ m.to = j /\ Bounded(m)
          BY <2>2, Zenon DEF OutMsg, Bounded
        <5>2. m.type = "MsgVoteResp" /\ ~m.reject => <<i, m.term, j>> \in grants'
          <6> HAVE m.type = "MsgVoteResp" /\ ~m.reject
          <6>1. r.vote = j /\ m.term = r.term
            BY Zenon DEF OutMsg
          <6>2. r.vote # Nil
            BY <6>1, ServerAssumption, Zenon
          <6> QED BY <2>2, <2>3, <6>1, <6>2, Zenon
        <5> QED BY <5>1, <5>2, Zenon DEF Wire
      <4> QED BY <4>1, <4>2, SeqMonotonic, Zenon
    <3>4. \A a, b \in Server : n[a][b] \in Seq(W[a][b])
      BY <2>16, <3>2, SeqMonotonic, Zenon
    <3> HIDE DEF W
    <3>5. /\ net' \in [Server -> [Server -> Seq(Message)]]
          /\ \A a, b \in Server : net'[a][b] \in Seq(W[a][b])
      BY <2>3, <3>1, <3>3, <3>4, SendMessagesOK, Zenon
    <3> QED BY <3>2, <3>5, Zenon
  <2> QED BY <2>7, <2>8, <2>9, <2>10, <2>12, <2>14, <2>15, <2>16, <2>17, Zenon
<1> QED BY <1>4, <1>5, Zenon

\* The types of what the Ready does not touch.
AuxOK ==
  /\ task \in [Server -> SnapType] /\ lastSnap \in [Server -> Nat]
  /\ applied \in [Server -> Nat]
  /\ crashes \in Nat /\ campaigns \in Nat /\ proposals \in Nat /\ beats \in Nat
  /\ asked \in [ReadId -> Nat \cup {Nil}]
  /\ confused \in SUBSET (Nat \X Server)

\* Late messages stay covered while the set of votes cast only grows.
LEMMA LateOK ==
  ASSUME Inv, \A a, b \in Server : Wire(a, b) \subseteq Wire(a, b)', late' \subseteq late
  PROVE  late' \in SUBSET Message /\ \A m \in late' : m \in Wire(m.from, m.to)'
<1>1. ASSUME NEW m \in late'
      PROVE  m \in Message /\ m \in Wire(m.from, m.to)'
  <2>1. m \in Message /\ m \in Wire(m.from, m.to)
    BY DEF Inv, TypeOK, WiresOK
  <2>2. m.from \in Server /\ m.to \in Server
    BY <2>1, MsgFields, Zenon
  <2>3. Wire(m.from, m.to) \subseteq Wire(m.from, m.to)'
    BY <2>2, Zenon
  <2> QED BY <2>1, <2>3
<1> QED BY <1>1

\* An event and its Ready preserve the invariant.
LEMMA EventInv ==
  ASSUME Inv, NEW i \in Server, NEW K, NEW r, NEW d, NEW n,
         r.state # "Panic" => Sound(r, K) /\ Evolves(node[i], r),
         DiskOK(d), d.hs = disk[i].hs,
         n \in [Server -> [Server -> Seq(Message)]],
         \A a, b \in Server : n[a][b] \in Seq(Wire(a, b)),
         handleReady(i, r, d, n), late' \subseteq late, AuxOK'
  PROVE  Inv'
<1>1. /\ node' \in [Server -> Peer] /\ disk' \in [Server -> DiskType]
      /\ net' \in [Server -> [Server -> Seq(Message)]]
      /\ sm' \in [Server -> SUBSET Entry]
      /\ grants' \in SUBSET (Server \X Nat \X Server)
      /\ leaders' \in SUBSET (Nat \X Server) /\ answers' \in SUBSET ReadState
      /\ PeersOK' /\ GrantsOK' /\ VoteOnce'
      /\ \A a, b \in Server : net'[a][b] \in Seq(Wire(a, b)')
      /\ \A a, b \in Server : Wire(a, b) \subseteq Wire(a, b)'
  BY ReadyOK, Zenon
<1>2. late' \in SUBSET Message /\ \A m \in late' : m \in Wire(m.from, m.to)'
  BY <1>1, LateOK, Zenon
<1>3. TypeOK'
  BY <1>1, <1>2, Zenon DEF TypeOK, AuxOK
<1>4. WiresOK'
  BY <1>1, <1>2, Zenon DEF WiresOK
<1> QED BY <1>1, <1>3, <1>4, Zenon DEF Inv

\* What the invariant says of one peer and of the network.
LEMMA InvFacts ==
  ASSUME Inv, NEW i \in Server, NEW K
  PROVE  /\ Idle(node[i], K) /\ Sound(node[i], K) /\ node[i].id = i
         /\ node[i].term \in Nat /\ DiskOK(disk[i])
         /\ node[i].term = disk[i].hs.term /\ node[i].vote = disk[i].hs.vote
         /\ node[i].hs = Nil
         /\ net \in [Server -> [Server -> Seq(Message)]]
         /\ \A a, b \in Server : net[a][b] \in Seq(Wire(a, b))
         /\ AuxOK
<1>1. /\ Idle(node[i], {}) /\ node[i].id = i /\ DiskOK(disk[i]) /\ node[i].hs = Nil
      /\ node[i].term = disk[i].hs.term /\ node[i].vote = disk[i].hs.vote
  BY Zenon DEF Inv, PeersOK
<1>2. Idle(node[i], K)
  BY <1>1, IdleAny, Zenon
<1>3. Sound(node[i], K) /\ node[i].term \in Nat
  BY <1>2, SoundFields, Zenon DEF Idle
<1>4. /\ net \in [Server -> [Server -> Seq(Message)]]
      /\ \A a, b \in Server : net[a][b] \in Seq(Wire(a, b))
  BY Zenon DEF Inv, TypeOK, WiresOK
<1>5. AuxOK
  BY DEF Inv, TypeOK, AuxOK
<1> QED BY <1>1, <1>2, <1>3, <1>4, <1>5, Zenon

\* Taking a message off a channel leaves the channels covered.
LEMMA PopOK ==
  ASSUME Inv, NEW i \in Server, NEW j \in Server, net[j][i] # <<>>,
         NEW n, n = [net EXCEPT ![j][i] = Tail(@)]
  PROVE  /\ n \in [Server -> [Server -> Seq(Message)]]
         /\ \A a, b \in Server : n[a][b] \in Seq(Wire(a, b))
         /\ Head(net[j][i]) \in Wire(j, i)
<1>1. /\ net \in [Server -> [Server -> Seq(Message)]]
      /\ \A a, b \in Server : net[a][b] \in Seq(Wire(a, b))
  BY Zenon DEF Inv, TypeOK, WiresOK
<1>2. net[j][i] \in Seq(Wire(j, i)) /\ net[j][i] \in Seq(Message)
  BY <1>1
<1>3. /\ Tail(net[j][i]) \in Seq(Wire(j, i)) /\ Tail(net[j][i]) \in Seq(Message)
      /\ Head(net[j][i]) \in Wire(j, i)
  BY <1>2, HeadTailProperties
<1>4. n = [net EXCEPT ![j] = [net[j] EXCEPT ![i] = Tail(net[j][i])]]
  BY <1>1
<1> QED BY <1>1, <1>3, <1>4

----------------------------------------------------------------------------
(* The actions.                                                            *)

\* A restart takes up the stored term and vote, which are the peer's own.
LEMMA RestartInv ==
  ASSUME Inv, NEW i \in Server, NEW d, DiskOK(d), RestartFrom(i, d),
         d.hs.term >= node[i].term,
         d.hs.term = node[i].term => node[i].vote \in {Nil, d.hs.vote},
         net' \in [Server -> [Server -> Seq(Message)]],
         \A a, b \in Server : net'[a][b] \in Seq(Wire(a, b)),
         UNCHANGED <<late, campaigns, proposals, beats, history>>
  PROVE  Inv'
<1>0. PICK p : p = NewPeer(i, d)
  BY Zenon
<1>1. /\ node \in [Server -> Peer] /\ disk \in [Server -> DiskType]
      /\ task \in [Server -> SnapType] /\ lastSnap \in [Server -> Nat]
      /\ applied \in [Server -> Nat] /\ sm \in [Server -> SUBSET Entry]
      /\ grants \in SUBSET (Server \X Nat \X Server) /\ crashes \in Nat
  BY Zenon DEF Inv, TypeOK
<1>2. /\ Idle(p, {}) /\ p.hs = Nil /\ p.id = i /\ p.term = d.hs.term /\ p.vote = d.hs.vote
  BY ONLY i \in Server, DiskOK(d), <1>0, NewPeerSound
<1>3. /\ crashes' = crashes + 1 /\ disk' = [disk EXCEPT ![i] = d]
      /\ node' = [node EXCEPT ![i] = p] /\ sm' = [sm EXCEPT ![i] = {}]
      /\ task' = [task EXCEPT ![i] = NoSnap]
      /\ lastSnap' = [lastSnap EXCEPT ![i] = d.snap.index]
      /\ applied' = [applied EXCEPT ![i] = 0]
  BY <1>0 DEF RestartFrom
<1>5. p \in Peer
  BY <1>2, Zenon DEF Idle, Sound
<1>6. /\ d.hs.term \in Nat /\ d.snap.index \in Nat /\ d \in DiskType
      /\ node[i].term \in Nat
  BY DiskFields, InvFacts, Zenon DEF DiskOK
<1>7. PeersOK'
  BY <1>1, <1>2, <1>3, Zenon DEF Inv, PeersOK
<1>9. /\ late' = late /\ campaigns' = campaigns /\ proposals' = proposals /\ beats' = beats
      /\ grants' = grants /\ leaders' = leaders /\ asked' = asked /\ answers' = answers
      /\ confused' = confused
  BY Zenon DEF history
<1>10. \A a, b \in Server : Wire(a, b)' = Wire(a, b)
  BY <1>9, Zenon DEF Wire
<1>11. WiresOK'
  <2>1. late' \in SUBSET Message /\ \A m \in late' : m \in Wire(m.from, m.to)'
    BY <1>9, <1>10, LateOK, Zenon
  <2> QED BY <1>10, <2>1, Zenon DEF WiresOK
<1>12. GrantsOK'
  <2> SUFFICES ASSUME NEW h \in grants
               PROVE  /\ h[2] <= node'[h[1]].term
                      /\ h[2] = node'[h[1]].term => h[3] = node'[h[1]].vote
    BY <1>9, Zenon DEF GrantsOK
  <2>1. /\ h[1] \in Server /\ h[2] \in Nat /\ h[3] \in Server
        /\ h[2] <= node[h[1]].term
        /\ h[2] = node[h[1]].term => h[3] = node[h[1]].vote
    BY <1>1, Zenon DEF Inv, GrantsOK
  <2>2. CASE h[1] = i
    <3>1. node'[h[1]].term = d.hs.term /\ node'[h[1]].vote = d.hs.vote
      BY <1>1, <1>2, <1>3, <2>2, Zenon
    <3>2. h[2] <= d.hs.term
      <4>1. PICK x, y, z : x = h[2] /\ y = node[i].term /\ z = d.hs.term
        BY Zenon
      <4>2. x \in Nat /\ y \in Nat /\ z \in Nat /\ x <= y /\ z >= y
        BY <1>6, <2>1, <2>2, <4>1, Zenon
      <4>3. x <= z
        BY ONLY <4>2
      <4> QED BY <4>1, <4>3, Zenon
    <3>3. h[2] = d.hs.term => h[2] = node[i].term /\ d.hs.term = node[i].term
      BY <1>6, <2>1, <2>2
    <3> QED BY <2>1, <2>2, <3>1, <3>2, <3>3, ServerAssumption, Zenon
  <2>3. CASE h[1] # i
    BY <1>1, <1>3, <2>1, <2>3, Zenon
  <2> QED BY <2>2, <2>3, Zenon
<1>13. VoteOnce'
  BY <1>9, Zenon DEF Inv, VoteOnce
<1>14. TypeOK'
  <2>1. AuxOK'
    <3>1. AuxOK
      BY Zenon DEF Inv, TypeOK, AuxOK
    <3>2. 0 \in Nat /\ crashes' \in Nat
      BY ONLY <1>1, <1>3
    <3>3. /\ task' \in [Server -> SnapType] /\ lastSnap' \in [Server -> Nat]
          /\ applied' \in [Server -> Nat]
      BY <1>1, <1>3, <1>6, <3>2, NoSnapType, Zenon
    <3> QED BY <1>9, <3>1, <3>2, <3>3, Zenon DEF AuxOK
  <2>2. /\ node' \in [Server -> Peer] /\ disk' \in [Server -> DiskType]
        /\ sm' \in [Server -> SUBSET Entry]
    BY <1>1, <1>3, <1>5, <1>6, Zenon
  <2> QED BY <1>9, <2>1, <2>2, Zenon DEF Inv, TypeOK, AuxOK
<1> QED BY <1>7, <1>11, <1>12, <1>13, <1>14, Zenon DEF Inv

\* Step keeps what a Ready needs, for any message on its way to the peer.
LEMMA StepEvolves ==
  ASSUME Inv, NEW i \in Server, NEW m, NEW j, m \in Wire(j, i), Alive(i),
         NEW r, r = Step(node[i], m)
  PROVE  r.state # "Panic" => Sound(r, KindsAfter(m)) /\ Evolves(node[i], r)
<1> SUFFICES ASSUME r.state # "Panic"
             PROVE  Sound(r, KindsAfter(m)) /\ Evolves(node[i], r)
  OBVIOUS
<1>1. PICK a : a = node[i]
  BY Zenon
<1>2. Idle(a, {}) /\ a.id = i /\ a.state # "Panic" /\ r = Step(a, m)
  BY <1>1, InvFacts, Zenon DEF Alive
<1>3. Bounded(m) /\ m.to = a.id
  BY <1>2, Zenon DEF Wire
<1>4. Sound(r, KindsAfter(m)) /\ Evolves(a, r)
  BY ONLY <1>2, <1>3, r.state # "Panic", StepSound, Zenon
<1> QED BY <1>1, <1>4, Zenon

\* An election timeout preserves Inv.
LEMMA CampaignInv ==
  ASSUME Inv, NEW i \in Server, Campaign(i)
  PROVE  Inv'
<1>1. PICK a, r : a = node[i] /\ r = campaign(a)
  BY Zenon
<1>2. Idle(a, CampaignKinds) /\ a.id = i /\ a.term \in Nat
  BY <1>1, InvFacts, Zenon
<1>3. /\ Sound(r, CampaignKinds) /\ r.id = a.id /\ r.term = a.term + 1 /\ r.hs # Nil
  BY ONLY <1>1, <1>2, CampaignSound
<1>4. Evolves(a, r)
  BY <1>2, <1>3 DEF Evolves
<1>5. AuxOK'
  <2>1. AuxOK
    BY ONLY Inv, i \in Server, InvFacts, Zenon
  <2>2. /\ UNCHANGED <<task, lastSnap, applied, asked, confused, crashes, proposals, beats>>
        /\ campaigns' = campaigns + 1
    BY DEF Campaign
  <2> QED BY ONLY <2>1, <2>2 DEF AuxOK
<1>6. handleReady(i, r, disk[i], net) /\ late' = late
  BY <1>1, Zenon DEF Campaign
<1>7. Sound(r, CampaignKinds) /\ Evolves(node[i], r)
  BY <1>1, <1>3, <1>4, Zenon
<1> QED BY <1>5, <1>6, <1>7, InvFacts, EventInv, Zenon

\* The Ready of a restored peer, processed at a tick, preserves Inv.
LEMMA TickInv ==
  ASSUME Inv, NEW i \in Server, Tick(i)
  PROVE  Inv'
<1>1. PICK r : r = node[i]
  BY Zenon
<1>2. Sound(r, AppKinds) /\ r.hs = Nil /\ r.term \in Nat
  BY <1>1, InvFacts, Zenon
<1>3. Evolves(r, r)
  BY ONLY <1>2 DEF Evolves
<1>4. AuxOK'
  BY InvFacts, Zenon DEF AuxOK, Tick, counts
<1>5. handleReady(i, r, disk[i], net) /\ late' = late
  BY <1>1, Zenon DEF Tick
<1>6. Sound(r, AppKinds) /\ Evolves(node[i], r)
  BY <1>1, <1>2, <1>3, Zenon
<1> QED BY <1>4, <1>5, <1>6, InvFacts, EventInv, Zenon

\* A heartbeat preserves Inv.
LEMMA LeaderTickInv ==
  ASSUME Inv, NEW i \in Server, LeaderTick(i)
  PROVE  Inv'
<1>1. PICK a, r : a = node[i] /\ r = Heartbeat(a)
  OBVIOUS
<1>2. Sound(a, AppKinds)
  BY <1>1, InvFacts, Zenon
<1>3. Sound(r, AppKinds) /\ Keeps(a, r)
  BY ONLY <1>1, <1>2, HeartbeatSound, Zenon
<1>4. Evolves(a, r)
  BY ONLY <1>2, <1>3, KeepsEvolves
<1>5. AuxOK'
  <2>1. AuxOK
    BY ONLY Inv, i \in Server, InvFacts, Zenon
  <2>2. /\ UNCHANGED <<task, lastSnap, applied, asked, confused, crashes, campaigns, proposals>>
        /\ beats' = beats + 1
    BY DEF LeaderTick
  <2> QED BY ONLY <2>1, <2>2 DEF AuxOK
<1>6. handleReady(i, r, disk[i], net) /\ late' = late
  BY <1>1, Zenon DEF LeaderTick
<1>7. Sound(r, AppKinds) /\ Evolves(node[i], r)
  BY <1>1, <1>3, <1>4, Zenon
<1> QED BY <1>5, <1>6, <1>7, InvFacts, EventInv, Zenon

\* A proposal preserves Inv.
LEMMA ProposeInv ==
  ASSUME Inv, NEW i \in Server, NEW v \in Value, Propose(i, v)
  PROVE  Inv'
<1>1. PICK a, r : a = node[i] /\ r = appendEntry(a, v)
  BY Zenon
<1>2. Sound(a, AppKinds)
  BY <1>1, InvFacts, Zenon
<1>3. Sound(r, AppKinds) /\ Keeps(a, r)
  BY <1>1, <1>2, AppendEntrySound, Zenon
<1>4. Evolves(a, r)
  BY ONLY <1>2, <1>3, KeepsEvolves, Zenon
<1>5. AuxOK'
  <2>1. AuxOK
    BY ONLY Inv, i \in Server, InvFacts, Zenon
  <2>2. /\ UNCHANGED <<task, lastSnap, applied, asked, confused, crashes, campaigns, beats>>
        /\ proposals' = proposals + 1
    BY DEF Propose
  <2> QED BY ONLY <2>1, <2>2 DEF AuxOK
<1>6. handleReady(i, r, disk[i], net) /\ late' = late
  BY <1>1, Zenon DEF Propose
<1>7. Sound(r, AppKinds) /\ Evolves(node[i], r)
  BY <1>1, <1>3, <1>4, Zenon
<1> QED BY <1>5, <1>6, <1>7, InvFacts, EventInv, Zenon

\* The record of confused candidates keeps its type and only grows.
LEMMA NoteVoteType ==
  ASSUME Inv, NEW m \in Message, NoteVote(m)
  PROVE  confused' \in SUBSET (Nat \X Server) /\ confused \subseteq confused'
<1>1. m.to \in Server
  BY MsgFields, Zenon
<1>2. node[m.to].term \in Nat /\ confused \in SUBSET (Nat \X Server)
  BY <1>1, InvFacts, Zenon DEF AuxOK
<1> QED BY <1>1, <1>2 DEF NoteVote

\* The delivery of a message preserves Inv.
LEMMA DeliverInv ==
  ASSUME Inv, NEW i \in Server, NEW j \in Server, NEW type, Deliver(i, j, type)
  PROVE  Inv'
<1>1. PICK n, m, r : /\ n = [net EXCEPT ![j][i] = Tail(@)] /\ m = Head(net[j][i])
                     /\ r = Step(node[i], m)
  BY Zenon
<1>2. /\ net[j][i] # <<>> /\ Alive(i) /\ handleReady(i, r, disk[i], n) /\ late' = late
  BY <1>1 DEF Deliver
<1>3. /\ n \in [Server -> [Server -> Seq(Message)]]
      /\ \A a, b \in Server : n[a][b] \in Seq(Wire(a, b))
      /\ m \in Wire(j, i)
  BY <1>1, <1>2, PopOK, Zenon
<1>4. r.state # "Panic" => Sound(r, KindsAfter(m)) /\ Evolves(node[i], r)
  BY <1>1, <1>2, <1>3, StepEvolves, Zenon
<1>5. AuxOK'
  <2>1. confused' \in SUBSET (Nat \X Server)
    BY <1>1, <1>3, NoteVoteType, Zenon DEF Deliver, Wire
  <2> QED BY <2>1, InvFacts, Zenon DEF AuxOK, Deliver, counts
<1>6. PICK K, d : K = KindsAfter(m) /\ d = disk[i]
  OBVIOUS
<1>7. DiskOK(d) /\ d.hs = disk[i].hs /\ handleReady(i, r, d, n) /\ late' \subseteq late
  BY <1>2, <1>6, InvFacts, Zenon
<1>8. r.state # "Panic" => Sound(r, K) /\ Evolves(node[i], r)
  BY <1>4, <1>6, Zenon
<1> QED BY ONLY Inv, i \in Server, <1>3, <1>5, <1>7, <1>8, EventInv, Zenon

\* The arrival of a late message preserves Inv.
LEMMA ReceiveLateInv ==
  ASSUME Inv, NEW m \in late, ReceiveLate(m)
  PROVE  Inv'
<1>1. PICK i, r : i = m.to /\ r = Step(node[i], m)
  BY Zenon
<1>2. m \in Message /\ m \in Wire(m.from, i)
  BY <1>1, Zenon DEF Inv, TypeOK, WiresOK
<1>3. i \in Server
  BY <1>1, <1>2, MsgFields, Zenon
<1>4. Alive(i) /\ handleReady(i, r, disk[i], net) /\ late' \subseteq late
  BY <1>1, Zenon DEF ReceiveLate
<1>5. r.state # "Panic" => Sound(r, KindsAfter(m)) /\ Evolves(node[i], r)
  BY <1>1, <1>2, <1>3, <1>4, StepEvolves, Zenon
<1>6. AuxOK'
  <2>1. confused' \in SUBSET (Nat \X Server)
    BY <1>2, NoteVoteType, Zenon DEF ReceiveLate
  <2> QED BY <1>3, <2>1, InvFacts, Zenon DEF AuxOK, ReceiveLate, counts
<1> QED BY <1>3, <1>4, <1>5, <1>6, InvFacts, EventInv, Zenon

\* The highest commit index that a new read is asked to cover is a number.
LEMMA HighestCommit ==
  ASSUME Inv, NEW S, S = {node[j].commit : j \in Server}
  PROVE  (CHOOSE c \in S : \A j \in Server : node[j].commit <= c) \in Nat
<1> DEFINE f == [j \in Server |-> node[j].commit]
<1>1. S \subseteq Nat /\ S \subseteq Int /\ S # {}
  <2>1. \A j \in Server : node[j].commit \in Nat
    BY InvFacts, SoundFields, Zenon
  <2> QED BY <2>1, ServerAssumption
<1>2. IsFiniteSet(S)
  <2>1. f \in Surjection(Server, S)
    BY Zenon DEF Surjection
  <2> QED BY <2>1, ServerAssumption, FS_Surjection, Zenon
<1>3. PICK x \in S : \A y \in S : y <= x
  BY <1>1, <1>2, LargestExists, Zenon
<1>4. \A j \in Server : node[j].commit <= x
  BY <1>3
<1> QED BY <1>1, <1>3, <1>4, Zenon

\* The start of a linearizable read preserves Inv.
LEMMA StartReadInv ==
  ASSUME Inv, NEW i \in Server, NEW q \in ReadId, StartRead(i, q)
  PROVE  Inv'
<1>1. PICK a, r : a = node[i] /\ r = ReadIndex(a, q)
  OBVIOUS
<1>2. Sound(a, AppKinds)
  BY <1>1, InvFacts, Zenon
<1>3. Sound(r, AppKinds) /\ Keeps(a, r)
  BY <1>1, <1>2, ReadIndexSound
<1>4. Evolves(a, r)
  BY ONLY <1>2, <1>3, KeepsEvolves
<1>5. AuxOK'
  <2>1. PICK c \in Nat : asked' = [asked EXCEPT ![q] = c]
    BY HighestCommit, Zenon DEF StartRead
  <2> QED BY <2>1, InvFacts, ZenonT(40) DEF AuxOK, StartRead, counts
<1>6. handleReady(i, r, disk[i], net) /\ late' = late
  BY <1>1 DEF StartRead
<1>7. Sound(r, AppKinds) /\ Evolves(node[i], r)
  BY <1>1, <1>3, <1>4
<1> QED BY <1>5, <1>6, <1>7, InvFacts, EventInv, Zenon

\* A local snapshot (saveSnapshotAndCompact) preserves Inv.
LEMMA SnapshotTaskInv ==
  ASSUME Inv, NEW i \in Server, SnapshotTask(i)
  PROVE  Inv'
<1>1. PICK a, x, k, d, r :
        /\ a = node[i] /\ k = task[i].index
        /\ x = SaveSnapshot(disk[i], [task[i] EXCEPT !.term = node[i].term])
        /\ d = Compact(x, k) /\ r = Snapshot(a, k, task[i].data)
  OBVIOUS
<1>2. /\ Sound(a, {}) /\ a.term = disk[i].hs.term /\ a.term \in Nat /\ DiskOK(disk[i])
  BY <1>1, InvFacts, Zenon
<1>3. task[i] \in SnapType /\ k \in Nat /\ task[i].data \in SUBSET Entry
  BY <1>1 DEF Inv, TypeOK, SnapType
<1>4. Sound(r, {}) /\ Keeps(a, r)
  BY ONLY <1>1, <1>2, <1>3, SnapshotSound
<1>5. Evolves(a, r)
  BY ONLY <1>2, <1>4, KeepsEvolves, Zenon
<1>6. DiskOK(x) /\ x.hs = disk[i].hs
  <2>1. PICK sn : sn = [task[i] EXCEPT !.term = node[i].term]
    BY Zenon
  <2>2. sn \in SnapType /\ sn.term = a.term
    BY <1>1, <1>2, <1>3, <2>1 DEF SnapType
  <2>3. PICK D : D = disk[i]
    OBVIOUS
  <2>4. DiskOK(D) /\ sn.term = D.hs.term /\ x = SaveSnapshot(D, sn)
    BY <1>1, <1>2, <2>1, <2>2, <2>3, Zenon
  <2>5. DiskOK(x) /\ x.hs = D.hs
    BY ONLY <1>2, <2>2, <2>4 DEF SaveSnapshot, DiskOK, DiskType, SnapType
  <2> QED BY <2>3, <2>5, Zenon
<1>7. DiskOK(d) /\ d.hs = disk[i].hs
  <2>1. d = [x EXCEPT !.ents = {e \in x.ents : e.index >= k}]
    BY <1>1, Zenon DEF Compact
  <2> QED BY <1>6, <2>1, Zenon DEF DiskOK, DiskType
<1>8. handleReady(i, r, d, net) /\ late' = late
  BY <1>1, Zenon DEF SnapshotTask
<1>9. AuxOK'
  <2>1. AuxOK
    BY InvFacts, Zenon
  <2>2. /\ task' = [task EXCEPT ![i] = NoSnap] /\ lastSnap' = [lastSnap EXCEPT ![i] = k]
        /\ UNCHANGED <<applied, crashes, campaigns, proposals, beats, asked, confused>>
    BY <1>1, Zenon DEF SnapshotTask, counts
  <2> QED BY <1>3, <2>1, <2>2, NoSnapType, Zenon DEF AuxOK
<1>10. Sound(r, {}) /\ Evolves(node[i], r)
  BY <1>1, <1>4, <1>5, Zenon
<1> QED BY <1>7, <1>8, <1>9, <1>10, InvFacts, EventInv, Zenon

\* Dropping a read round (CancelReadIndex) preserves Inv.
LEMMA CancelReadInv ==
  ASSUME Inv, NEW i \in Server, NEW q \in ReadId, CancelRead(i, q)
  PROVE  Inv'
<1>1. PICK a, r : a = node[i] /\ r = CancelReadIndex(a, q)
  OBVIOUS
<1>2. Sound(a, AppKinds)
  BY <1>1, InvFacts, Zenon
<1>3. Sound(r, AppKinds) /\ Keeps(a, r)
  BY <1>1, <1>2, ReadIndexSound
<1>4. Evolves(a, r)
  BY ONLY <1>2, <1>3, KeepsEvolves
<1>5. AuxOK'
  BY InvFacts, Zenon DEF AuxOK, CancelRead, counts
<1>6. handleReady(i, r, disk[i], net) /\ late' = late
  BY <1>1, Zenon DEF CancelRead
<1>7. Sound(r, AppKinds) /\ Evolves(node[i], r)
  BY <1>1, <1>3, <1>4
<1> QED BY <1>5, <1>6, <1>7, InvFacts, EventInv, Zenon

\* Steps that only move or drop messages, or queue a local snapshot.
LEMMA QuietInv ==
  ASSUME Inv, UNCHANGED <<node, disk, sm, history>>, AuxOK',
         net' \in [Server -> [Server -> Seq(Message)]],
         \A a, b \in Server : net'[a][b] \in Seq(Wire(a, b)),
         \A m \in late' : m \in Wire(m.from, m.to)
  PROVE  Inv'
<1>1. \A a, b : Wire(a, b)' = Wire(a, b)
  BY Zenon DEF Wire, history
<1>2. late' \in SUBSET Message
  BY Zenon DEF Wire
<1>3. WiresOK'
  BY <1>1 DEF WiresOK
<1>4. TypeOK'
  BY <1>2, Zenon DEF Inv, TypeOK, AuxOK, history
<1>5. PeersOK' /\ GrantsOK' /\ VoteOnce'
  BY DEF Inv, PeersOK, GrantsOK, VoteOnce, history
<1> QED BY <1>3, <1>4, <1>5, Zenon DEF Inv

\* The apply worker's snapshot trigger preserves Inv.
LEMMA BeginSnapshotInv ==
  ASSUME Inv, NEW i \in Server, NEW k \in 1 .. node[i].cursor, BeginSnapshot(i, k)
  PROVE  Inv'
<1>1. node[i].cursor \in Nat
  BY InvFacts, SoundFields, Zenon
<1>2. k \in Nat
  BY <1>1
<1>3. sm[i] \subseteq Entry
  BY Zenon DEF Inv, TypeOK
<1>4. PICK sn : sn = [index |-> k, term |-> 0, data |-> {e \in sm[i] : e.index <= k}]
  BY Zenon
<1>5. sn \in SnapType
  BY <1>2, <1>3, <1>4 DEF SnapType
<1>6. AuxOK'
  <2>1. AuxOK
    BY InvFacts, Zenon
  <2>2. /\ task' = [task EXCEPT ![i] = sn] /\ applied' = [applied EXCEPT ![i] = k]
        /\ UNCHANGED <<lastSnap, crashes, campaigns, proposals, beats, asked, confused>>
    BY <1>4, Zenon DEF BeginSnapshot, counts, history
  <2> QED BY <1>2, <1>5, <2>1, <2>2 DEF AuxOK
<1>7. UNCHANGED <<node, disk, sm, history, net, late>>
  BY Zenon DEF BeginSnapshot
<1>8. /\ net' \in [Server -> [Server -> Seq(Message)]]
      /\ \A a, b \in Server : net'[a][b] \in Seq(Wire(a, b))
  BY <1>7, InvFacts, Zenon
<1>9. \A m \in late' : m \in Wire(m.from, m.to)
  BY <1>7, Zenon DEF Inv, WiresOK
<1> QED BY <1>6, <1>7, <1>8, <1>9, QuietInv, Zenon

\* Losing or delaying a message preserves Inv.
LEMMA LoseInv ==
  ASSUME Inv, NEW i \in Server, NEW j \in Server, Lose(i, j) \/ Delay(i, j)
  PROVE  Inv'
<1>1. PICK n, m : n = [net EXCEPT ![i][j] = Tail(@)] /\ m = Head(net[i][j])
  BY Zenon
<1>2. /\ net[i][j] # <<>> /\ net' = n /\ late' \subseteq late \cup {m}
      /\ UNCHANGED <<node, disk, sm, history>>
      /\ UNCHANGED <<task, lastSnap, applied, crashes, campaigns, proposals, beats, asked,
                     confused>>
  BY <1>1 DEF Lose, Delay, store, history, counts
<1>3. /\ n \in [Server -> [Server -> Seq(Message)]]
      /\ \A a, b \in Server : n[a][b] \in Seq(Wire(a, b))
      /\ m \in Wire(i, j)
  BY <1>1, <1>2, PopOK, Zenon
<1>4. \A x \in late' : x \in Wire(x.from, x.to)
  <2>1. m.from = i /\ m.to = j
    BY <1>3, Zenon DEF Wire
  <2> QED BY <1>2, <1>3, <2>1, Zenon DEF Inv, WiresOK
<1>5. AuxOK'
  BY <1>2, InvFacts, Zenon DEF AuxOK
<1> QED BY <1>2, <1>3, <1>4, <1>5, QuietInv, Zenon

\* A crash and restart preserves Inv.
LEMMA CrashInv ==
  ASSUME Inv, NEW i \in Server, Crash(i)
  PROVE  Inv'
<1>1. PICK d : d = disk[i]
  OBVIOUS
<1>2. /\ DiskOK(d) /\ d.hs.term >= node[i].term /\ node[i].vote = d.hs.vote
  BY <1>1, InvFacts
<1>3. RestartFrom(i, d) /\ net' = net /\ UNCHANGED <<late, campaigns, proposals, beats, history>>
  BY <1>1, Zenon DEF Crash
<1>4. /\ net' \in [Server -> [Server -> Seq(Message)]]
      /\ \A a, b \in Server : net'[a][b] \in Seq(Wire(a, b))
  BY <1>3, InvFacts, Zenon
<1> QED BY <1>2, <1>3, <1>4, RestartInv, Zenon

\* A crash between SaveHardState and SaveEntries preserves Inv.
LEMMA CrashInPersistInv ==
  ASSUME Inv, NEW i \in Server, NEW j \in Server, CrashInPersist(i, j)
  PROVE  Inv'
<1>1. PICK n, m, a, r, D, d :
        /\ n = [net EXCEPT ![j][i] = Tail(@)] /\ m = Head(net[j][i]) /\ a = node[i]
        /\ r = Step(a, m) /\ D = disk[i] /\ d = SaveHardState(D, r.hs)
  BY ZenonT(40)
<1>2. /\ net[j][i] # <<>> /\ Alive(i) /\ net' = n /\ r.state # "Panic"
      /\ RestartFrom(i, d) /\ UNCHANGED <<late, campaigns, proposals, beats, history>>
  BY <1>1 DEF CrashInPersist
<1>3. /\ n \in [Server -> [Server -> Seq(Message)]]
      /\ \A x, y \in Server : n[x][y] \in Seq(Wire(x, y))
      /\ m \in Wire(j, i)
  BY <1>1, <1>2, PopOK, Zenon
<1>4. Sound(r, KindsAfter(m)) /\ Evolves(a, r)
  BY <1>1, <1>2, <1>3, StepEvolves, Zenon
<1>5. /\ DiskOK(D) /\ D.hs.term = a.term /\ D.hs.vote = a.vote /\ a.term \in Nat
  BY <1>1, InvFacts
<1>6. /\ DiskOK(d) /\ d.hs.term = r.term /\ d.hs.vote = r.vote
  <2>1. PICK K : K = KindsAfter(m)
    BY Zenon
  <2>2. Sound(r, K) /\ Evolves(a, r) /\ d = SaveHardState(D, r.hs)
    BY <1>1, <1>4, <2>1, Zenon
  <2> QED BY ONLY <1>5, <2>2, SaveHardStateOK
<1>7. /\ d.hs.term >= node[i].term
      /\ d.hs.term = node[i].term => node[i].vote \in {Nil, d.hs.vote}
  BY <1>1, <1>4, <1>6, Zenon DEF Evolves
<1> QED BY <1>2, <1>3, <1>6, <1>7, RestartInv, Zenon

----------------------------------------------------------------------------
(* The theorems.                                                           *)

\* The group starts with fresh peers, empty storage and a silent network.
LEMMA InitInv == Init => Inv
<1> SUFFICES ASSUME Init  PROVE Inv
  BY Zenon
<1>1. \A i \in Server : /\ Idle(NewRaft(i), {}) /\ NewRaft(i).id = i /\ NewRaft(i).hs = Nil
                         /\ NewRaft(i).term = 0 /\ NewRaft(i).vote = Nil
                         /\ NewRaft(i) \in Peer
  <2> TAKE i \in Server
  <2>1. PICK s : s = NewRaft(i)
    BY Zenon
  <2>2. Idle(s, {}) /\ s.id = i /\ s.hs = Nil /\ s.term = 0 /\ s.vote = Nil
    BY <2>1, NewRaftSound, Zenon
  <2>3. s \in Peer
    BY <2>2, Zenon DEF Idle, Sound
  <2> QED BY <2>1, <2>2, <2>3
<1>2. DiskOK(EmptyDisk) /\ EmptyDisk.hs.term = 0 /\ EmptyDisk.hs.vote = Nil
  <2>1. ZeroState \in HardState /\ ZeroState.term = 0 /\ ZeroState.vote = Nil
    BY ONLY TRUE DEF ZeroState, HardState
  <2>2. NoSnap \in SnapType
    BY NoSnapType, Zenon
  <2>3. /\ EmptyDisk \in DiskType /\ EmptyDisk.hs = ZeroState /\ EmptyDisk.ents = {}
        /\ EmptyDisk.snap = NoSnap
    BY ONLY <2>1, <2>2 DEF EmptyDisk, DiskType
  <2> QED BY ONLY <2>1, <2>3 DEF DiskOK, NoSnap
<1>3. PeersOK
  BY <1>1, <1>2, Zenon DEF Init, PeersOK
<1>4. WiresOK
  BY EmptySeq, Zenon DEF Init, WiresOK
<1>5. GrantsOK /\ VoteOnce
  BY Zenon DEF Init, GrantsOK, VoteOnce
<1>6. TypeOK
  <2>1. EmptyDisk \in DiskType
    BY <1>2, Zenon DEF DiskOK
  <2>2. net \in [Server -> [Server -> Seq(Message)]]
    BY EmptySeq, Zenon DEF Init
  <2> QED BY <1>1, <2>1, <2>2, NoSnapType, Zenon DEF Init, TypeOK
<1> QED BY <1>3, <1>4, <1>5, <1>6, Zenon DEF Inv

\* Every action of the group preserves the invariant.
LEMMA NextInv == Inv /\ [Next]_vars => Inv'
<1> SUFFICES ASSUME Inv, [Next]_vars  PROVE Inv'
  OBVIOUS
<1>0. ASSUME NEW i \in Server, Tick(i)  PROVE Inv'
  BY <1>0, TickInv, Zenon
<1>1. ASSUME NEW i \in Server, Campaign(i)  PROVE Inv'
  BY <1>1, CampaignInv, Zenon
<1>2. ASSUME NEW i \in Server, LeaderTick(i)  PROVE Inv'
  BY <1>2, LeaderTickInv, Zenon
<1>3. ASSUME NEW i \in Server, SnapshotTask(i)  PROVE Inv'
  BY <1>3, SnapshotTaskInv
<1>4. ASSUME NEW i \in Server, Crash(i)  PROVE Inv'
  BY <1>4, CrashInv
<1>5. ASSUME NEW i \in Server, NEW v \in Value, Propose(i, v)  PROVE Inv'
  BY <1>5, ProposeInv, Zenon
<1>6. ASSUME NEW i \in Server, NEW j \in Server,
             \/ ReceiveVote(i, j) \/ ReceiveVoteResp(i, j) \/ ReceiveApp(i, j)
             \/ ReceiveAppResp(i, j) \/ ReceiveSnap(i, j) \/ ReceiveSnapResp(i, j)
      PROVE  Inv'
  <2>1. \E type : Deliver(i, j, type)
    BY <1>6, Zenon DEF ReceiveVote, ReceiveVoteResp, ReceiveApp, ReceiveAppResp, ReceiveSnap,
                ReceiveSnapResp
  <2> QED BY <2>1, DeliverInv, Zenon
<1>7. ASSUME NEW i \in Server, NEW j \in Server, Lose(i, j) \/ Delay(i, j)  PROVE Inv'
  BY <1>7, LoseInv, Zenon
<1>8. ASSUME NEW i \in Server, NEW j \in Server, CrashInPersist(i, j)  PROVE Inv'
  BY <1>8, CrashInPersistInv, Zenon
<1>9. ASSUME NEW m \in late, ReceiveLate(m)  PROVE Inv'
  BY <1>9, ReceiveLateInv, Zenon
<1>10. ASSUME NEW i \in Server, NEW q \in ReadId, StartRead(i, q)  PROVE Inv'
  BY <1>10, StartReadInv
<1>11. ASSUME NEW i \in Server, NEW q \in ReadId, CancelRead(i, q)  PROVE Inv'
  BY <1>11, CancelReadInv
<1>12. ASSUME NEW i \in Server, NEW a \in 1 .. node[i].cursor, BeginSnapshot(i, a)
       PROVE  Inv'
  BY <1>12, BeginSnapshotInv, Zenon
<1>13. CASE UNCHANGED vars
  <2>1. UNCHANGED <<node, disk, sm, history, net, late, task, lastSnap, applied, crashes,
                    campaigns, proposals, beats, asked, confused>>
    BY <1>13, Zenon DEF vars, counts, store, history
  <2>2. PICK i : i \in Server
    BY ServerAssumption, Zenon
  <2>3. AuxOK /\ net \in [Server -> [Server -> Seq(Message)]]
        /\ \A a, b \in Server : net[a][b] \in Seq(Wire(a, b))
    BY <2>2, InvFacts, Zenon
  <2>4. AuxOK'
    BY <2>1, <2>3, Zenon DEF AuxOK
  <2>5. \A m \in late' : m \in Wire(m.from, m.to)
    BY <2>1 DEF Inv, WiresOK
  <2> QED BY <2>1, <2>3, <2>4, <2>5, QuietInv, Zenon
<1> QED BY <1>0, <1>1, <1>2, <1>3, <1>4, <1>5, <1>6, <1>7, <1>8, <1>9, <1>10, <1>11, <1>12, <1>13,
           Zenon
        DEF Next

\* The invariant holds throughout, whatever is lost, delayed or restarted.
THEOREM SpecInv == Spec => []Inv
BY InitInv, NextInv, PTL DEF Spec

\* Peers, storage, messages and history keep their types.
THEOREM SpecTypeOK == Spec => []TypeOK
<1>1. Inv => TypeOK
  BY Zenon DEF Inv
<1> QED BY <1>1, SpecInv, PTL

\* A peer casts at most one vote in a term, across crashes and restarts:
\* handleVote's vote is stored before the answer leaves (processReady).
THEOREM SpecVoteOnce == Spec => []VoteOnce
<1>1. Inv => VoteOnce
  BY DEF Inv
<1> QED BY <1>1, SpecInv, PTL
=============================================================================
