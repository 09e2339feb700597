------------------------- MODULE RaftElectionProofs -------------------------
(***************************************************************************)
(* Leaders of module Raft: who elects them, and how many a term may have,  *)
(* for every number of peers, of crashes, of late messages and of          *)
(* campaigns.                                                              *)
(***************************************************************************)
EXTENDS RaftProofs

----------------------------------------------------------------------------
(* Elections.  handleVoteResp does not compare terms, so a candidate may   *)
(* count a vote of an earlier campaign; the record of those that did tells *)
(* them from the others, whose votes were all cast in the term they lead.  *)

\* A candidate that counted no older vote counts only votes cast for it in its
\* term.
CandidatesOK ==
  \A i \in Server : node[i].state = "Candidate" /\ <<node[i].term, i>> \notin confused =>
    \A v \in Server : node[i].votes[v] = "granted" => <<v, node[i].term, i>> \in grants

LeadersOK == \A i \in Server : node[i].state = "Leader" => <<node[i].term, i>> \in leaders

Elected == CandidatesOK /\ LeadersOK /\ LeaderHasQuorum

\* The votes cast for i in term t.
Voters(t, i) == {v \in Server : <<v, t, i>> \in grants}

\* More votes only make a quorum larger.
LEMMA QuorumGrows ==
  ASSUME LeaderHasQuorum, grants \subseteq grants', confused \subseteq confused',
         \A l \in leaders' : \/ l \in leaders \cup confused'
                             \/ Cardinality(Voters(l[1], l[2])') >= quorum
  PROVE  LeaderHasQuorum'
<1> SUFFICES ASSUME NEW l \in leaders', l \notin confused'
             PROVE  Cardinality(Voters(l[1], l[2])') >= quorum
  BY DEF LeaderHasQuorum, Voters
<1>1. CASE l \in leaders
  <2>1. Cardinality(Voters(l[1], l[2])) >= quorum
    BY <1>1 DEF LeaderHasQuorum, Voters
  <2>2. /\ Voters(l[1], l[2]) \subseteq Voters(l[1], l[2])'
        /\ Voters(l[1], l[2])' \subseteq Server
    BY DEF Voters
  <2>3. PICK V, W : V = Voters(l[1], l[2]) /\ W = Voters(l[1], l[2])'
    OBVIOUS
  <2>4. IsFiniteSet(W)
    BY <2>2, <2>3, ServerAssumption, FS_Subset, Zenon
  <2>5. IsFiniteSet(V) /\ Cardinality(V) <= Cardinality(W)
    BY <2>2, <2>3, <2>4, FS_Subset, Zenon
  <2>6. Cardinality(V) \in Nat /\ Cardinality(W) \in Nat /\ quorum \in Nat
    BY <2>4, <2>5, ServerAssumption, FS_CardinalityType DEF quorum
  <2> QED BY <2>1, <2>3, <2>5, <2>6
<1>2. CASE l \notin leaders
  BY <1>2, Zenon
<1> QED BY <1>1, <1>2, Zenon

\* The peer p that the Ready of r leaves behind, and the history it publishes.
Outcome(i, r, p) ==
  /\ node' = [node EXCEPT ![i] = p] /\ node \in [Server -> Peer]
  /\ r.state # "Panic" =>
       /\ p.state = r.state /\ p.term = r.term /\ p.votes = r.votes
       /\ r.vote # Nil => <<i, r.term, r.vote>> \in grants'
       /\ leaders' \subseteq leaders \cup {<<r.term, i>>}
       /\ r.state = "Leader" => <<r.term, i>> \in leaders'
  /\ r.state = "Panic" => p.state = "Panic"
  /\ r.state # "Leader" => leaders' = leaders
  /\ grants \subseteq grants' /\ leaders \subseteq leaders'

\* handleReady has such an outcome.
LEMMA ReadyRole ==
  ASSUME Inv, NEW i \in Server, NEW K, NEW r, NEW d, NEW n, handleReady(i, r, d, n),
         r.state # "Panic" => Sound(r, K) /\ r.id = i
  PROVE  \E p : Outcome(i, r, p)
<1>1. node \in [Server -> Peer]
  BY DEF Inv, TypeOK
<1>2. CASE r.state = "Panic"
  <2>1. PICK p : p = [node[i] EXCEPT !.state = "Panic"]
    BY Zenon
  <2>2. node' = [node EXCEPT ![i] = p] /\ leaders' = leaders /\ grants' = grants
    BY <1>1, <1>2, <2>1 DEF handleReady
  <2>3. p.state = "Panic"
    BY <1>1, <2>1 DEF Peer
  <2> QED BY <1>1, <1>2, <2>2, <2>3, Zenon DEF Outcome
<1>3. CASE r.state # "Panic"
  <2>1. PICK p : p = Advance(r)
    OBVIOUS
  <2>2. p.state = r.state /\ p.term = r.term /\ p.votes = r.votes
    BY <1>3, <2>1, AdvanceSound, Zenon
  <2>3. /\ node' = [node EXCEPT ![i] = p]
        /\ grants' = IF r.vote = Nil THEN grants ELSE grants \cup {<<i, r.term, r.vote>>}
        /\ leaders' = IF r.state # "Leader" THEN leaders ELSE leaders \cup {<<r.term, i>>}
    BY <1>3, <2>1, Zenon DEF handleReady, Publish
  <2>4. Outcome(i, r, p)
    BY <1>1, <1>3, <2>2, <2>3, Zenon DEF Outcome
  <2> QED BY <2>4
<1> QED BY <1>2, <1>3, Zenon

\* A Ready keeps the election invariant when the peer's role is justified by
\* the votes cast.
LEMMA ReadyElected ==
  ASSUME Inv, Elected, NEW i \in Server, NEW K, NEW r, NEW d, NEW n, handleReady(i, r, d, n),
         r.state # "Panic" => Sound(r, K) /\ r.id = i, confused \subseteq confused',
         r.state = "Candidate" /\ <<r.term, i>> \notin confused' =>
           \A v \in Server : r.votes[v] = "granted" => <<v, r.term, i>> \in grants',
         r.state = "Leader" => \/ <<r.term, i>> \in leaders \cup confused'
                               \/ Cardinality(Voters(r.term, i)') >= quorum
  PROVE  Elected'
<1>0. PICK p : Outcome(i, r, p)
  BY ReadyRole, Zenon
<1>1. /\ node' = [node EXCEPT ![i] = p] /\ node \in [Server -> Peer]
      /\ r.state # "Panic" =>
           /\ p.state = r.state /\ p.term = r.term /\ p.votes = r.votes
           /\ r.vote # Nil => <<i, r.term, r.vote>> \in grants'
           /\ leaders' \subseteq leaders \cup {<<r.term, i>>}
           /\ r.state = "Leader" => <<r.term, i>> \in leaders'
      /\ r.state = "Panic" => p.state = "Panic"
      /\ r.state # "Leader" => leaders' = leaders
      /\ grants \subseteq grants' /\ leaders \subseteq leaders'
  BY <1>0 DEF Outcome
<1>2. CandidatesOK'
  BY <1>1, Zenon DEF Elected, CandidatesOK
<1>3. LeadersOK'
  BY <1>1, Zenon DEF Elected, LeadersOK
<1>4. \A l \in leaders' : \/ l \in leaders \cup confused'
                          \/ Cardinality(Voters(l[1], l[2])') >= quorum
  <2> SUFFICES ASSUME NEW l \in leaders', l \notin leaders, l \notin confused'
               PROVE  Cardinality(Voters(l[1], l[2])') >= quorum
    OBVIOUS
  <2>1. r.state = "Leader" /\ l = <<r.term, i>>
    BY <1>1
  <2>2. l[1] = r.term /\ l[2] = i
    BY <2>1, Zenon
  <2> QED BY <2>1, <2>2
<1>5. LeaderHasQuorum'
  BY <1>1, <1>4, QuorumGrows, Zenon DEF Elected
<1> QED BY <1>2, <1>3, <1>5, Zenon DEF Elected

\* An event that keeps the peer's role.
LEMMA KeepsElected ==
  ASSUME Inv, Elected, NEW i \in Server, NEW K, NEW r, NEW d, NEW n,
         Sound(r, K), Keeps(node[i], r), handleReady(i, r, d, n), confused' = confused
  PROVE  Elected'
<1>1. /\ r.id = i /\ r.state = node[i].state /\ r.term = node[i].term
      /\ r.votes = node[i].votes
  BY InvFacts, Zenon DEF Keeps
<1>2. PICK p : Outcome(i, r, p)
  BY <1>1, ReadyRole, Zenon
<1>3. r.state = "Candidate" /\ <<r.term, i>> \notin confused' =>
        \A v \in Server : r.votes[v] = "granted" => <<v, r.term, i>> \in grants'
  BY <1>1, <1>2, Zenon DEF Outcome, Elected, CandidatesOK
<1>4. r.state = "Leader" => <<r.term, i>> \in leaders
  BY <1>1, Zenon DEF Elected, LeadersOK
<1> QED BY <1>1, <1>3, <1>4, ReadyElected, Zenon

\* Step: a candidate that counts a vote of another term is recorded.
LEMMA StepElected ==
  ASSUME Inv, Elected, NEW i \in Server, NEW j \in Server, NEW m,
         m \in Wire(j, i), Alive(i), NoteVote(m),
         NEW r, r = Step(node[i], m), NEW d, NEW n, handleReady(i, r, d, n)
  PROVE  Elected'
<1>1. PICK x, K : x = node[i] /\ K = KindsAfter(m)
  BY Zenon
<1>2. /\ Idle(x, {}) /\ x.id = i /\ x.term \in Nat /\ x.state # "Panic" /\ r = Step(x, m)
  BY <1>1, InvFacts, ZenonT(40) DEF Alive
<1>3. /\ Bounded(m) /\ m.to = x.id /\ m.from = j /\ m.to = i /\ m.term \in Nat
  BY <1>2, MsgFields DEF Wire
<1>4. r.state # "Panic" => Sound(r, K) /\ Evolves(x, r) /\ Roles(x, m, r)
  BY ONLY <1>1, <1>2, <1>3, StepSound
<1>5. r.state # "Panic" => Sound(r, K) /\ r.id = i
  BY <1>2, <1>4, Zenon DEF Evolves
<1>6. PICK p : Outcome(i, r, p)
  BY <1>5, ReadyRole, Zenon
<1>7. confused \subseteq confused'
  BY NoteVoteType, Zenon DEF Wire
<1>8. ASSUME r.state \in {"Candidate", "Leader"}, x.state = "Candidate",
             <<r.term, i>> \notin confused', NEW v \in Server, r.votes[v] = "granted"
      PROVE  <<v, r.term, i>> \in grants'
  <2>1. r.term = x.term /\ (x.votes[v] = "granted" \/ Counts(x, m, v))
    BY <1>4, <1>8, Zenon DEF Roles
  <2>2. CASE x.votes[v] = "granted"
    BY <1>1, <1>6, <1>7, <1>8, <2>1, <2>2, Zenon DEF Outcome, Elected, CandidatesOK
  <2>3. CASE Counts(x, m, v)
    <3>1. m.type = "MsgVoteResp" /\ ~m.reject /\ v = j /\ m.term <= x.term
      BY <1>3, <2>3, Zenon DEF Counts
    <3>2. ~(m.term < x.term)
      BY <1>1, <1>3, <1>8, <2>1, <3>1, Zenon DEF NoteVote
    <3>3. m.term = x.term
      BY ONLY <1>2, <1>3, <3>1, <3>2
    <3>4. <<j, m.term, i>> \in grants
      BY <3>1, Zenon DEF Wire
    <3> QED BY <1>6, <2>1, <3>1, <3>3, <3>4, Zenon DEF Outcome
  <2> QED BY <2>1, <2>2, <2>3, Zenon
<1>9. r.state = "Candidate" /\ <<r.term, i>> \notin confused' =>
        \A v \in Server : r.votes[v] = "granted" => <<v, r.term, i>> \in grants'
  BY <1>4, <1>8, Zenon DEF Roles
<1>10. r.state = "Leader" => \/ <<r.term, i>> \in leaders \cup confused'
                             \/ Cardinality(Voters(r.term, i)') >= quorum
  <2> SUFFICES ASSUME r.state = "Leader", <<r.term, i>> \notin leaders,
                      <<r.term, i>> \notin confused'
               PROVE  Cardinality(Voters(r.term, i)') >= quorum
    BY Zenon
  <2>1. x.state \in {"Candidate", "Leader"} /\ r.term = x.term
    BY <1>4, Zenon DEF Roles
  <2>2. x.state = "Candidate"
    BY <1>1, <2>1, Zenon DEF Elected, LeadersOK
  <2>3. PICK G, V : G = {v \in Server : r.votes[v] = "granted"} /\ V = Voters(r.term, i)'
    BY Zenon
  <2>4. Cardinality(G) >= quorum
    BY <1>4, <2>2, <2>3, Zenon DEF Roles
  <2>5. G \subseteq V /\ V \subseteq Server
    BY <1>8, <2>2, <2>3, Zenon DEF Voters
  <2>6. IsFiniteSet(V)
    BY <2>5, ServerAssumption, FS_Subset, Zenon
  <2>7. IsFiniteSet(G) /\ Cardinality(G) <= Cardinality(V)
    BY <2>5, <2>6, FS_Subset, Zenon
  <2>8. Cardinality(G) \in Nat /\ Cardinality(V) \in Nat /\ quorum \in Nat
    BY <2>6, <2>7, ServerAssumption, FS_CardinalityType DEF quorum
  <2> QED BY <2>3, <2>4, <2>7, <2>8
<1> QED BY ONLY Zenon, Inv, Elected, i \in Server, handleReady(i, r, d, n), <1>5, <1>7, <1>9, <1>10,
                ReadyElected

\* A campaign counts the candidate's own vote and no other.
LEMMA CampaignElected ==
  ASSUME Inv, Elected, NEW i \in Server, Campaign(i)
  PROVE  Elected'
<1>1. PICK x, r, d, n : x = node[i] /\ r = campaign(x) /\ d = disk[i] /\ n = net
  BY Zenon
<1>2. Idle(x, CampaignKinds) /\ x.id = i
  BY <1>1, InvFacts
<1>3. /\ Sound(r, CampaignKinds) /\ r.id = x.id /\ r.vote = x.id
      /\ \/ r.state = "Leader" /\ Cardinality(Server) = 1
         \/ r.state = "Candidate" /\ \A v \in Server : r.votes[v] = "granted" => v = x.id
  BY ONLY <1>1, <1>2, CampaignSound
<1>4. handleReady(i, r, d, n) /\ confused' = confused
  BY <1>1, Zenon DEF Campaign
<1>5. r.state # "Panic" /\ r.id = i /\ r.vote = i /\ r.vote # Nil
  BY <1>2, <1>3, ServerAssumption, Zenon
<1>6. PICK p : Outcome(i, r, p)
  BY <1>3, <1>4, <1>5, ReadyRole, Zenon
<1>7. <<i, r.term, i>> \in grants'
  BY <1>5, <1>6, Zenon DEF Outcome
<1>8. r.state = "Candidate" =>
        \A v \in Server : r.votes[v] = "granted" => <<v, r.term, i>> \in grants'
  BY <1>2, <1>3, <1>7, Zenon
<1>9. r.state = "Leader" => Cardinality(Voters(r.term, i)') >= quorum
  <2> HAVE r.state = "Leader"
  <2>1. quorum = 1
    BY <1>3 DEF quorum
  <2>2. PICK V : V = Voters(r.term, i)'
    BY Zenon
  <2>3. {i} \subseteq V /\ V \subseteq Server
    BY <1>7, <2>2, Zenon DEF Voters
  <2>4. IsFiniteSet(V)
    BY <2>3, ServerAssumption, FS_Subset, Zenon
  <2>5. Cardinality({i}) <= Cardinality(V) /\ Cardinality({i}) = 1
    BY <2>3, <2>4, FS_Subset, FS_Singleton, Zenon
  <2>6. Cardinality(V) \in Nat
    BY <2>4, FS_CardinalityType
  <2> QED BY <2>1, <2>2, <2>5, <2>6, Zenon
<1> QED BY ONLY Zenon, Inv, Elected, i \in Server, <1>3, <1>4, <1>5, <1>8, <1>9, ReadyElected

\* Steps that publish nothing and promote nobody.
LEMMA QuietElected ==
  ASSUME Elected, grants' = grants, leaders' = leaders, confused' = confused,
         \A c \in Server : node'[c].state \in {"Candidate", "Leader"} => node'[c] = node[c]
  PROVE  Elected'
<1>1. CandidatesOK' /\ LeadersOK'
  BY Zenon DEF Elected, CandidatesOK, LeadersOK
<1>2. LeaderHasQuorum'
  BY Zenon DEF Elected, LeaderHasQuorum
<1> QED BY <1>1, <1>2, Zenon DEF Elected

\* A restart (NewPeer) makes nobody a leader and forgets no vote.
LEMMA RestartElected ==
  ASSUME Inv, Elected, NEW i \in Server, NEW d, DiskOK(d), RestartFrom(i, d),
         UNCHANGED history
  PROVE  Elected'
<1>1. PICK p : p = NewPeer(i, d)
  BY Zenon
<1>2. p.state = "Follower"
  BY ONLY i \in Server, DiskOK(d), <1>1, NewPeerSound
<1>3. node' = [node EXCEPT ![i] = p] /\ node \in [Server -> Peer]
  BY <1>1, Zenon DEF RestartFrom, Inv, TypeOK
<1>4. \A c \in Server : node'[c].state \in {"Candidate", "Leader"} => node'[c] = node[c]
  BY <1>2, <1>3, Zenon
<1>5. grants' = grants /\ leaders' = leaders /\ confused' = confused
  BY Zenon DEF history
<1> QED BY <1>4, <1>5, QuietElected, Zenon

\* Every action preserves the election invariant.
LEMMA NextElected == Inv /\ Elected /\ [Next]_vars => Elected'
<1> SUFFICES ASSUME Inv, Elected, [Next]_vars  PROVE Elected'
  OBVIOUS
<1>0. ASSUME NEW i \in Server, Tick(i)  PROVE Elected'
  <2>1. PICK r : r = node[i]
    BY Zenon
  <2>2. Sound(r, AppKinds) /\ Keeps(node[i], r)
    BY <2>1, InvFacts, Zenon DEF Keeps
  <2>3. handleReady(i, r, disk[i], net) /\ confused' = confused
    BY <1>0, <2>1, Zenon DEF Tick
  <2> QED BY <2>2, <2>3, KeepsElected, Zenon
<1>1. ASSUME NEW i \in Server, Campaign(i)  PROVE Elected'
  BY <1>1, CampaignElected, Zenon
<1>2. ASSUME NEW i \in Server, LeaderTick(i)  PROVE Elected'
  <2>1. PICK x, r : x = node[i] /\ r = Heartbeat(x)
    BY Zenon
  <2>2. Sound(x, AppKinds)
    BY <2>1, InvFacts, Zenon
  <2>3. Sound(r, AppKinds) /\ Keeps(x, r)
    BY ONLY <2>1, <2>2, HeartbeatSound
  <2>4. handleReady(i, r, disk[i], net) /\ confused' = confused
    BY <1>2, <2>1, Zenon DEF LeaderTick
  <2> QED BY <2>1, <2>3, <2>4, KeepsElected, Zenon
<1>3. ASSUME NEW i \in Server, NEW v \in Value, Propose(i, v)  PROVE Elected'
  <2>1. PICK x, r : x = node[i] /\ r = appendEntry(x, v)
    BY Zenon
  <2>2. Sound(x, AppKinds)
    BY <2>1, InvFacts, Zenon
  <2>3. Sound(r, AppKinds) /\ Keeps(x, r)
    BY <2>1, <2>2, AppendEntrySound
  <2>4. handleReady(i, r, disk[i], net) /\ confused' = confused
    BY <1>3, <2>1, Zenon DEF Propose
  <2> QED BY <2>1, <2>3, <2>4, KeepsElected, Zenon
<1>4. ASSUME NEW i \in Server, NEW q \in ReadId, StartRead(i, q)  PROVE Elected'
  <2>1. PICK x, r : x = node[i] /\ r = ReadIndex(x, q)
    OBVIOUS
  <2>2. Sound(x, AppKinds)
    BY <2>1, InvFacts
  <2>3. Sound(r, AppKinds) /\ Keeps(x, r)
    BY <2>1, <2>2, ReadIndexSound, Zenon
  <2>4. handleReady(i, r, disk[i], net) /\ confused' = confused
    BY <1>4, <2>1, Zenon DEF StartRead
  <2> QED BY <2>1, <2>3, <2>4, KeepsElected
<1>5. ASSUME NEW i \in Server, NEW q \in ReadId, CancelRead(i, q)  PROVE Elected'
  <2>1. PICK x, r : x = node[i] /\ r = CancelReadIndex(x, q)
    OBVIOUS
  <2>2. Sound(x, AppKinds)
    BY <2>1, InvFacts
  <2>3. Sound(r, AppKinds) /\ Keeps(x, r)
    BY <2>1, <2>2, ReadIndexSound, Zenon
  <2>4. handleReady(i, r, disk[i], net) /\ confused' = confused
    BY <1>5, <2>1, Zenon DEF CancelRead
  <2> QED BY <2>1, <2>3, <2>4, KeepsElected
<1>6. ASSUME NEW i \in Server, SnapshotTask(i)  PROVE Elected'
  <2>1. PICK x, r, k, D, d :
          /\ x = node[i] /\ k = task[i].index /\ D = task[i].data /\ r = Snapshot(x, k, D)
          /\ d = Compact(SaveSnapshot(disk[i], [task[i] EXCEPT !.term = node[i].term]), k)
    OBVIOUS
  <2>2. Sound(x, AppKinds)
    BY <2>1, InvFacts, Zenon
  <2>3. k \in Nat /\ D \in SUBSET Entry
    BY <2>1 DEF Inv, TypeOK, SnapType
  <2>4. Sound(r, AppKinds) /\ Keeps(x, r)
    BY ONLY <2>1, <2>2, <2>3, SnapshotSound
  <2>5. handleReady(i, r, d, net) /\ confused' = confused
    BY <1>6, <2>1, Zenon DEF SnapshotTask
  <2> QED BY <2>1, <2>4, <2>5, KeepsElected, Zenon
<1>7. ASSUME NEW i \in Server, NEW j \in Server, NEW type, Deliver(i, j, type)
      PROVE  Elected'
  <2>1. PICK n, m, r, d : /\ n = [net EXCEPT ![j][i] = Tail(@)] /\ m = Head(net[j][i])
                          /\ r = Step(node[i], m) /\ d = disk[i]
    BY Zenon
  <2>2. net[j][i] # <<>> /\ Alive(i) /\ handleReady(i, r, d, n) /\ NoteVote(m)
    BY <1>7, <2>1 DEF Deliver
  <2>3. m \in Wire(j, i)
    BY <2>1, <2>2, PopOK, Zenon
  <2>4. r = Step(node[i], m)
    BY <2>1
  <2> QED BY ONLY Inv, Elected, i \in Server, j \in Server, <2>2, <2>3, <2>4, StepElected, Zenon
<1>8. ASSUME NEW m \in late, ReceiveLate(m)  PROVE Elected'
  <2>1. PICK i, j, n, r, d : /\ i = m.to /\ j = m.from /\ n = net /\ d = disk[i]
                             /\ r = Step(node[i], m)
    BY Zenon
  <2>2. m \in Message /\ m \in Wire(j, i)
    BY <2>1, Zenon DEF Inv, TypeOK, WiresOK
  <2>3. i \in Server /\ j \in Server
    BY <2>1, <2>2, MsgFields, Zenon
  <2>4. Alive(i) /\ handleReady(i, r, d, n) /\ NoteVote(m)
    BY <1>8, <2>1, Zenon DEF ReceiveLate
  <2>5. r = Step(node[i], m)
    BY <2>1, Zenon
  <2> QED BY ONLY Inv, Elected, <2>2, <2>3, <2>4, <2>5, StepElected, Zenon
<1>9. ASSUME NEW i \in Server, Crash(i)  PROVE Elected'
  <2>1. PICK d : d = disk[i]
    BY Zenon
  <2>2. DiskOK(d) /\ RestartFrom(i, d) /\ UNCHANGED history
    BY <1>9, <2>1, InvFacts, Zenon DEF Crash
  <2> QED BY <2>2, RestartElected, Zenon
<1>10. ASSUME NEW i \in Server, NEW j \in Server, CrashInPersist(i, j)  PROVE Elected'
  <2>1. PICK m, x, r, D, d :
          /\ m = Head(net[j][i]) /\ x = node[i]
          /\ r = Step(x, m) /\ D = disk[i] /\ d = SaveHardState(D, r.hs)
    BY Zenon
  <2>2. /\ net[j][i] # <<>> /\ Alive(i) /\ r.state # "Panic"
        /\ RestartFrom(i, d) /\ UNCHANGED history
    BY <1>10, <2>1 DEF CrashInPersist
  <2>3. m \in Wire(j, i)
    BY <2>1, <2>2, PopOK
  <2>4. Sound(r, KindsAfter(m)) /\ Evolves(x, r)
    BY <2>1, <2>2, <2>3, StepEvolves
  <2>5. DiskOK(D) /\ D.hs.term = x.term /\ D.hs.vote = x.vote /\ x.term \in Nat
    BY <2>1, InvFacts, Zenon
  <2>6. DiskOK(d)
    <3>1. PICK K : K = KindsAfter(m)
      BY Zenon
    <3>2. Sound(r, K) /\ Evolves(x, r) /\ d = SaveHardState(D, r.hs)
      BY <2>1, <2>4, <3>1, Zenon
    <3> QED BY ONLY <2>5, <3>2, SaveHardStateOK
  <2> QED BY <2>2, <2>6, RestartElected, Zenon
<1>11. ASSUME UNCHANGED <<node, history>>  PROVE Elected'
  <2>1. grants' = grants /\ leaders' = leaders /\ confused' = confused
    BY <1>11, Zenon DEF history
  <2> QED BY <1>11, <2>1, QuietElected, Zenon
<1>12. ASSUME NEW i \in Server, NEW j \in Server, Lose(i, j) \/ Delay(i, j)  PROVE Elected'
  BY <1>11, <1>12, Zenon DEF Lose, Delay
<1>13. ASSUME NEW i \in Server, NEW a, BeginSnapshot(i, a)  PROVE Elected'
  BY <1>11, <1>13, Zenon DEF BeginSnapshot
<1>14. CASE UNCHANGED vars
  BY <1>11, <1>14, Zenon DEF vars
<1>15. ASSUME NEW i \in Server, NEW j \in Server,
              \/ ReceiveVote(i, j) \/ ReceiveVoteResp(i, j) \/ ReceiveApp(i, j)
              \/ ReceiveAppResp(i, j) \/ ReceiveSnap(i, j) \/ ReceiveSnapResp(i, j)
       PROVE  Elected'
  <2>1. \E type : Deliver(i, j, type)
    BY <1>15 DEF ReceiveVote, ReceiveVoteResp, ReceiveApp, ReceiveAppResp, ReceiveSnap,
                 ReceiveSnapResp
  <2> QED BY <1>7, <2>1, Zenon
<1> QED BY <1>0, <1>1, <1>2, <1>3, <1>4, <1>5, <1>6, <1>8, <1>9, <1>10, <1>12, <1>13, <1>14, <1>15,
           Zenon
        DEF Next

\* The election invariant holds initially.
LEMMA InitElected == Init => Elected
<1> SUFFICES ASSUME Init  PROVE Elected
  BY Zenon
<1>1. \A i \in Server : node[i].state = "Follower"
  <2> TAKE i \in Server
  <2>1. PICK s : s = NewRaft(i)
    BY Zenon
  <2>2. s.state = "Follower"
    BY <2>1, NewRaftSound, Zenon
  <2> QED BY <2>1, <2>2, Zenon DEF Init
<1>2. CandidatesOK /\ LeadersOK /\ LeaderHasQuorum
  BY <1>1, Zenon DEF Init, CandidatesOK, LeadersOK, LeaderHasQuorum
<1> QED BY <1>2, Zenon DEF Elected

\* Two quorums of one term share a voter, who voted once.
LEMMA OneLeader == Inv /\ LeaderHasQuorum => ElectionSafety
<1> SUFFICES ASSUME Inv, LeaderHasQuorum, NEW l \in leaders, NEW k \in leaders, l[1] = k[1],
                    l \notin confused, k \notin confused
             PROVE  l[2] = k[2]
  BY DEF ElectionSafety
<1> DEFINE V == Voters(l[1], l[2])
           W == Voters(k[1], k[2])
<1>1. V \subseteq Server /\ W \subseteq Server
  BY Zenon DEF Voters
<1>2. Cardinality(V) >= quorum /\ Cardinality(W) >= quorum
  BY Zenon DEF LeaderHasQuorum, Voters
<1>3. /\ \A v \in V : <<v, l[1], l[2]>> \in grants
      /\ \A v \in W : <<v, k[1], k[2]>> \in grants
  BY Zenon DEF Voters
<1> HIDE DEF V, W
<1>4. /\ Cardinality(Server) \in Nat /\ Cardinality(V) \in Nat /\ Cardinality(W) \in Nat
  BY <1>1, ServerAssumption, FS_Subset, FS_CardinalityType, Zenon
<1>5. Cardinality(V) + Cardinality(W) > Cardinality(Server)
  BY <1>2, <1>4 DEF quorum
<1>6. PICK v : v \in V /\ v \in W
  BY <1>1, <1>5, ServerAssumption, FS_MajoritiesIntersect, Zenon
<1>7. PICK g, h : /\ g = <<v, l[1], l[2]>> /\ g \in grants
                  /\ h = <<v, k[1], k[2]>> /\ h \in grants
  BY <1>3, <1>6, Zenon
<1>8. g[1] = h[1] /\ g[2] = h[2] /\ g[3] = l[2] /\ h[3] = k[2]
  BY <1>7
<1> QED BY <1>7, <1>8 DEF Inv, VoteOnce

\* handleVoteResp makes a candidate leader only with votes that a quorum cast
\* for it in the term it leads, unless it counted a vote of an earlier campaign.
THEOREM SpecLeaderHasQuorum == Spec => []LeaderHasQuorum
<1>1. Elected => LeaderHasQuorum
  BY DEF Elected
<1> QED BY <1>1, InitElected, NextElected, SpecInv, PTL DEF Spec

\* For any number of peers, campaigns, crashes, restarts, lost and reordered
\* messages, two leaders of one term need a candidate that counted an older vote.
THEOREM SpecElectionSafety == Spec => []ElectionSafety
BY SpecLeaderHasQuorum, OneLeader, SpecInv, PTL
=============================================================================
