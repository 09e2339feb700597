------------------------------ MODULE MCRaft ------------------------------
(* TLC instances of Raft: the peers are interchangeable. *)
EXTENDS Raft, TLC

PeerSymmetry == Permutations(Server)

\* Leave behaviours in which a candidate counts a vote of an earlier campaign.
NobodyConfused == confused = {}

\* Explore states with at most five messages on their way.
FewOnTheWay ==
  SumFunction([p \in Server \X Server |-> Len(net[p[1]][p[2]])]) <= 5

\* Explore behaviours in which the first leader makes every proposal and some
\* peer has compacted its log before the last of them.
SnapshotFirst ==
  /\ campaigns > 1 => proposals = MaxProposals
  /\ proposals = MaxProposals => \E i \in Server : lastSnap[i] # 0

\* What a peer's next steps depend on: votes matter to a candidate only, the
\* others' progress to a leader only (both are reset on the way to these roles).
Seen ==
  [i \in Server |->
     [node[i] EXCEPT
        !.votes = IF node[i].state = "Candidate" THEN @ ELSE NoVotes,
        !.match = IF node[i].state = "Leader" THEN @ ELSE NewRaft(i).match,
        !.next  = IF node[i].state = "Leader" THEN @ ELSE NewRaft(i).next]]

SeenView == <<Seen, net, late, counts, store, history>>

\* Without crashes nothing reads the storage or the history of elections.
VolatileView == <<Seen, net, late, counts, task, lastSnap, applied, sm, confused, asked, answers>>
=============================================================================
