------------------------------ MODULE MCLsmDB ------------------------------
(* TLC instances of LsmDB: the batches clients write. *)
EXTENDS LsmDB

Put(k) == [key |-> k, type |-> "Value"]
Erase(k) == [key |-> k, type |-> "Deletion"]

\* A single put, and a batch that overwrites it and puts another key.
PairBatches == {<<Put(1)>>, <<Erase(1), Put(2)>>}
\* A single put, and a batch that takes back its own first operation.
UndoBatches == {<<Put(1)>>, <<Put(2), Erase(2)>>}
=============================================================================
