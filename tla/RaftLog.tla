------------------------------ MODULE RaftLog ------------------------------
(***************************************************************************)
(* The in-memory log of one Raft peer (raft/log.go).  A log is a record    *)
(* [offset, entries]: entries[1] is the sentinel, which stands for index   *)
(* offset, and entries[k] holds index offset + k - 1.  Every method of     *)
(* RaftLog is a pure operator on such a record.                            *)
(***************************************************************************)
EXTENDS Integers, Sequences, FiniteSets

\* The larger and the smaller of two integers (Go's max and min).
Max2(a, b) == IF a >= b THEN a ELSE b
Min2(a, b) == IF a <= b THEN a ELSE b

CONSTANT NoOp  \* the empty payload of a sentinel and of a new leader's entry

Sentinel(index, term) == [index |-> index, term |-> term, data |-> NoOp]

NewRaftLog == [offset |-> 0, entries |-> <<Sentinel(0, 0)>>]

FirstIndex(l) == l.offset

LastIndex(l) == l.offset + Len(l.entries) - 1

LastTerm(l) ==
  IF l.entries = <<>> THEN 0 ELSE l.entries[Len(l.entries)].term

Term(l, i) ==
  IF i < l.offset \/ i > LastIndex(l) THEN 0
  ELSE l.entries[i - l.offset + 1].term

\* The entries with lo <= index < hi, clamped to the log.
Slice(l, lo, hi) ==
  SubSeq(l.entries, Max2(lo, l.offset) - l.offset + 1,
                    Min2(hi, LastIndex(l) + 1) - l.offset)

AppendEntries(l, es) == [l EXCEPT !.entries = @ \o es]

\* The slice expression entries[:pos] of TruncateAndAppend needs
\* prevIndex + 1 >= offset; below that the unsigned position wraps and the
\* program panics.  Callers guard with this predicate.
TruncateInRange(l, prevIndex) == prevIndex + 1 >= l.offset

\* Slip: the cut keeps one entry too few.
TruncateOneShort(l, prevIndex, es) ==
  [l EXCEPT !.entries = SubSeq(@, 1, prevIndex - l.offset) \o es]

TruncateAndAppend(l, prevIndex, es) ==
  [l EXCEPT !.entries = SubSeq(@, 1, prevIndex - l.offset + 1) \o es]

Truncate(l, index) ==
  IF index < l.offset THEN l
  ELSE [l EXCEPT !.entries = SubSeq(@, 1, index - l.offset)]

MatchTerm(l, index, term) ==
  index \in l.offset .. LastIndex(l) /\ Term(l, index) = term

\* The indexes whose entry has the given term, and the last of them.
IndexesOfTerm(l, term) == {i \in l.offset .. LastIndex(l) : Term(l, i) = term}

FindLastIndexOfTerm(l, term) ==
  CHOOSE i \in IndexesOfTerm(l, term) :
    \A j \in IndexesOfTerm(l, term) : i >= j

\* The first index of the run of entries of one term that ends at index: the
\* loop of handleAppend steps back once for each i whose predecessor, and
\* everything from there to index, has that term.
FirstIndexOfRun(l, index) ==
  index - Cardinality({i \in l.offset + 1 .. index :
                         \A k \in i - 1 .. index : Term(l, k) = Term(l, index)})

\* Slip: the entry that becomes the sentinel is kept as well.
CompactKeepsEntry(l, index, term) ==
  LET to == Min2(index, LastIndex(l))
  IN  IF index <= l.offset THEN l
      ELSE [offset  |-> to,
            entries |-> <<Sentinel(to, term)>> \o Slice(l, to, LastIndex(l) + 1)]

CompactTo(l, index, term) ==
  LET to == Min2(index, LastIndex(l))
  IN  IF index <= l.offset THEN l
      ELSE [offset  |-> to,
            entries |-> <<Sentinel(to, term)>> \o Slice(l, to + 1, LastIndex(l) + 1)]

Restore(snapIndex, snapTerm) ==
  [offset |-> snapIndex, entries |-> <<Sentinel(snapIndex, snapTerm)>>]
=============================================================================
