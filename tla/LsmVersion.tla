---------------------------- MODULE LsmVersion ----------------------------
(***************************************************************************)
(* The read path and the compaction algorithm of the LSM engine, as        *)
(* operators on immutable values: versioned entries, memtables and         *)
(* SSTables, the three-level Version and one compaction of adjacent levels *)
(* (engine/lsmtree/src/db: internal_key, memtable, version, compaction,    *)
(* db_iterator, merging_iterator; table: sstable_reader).                  *)
(*                                                                         *)
(* A user key is a number.  A put's value is identified by the sequence    *)
(* number of the put, so an entry is a user key, a sequence and a type and *)
(* a lookup returns the sequence of the put it found.  Sizes are counted   *)
(* in entries.                                                             *)
(***************************************************************************)
EXTENDS Integers, Sequences, FiniteSets, FiniteSetsExt, SequencesExt,
        Functions

CONSTANTS
  Key,                     \* user keys: a finite set of naturals
  Level0CompactionTrigger, \* kLevel0CompactionTrigger
  Level1Size,              \* CompactionOptions.level1_bytes, in entries
  OutputSize               \* CompactionOptions.output_bytes, in entries

ASSUME LsmAssumption ==
  /\ IsFiniteSet(Key)
  /\ Key \subseteq Nat
  /\ Level0CompactionTrigger \in Nat \ {0}
  /\ Level1Size \in Nat \ {0}
  /\ OutputSize \in Nat \ {0}

-----------------------------------------------------------------------------
(* Entries and tables. *)

\* A ParsedInternalKey: the types are kValue and kDeletion.
Entry == [key : Key, seq : Nat \ {0}, type : {"Value", "Deletion"}]

\* Version::Table: the TableMeta's number and the entries its reader serves;
\* smallest_key and largest_key are the first and the last of them.
Table == [number : Nat \ {0}, entries : SUBSET Entry \ {{}}]

smallest(t) == Min({e.key : e \in t.entries})
largest(t) == Max({e.key : e \in t.entries})

\* InternalKeyLess: user keys ascend, the versions of one key descend.
InternalKeyLess(a, b) ==
  \/ a.key < b.key
  \/ a.key = b.key /\ a.seq > b.seq

\* LookupResult of a point lookup in one memtable or SSTable.
Absent == [found |-> "Absent", seq |-> 0]
Deleted == [found |-> "Deleted", seq |-> 0]
ValueOf(s) == [found |-> "Value", seq |-> s]

\* MemTable::get and SSTableReader::get: seek to (key, visible, kValue); the
\* first entry there, if it is of this key, is its newest visible version.
Lookup(entries, k, visible) ==
  LET versions == {e \in entries : e.key = k /\ e.seq <= visible}
      first == CHOOSE e \in versions :
                 \A f \in versions : f = e \/ InternalKeyLess(e, f)
  IN  IF versions = {} THEN Absent
      ELSE IF first.type = "Deletion" THEN Deleted ELSE ValueOf(first.seq)

-----------------------------------------------------------------------------
(* Version: levels 0, 1 and 2, each a sequence of tables. *)

Levels == 0..2
EmptyVersion == [level \in Levels |-> <<>>]

\* std::lower_bound on largest_key: the first table that does not end before
\* the key, one past the end when there is none.
lowerBound(tables, k) ==
  Min({i \in 1..Len(tables) : largest(tables[i]) >= k} \cup {Len(tables) + 1})

\* The tables a lookup of k visits, in order: every L0 table, newest first,
\* then in each deeper level the one table whose range covers k.
CandidateIn(tables, k) ==
  LET i == lowerBound(tables, k)
  IN  IF i > Len(tables) \/ smallest(tables[i]) > k THEN <<>>
      ELSE <<tables[i]>>

Candidates(version, k) ==
  version[0] \o CandidateIn(version[1], k) \o CandidateIn(version[2], k)

\* The layers a lookup visits one after the other; the first that holds a
\* visible version of the key decides.
FirstFound(layers, k, visible) ==
  LET hits == {i \in 1..Len(layers) : Lookup(layers[i], k, visible) # Absent}
  IN  IF hits = {} THEN Absent ELSE Lookup(layers[Min(hits)], k, visible)

\* Version::get
VersionGet(version, k, visible) ==
  LET tables == Candidates(version, k)
  IN  FirstFound([i \in 1..Len(tables) |-> tables[i].entries], k, visible)

\* Slip: the flushed table goes to the end of L0.
WithLevel0Last(version, table) ==
  [version EXCEPT ![0] = @ \o <<table>>]

\* Version::withLevel0Table: the flushed table goes in front.
withLevel0Table(version, table) ==
  [version EXCEPT ![0] = <<table>> \o @]

\* Version::withCompaction: the input ranges go, the outputs take the place
\* of the overlapped tables.
withCompaction(version, plan, outputs) ==
  LET source == version[plan.level]
      target == version[plan.level + 1]
  IN  [version EXCEPT
        ![plan.level] = SubSeq(source, plan.inputs + 1, Len(source)),
        ![plan.level + 1] = SubSeq(target, 1, plan.begin - 1) \o outputs
                      \o SubSeq(target, plan.end, Len(target))]

\* Every entry that some table of the version holds.
EntriesOf(version) ==
  UNION {t.entries : t \in UNION {Range(version[level]) : level \in Levels}}

-----------------------------------------------------------------------------
(* The iterator. *)

\* DBIterator over a MergingIterator of every layer: in internal key order,
\* versions newer than the snapshot are passed over, a deletion hides the
\* rest of its key, and the first visible value of a key is returned.  The
\* result is the set of <<key, sequence>> it stops at.
Iterate(entries, visible) ==
  LET seen == {e \in entries : e.seq <= visible}
  IN  {<<e.key, e.seq>> : e \in {e \in seen :
         /\ e.type = "Value"
         /\ \A f \in seen : f.key = e.key => f.seq <= e.seq}}

-----------------------------------------------------------------------------
(* Compaction. *)

\* levelAtLimit: the tables of a level reach its size limit together.
levelAtLimit(tables, limit) ==
  /\ tables # <<>>
  /\ SumFunction([i \in 1..Len(tables) |-> Cardinality(tables[i].entries)])
       >= limit

\* needsCompaction
needsCompaction(version) ==
  \/ Len(version[0]) >= Level0CompactionTrigger
  \/ levelAtLimit(version[1], Level1Size)

\* overlappingRange: the tables begin .. end - 1 of the level meet the keys
\* low .. high.
overlappingRange(tables, low, high) ==
  LET begin == lowerBound(tables, low)
  IN  [begin |-> begin,
       end |-> Min({i \in begin..Len(tables) : high < smallest(tables[i])}
                     \cup {Len(tables) + 1})]

\* pickCompaction, when needsCompaction holds: the whole of L0, or the first
\* table of L1, with the tables they overlap in the next level.
pickCompaction(version, oldest) ==
  LET level == IF Len(version[0]) >= Level0CompactionTrigger THEN 0 ELSE 1
      inputs == IF level = 0 THEN Len(version[0]) ELSE 1
      chosen == {version[level][i] : i \in 1..inputs}
      overlap == overlappingRange(version[level + 1],
                                  Min({smallest(t) : t \in chosen}),
                                  Max({largest(t) : t \in chosen}))
  IN  [level |-> level, inputs |-> inputs, begin |-> overlap.begin,
       end |-> overlap.end, oldest |-> oldest]

\* The tables a plan merges.
InputTables(version, plan) ==
  {version[plan.level][i] : i \in 1..plan.inputs}
    \cup {version[plan.level + 1][i] : i \in plan.begin..(plan.end - 1)}

\* buildCompactionTables refuses to merge inputs that share an internal key.
SharesInternalKey(tables) ==
  \E s, t \in tables : s # t /\ \E e \in s.entries, f \in t.entries :
    e.key = f.key /\ e.seq = f.seq

\* Slip: the levels below the output are not looked at.
AlwaysBaseLevel(version, plan, k) == TRUE

\* BaseLevelChecker: no level below the output level can hold the key.
isBaseLevelForKey(version, plan, k) ==
  \A level \in (plan.level + 2)..2 : \A i \in 1..Len(version[level]) :
    ~(smallest(version[level][i]) <= k /\ k <= largest(version[level][i]))

\* Slip: a version is dropped as soon as any newer one exists.
DropShadowed(version, plan, entries, e) ==
  \E f \in entries : f.key = e.key /\ f.seq > e.seq

\* The entries compaction leaves out: those a newer version at or below the
\* oldest snapshot hides, and deletions at or below it with nothing beneath.
Drops(version, plan, entries, e) ==
  \/ \E f \in entries : f.key = e.key /\ f.seq > e.seq /\ f.seq <= plan.oldest
  \/ /\ e.type = "Deletion"
     /\ e.seq <= plan.oldest
     /\ isBaseLevelForKey(version, plan, e.key)

\* CompactionOutputWriter: the keys come in ascending order; a new output
\* starts at the first key that finds the current one full, so that all
\* versions of a key stay in one table.
SplitOutputs(entries) ==
  LET keys == {e.key : e \in entries}
      ascending == [i \in 1..Cardinality(keys) |->
                      CHOOSE k \in keys :
                        Cardinality({j \in keys : j < k}) = i - 1]
      add(outputs, k) ==
        LET versions == {e \in entries : e.key = k}
            n == Len(outputs)
        IN  IF n = 0 \/ Cardinality(outputs[n]) >= OutputSize
            THEN Append(outputs, versions)
            ELSE [outputs EXCEPT ![n] = @ \cup versions]
  IN  FoldLeft(add, <<>>, ascending)

\* buildCompactionTables: the outputs, numbered from next on.
buildCompactionTables(version, plan, next) ==
  LET entries == UNION {t.entries : t \in InputTables(version, plan)}
      outputs == SplitOutputs({e \in entries :
                                 ~Drops(version, plan, entries, e)})
  IN  [i \in 1..Len(outputs) |->
         [number |-> next + i - 1, entries |-> outputs[i]]]
=============================================================================
