------------------------------- MODULE LsmDB -------------------------------
(***************************************************************************)
(* DBImpl: one LSM database directory, the process that has it open, and   *)
(* its background thread (engine/lsmtree/src/db/db_impl.cc with db_files,  *)
(* manifest, flush_memtable, snapshot and the WAL).                        *)
(*                                                                         *)
(* A writer holds mutex_ over its whole call, so a write is one step.  The *)
(* background thread releases it between the stages of a flush or of a     *)
(* compaction; each stage is a step.  A crash may fall between any two     *)
(* steps, and inside a write; a WAL may end in a torn record.              *)
(***************************************************************************)
EXTENDS LsmVersion, BagsExt

CONSTANTS
  Batch,           \* the write batches: sequences of [key, type] operations
  Durability,      \* the durabilities writers use: of {"kAsync", "kSync"}
  Handle,          \* snapshot handles a client may hold
  WriteBufferSize, \* DBOptions.write_buffer_size, in entries
  MaxSequence,     \* bound: the largest sequence number written
  MaxCrashes,      \* bound: crashes
  PowerLoss,       \* whether a crash may lose what was not synced
  MaxLeft,         \* bound: files one clean-up fails to remove
  IOErrors         \* the I/O errors of which one may happen: of
                   \* {"Append", "Sync", "Background"}

ASSUME DBAssumption ==
  /\ WriteBufferSize \in Nat \ {0}
  /\ MaxSequence \in Nat
  /\ MaxCrashes \in Nat
  /\ IOErrors \subseteq {"Background", "Append", "Sync"}
  /\ MaxLeft \in Nat
  /\ PowerLoss \in BOOLEAN
  /\ Durability \subseteq {"kAsync", "kSync"}
  /\ \A b \in Batch : b # <<>> /\ \A i \in 1..Len(b) :
       b[i] \in [key : Key, type : {"Value", "Deletion"}]

VARIABLES
  disk,    \* the directory: WALs, SSTables and MANIFEST
  db,      \* the DBImpl object
  bg,      \* the background thread
  snaps,   \* the sequence each snapshot handle pins
  hist,    \* what was written: the operation of every sequence number
  durable, \* the last sequence number a kSync write acknowledged
  faults   \* crashes and I/O errors so far

vars == <<disk, db, bg, snaps, hist, durable, faults>>

-----------------------------------------------------------------------------
(* The directory. *)

NoManifest == [flushed |-> 0, oldest |-> 0, levels |-> EmptyVersion]
EmptyDirectory ==
  [wals |-> <<>>, synced |-> <<>>, ssts |-> <<>>, manifest |-> NoManifest]

\* ManifestState of a Version: the flushed sequence, the first WAL to replay
\* and the numbers of the tables of every level.
ManifestOf(flushed, oldest, version) ==
  [flushed |-> flushed, oldest |-> oldest,
   levels |-> [l \in Levels |->
                 [i \in 1..Len(version[l]) |-> version[l][i].number]]]

\* The table numbers a manifest names.
LiveTables(manifest) == UNION {Range(manifest.levels[l]) : l \in Levels}

\* validateState: what writeManifest and readManifest insist on.
validateState(version) ==
  /\ \A l, m \in Levels : \A i \in 1..Len(version[l]), j \in 1..Len(version[m]) :
       version[l][i].number = version[m][j].number => l = m /\ i = j
  /\ \A l \in {1, 2} : \A i \in 1..(Len(version[l]) - 1) :
       largest(version[l][i]) < smallest(version[l][i + 1])

\* A record of which the WAL holds only the first bytes.
Torn == [first |-> 0, batch |-> <<>>]

\* WalWriter::open with O_CREAT on a number not in use.
CreateWal(d, n) == [d EXCEPT !.wals = @ @@ (n :> <<>>),
                             !.synced = @ @@ (n :> 0)]


\* Slip: one WAL record for every operation of the batch.
AppendEach(d, n, record, durability) ==
  LET appended == d.wals[n] \o [i \in 1..Len(record.batch) |->
                    [first |-> record.first + i - 1,
                     batch |-> <<record.batch[i]>>]]
  IN  [d EXCEPT !.wals[n] = appended,
                !.synced[n] = IF durability = "kSync" THEN Len(appended) ELSE @]

\* WalWriter::append, and sync for kSync: fdatasync covers this file only.
AppendWal(d, n, record, durability) ==
  LET appended == Append(d.wals[n], record)
  IN  [d EXCEPT !.wals[n] = appended,
                !.synced[n] = IF durability = "kSync" THEN Len(appended) ELSE @]

AddTables(d, tables) ==
  [d EXCEPT !.ssts = [n \in {t.number : t \in tables} |->
                        (CHOOSE t \in tables : t.number = n).entries] @@ @]

DropWals(d, gone) ==
  [d EXCEPT !.wals = Restrict(@, DOMAIN @ \ gone),
            !.synced = Restrict(@, DOMAIN @ \ gone)]
DropTables(d, gone) == [d EXCEPT !.ssts = Restrict(@, DOMAIN @ \ gone)]

\* removeFileBestEffort: the sets of files that may go out of these.
Removed(files) == {gone \in SUBSET files : Cardinality(files \ gone) <= MaxLeft}

\* Slip: the WAL the manifest starts from counts as obsolete.
ObsoleteUpTo(d, live) == {n \in DOMAIN d.wals : n <= live}

\* What removeObsoleteWalFilesBestEffort and
\* removeObsoleteSSTableFilesBestEffort try to remove.
ObsoleteWals(d, live) == {n \in DOMAIN d.wals : n < live}
ObsoleteTables(d, manifest) == DOMAIN d.ssts \ LiveTables(manifest)

-----------------------------------------------------------------------------
(* The DBImpl object. *)

NoImm == [entries |-> {}, number |-> 0, last |-> 0]
ClosedDB ==
  [status |-> "Closed", mem |-> {}, imm |-> NoImm, wal |-> 0, next |-> 1,
   flushed |-> 0, oldest |-> 0, version |-> EmptyVersion, last |-> 0,
   counts |-> EmptyBag, stopping |-> FALSE, error |-> FALSE,
   latched |-> FALSE]
IdleThread == [pc |-> "Idle", job |-> "None", plan |-> <<>>, next |-> <<>>]
NoSnapshot == -1

\* MemTable::memoryUsage has reached write_buffer_size.
Full == db.mem # {} /\ Cardinality(db.mem) >= WriteBufferSize

\* Slip: the first operation gets the last sequence number already in use.
EntriesFromLast(batch, first) ==
  {[key |-> batch[i].key, seq |-> first + i - 2, type |-> batch[i].type] :
     i \in 1..Len(batch)}

\* applyBatch: the entries of a batch whose first operation has this sequence
\* number, as MemTable::add stores them.
BatchEntries(batch, first) ==
  {[key |-> batch[i].key, seq |-> first + i - 1, type |-> batch[i].type] :
     i \in 1..Len(batch)}

\* DBImpl::get: the mutable memtable, the immutable one, the Version.
get(k, visible) ==
  LET inMemory == FirstFound(<<db.mem, db.imm.entries>>, k, visible)
  IN  IF inMemory # Absent THEN inMemory
      ELSE VersionGet(db.version, k, visible)

\* DBImpl::newIterator: every layer goes into one merging iterator.
scan(visible) ==
  Iterate(db.mem \cup db.imm.entries \cup EntriesOf(db.version), visible)

\* SnapshotTracker::oldest
oldest(fallback) ==
  IF db.counts = EmptyBag THEN fallback ELSE Min(BagToSet(db.counts))

-----------------------------------------------------------------------------
(* Opening. *)

Init ==
  /\ disk = EmptyDirectory
  /\ db = ClosedDB
  /\ bg = IdleThread
  /\ snaps = [h \in Handle |-> NoSnapshot]
  /\ hist = <<>>
  /\ durable = 0
  /\ faults = [crashes |-> 0, errors |-> {}]

HasManifest == disk.manifest # NoManifest

\* scanDatabaseDirectory: numbering goes on after the largest file present.
NextFileNumber == Max({0} \cup DOMAIN disk.wals \cup DOMAIN disk.ssts) + 1

\* initializeNewDatabase creates the first WAL, only in an empty directory.
CreateFirstWal ==
  /\ db.status = "Closed" /\ ~HasManifest
  /\ IF DOMAIN disk.wals # {} \/ DOMAIN disk.ssts # {}
     THEN /\ db' = [ClosedDB EXCEPT !.status = "Failed"]
          /\ UNCHANGED disk
     ELSE /\ disk' = CreateWal(disk, NextFileNumber)
          /\ db' = [ClosedDB EXCEPT !.status = "Creating",
                                    !.wal = NextFileNumber,
                                    !.next = NextFileNumber + 1,
                                    !.oldest = NextFileNumber]
  /\ UNCHANGED <<bg, snaps, hist, durable, faults>>

\* initializeNewDatabase then publishes the first MANIFEST.
CreateManifest ==
  /\ db.status = "Creating"
  /\ disk' = [disk EXCEPT !.manifest = ManifestOf(0, db.wal, EmptyVersion)]
  /\ db' = [db EXCEPT !.status = "Open"]
  /\ UNCHANGED <<bg, snaps, hist, durable, faults>>

\* Slip: the L0 tables come back oldest first.
LoadReversed(d) ==
  [l \in Levels |-> LET ns == Reverse(d.manifest.levels[l])
                    IN  [i \in 1..Len(ns) |->
                           [number |-> ns[i], entries |-> d.ssts[ns[i]]]]]

\* loadVersion: Version::open opens every table the manifest names.
loadVersion(d) ==
  [l \in Levels |-> LET ns == d.manifest.levels[l]
                    IN  [i \in 1..Len(ns) |->
                           [number |-> ns[i], entries |-> d.ssts[ns[i]]]]]

\* The WALs recoverWalFiles replays.
LiveWals(d) == {n \in DOMAIN d.wals : n >= d.manifest.oldest}

\* readNext: a torn record at the end of the file ends it.  Anywhere else the
\* bytes after it are taken for its payload and fail the checksum.
Complete(wal) == SelectSeq(wal, LAMBDA record : record # Torn)
Readable(wal) == \A i \in 1..(Len(wal) - 1) : wal[i] # Torn

\* recoverWalFiles replays the WALs from the manifest's oldest on, in order.
ReplayedRecords(d) ==
  LET live == LiveWals(d)
      nth(i) == CHOOSE n \in live : Cardinality({m \in live : m < n}) = i - 1
  IN  FoldLeft(\o, <<>>,
               [i \in 1..Cardinality(live) |-> Complete(d.wals[nth(i)])])


\* recoverWalFile cuts the torn tail of every WAL it replayed, so that the
\* next record follows the last complete one.
CutTails(d) ==
  LET wal(n) == IF n \in LiveWals(d) THEN Complete(d.wals[n]) ELSE d.wals[n]
  IN  [d EXCEPT !.wals = [n \in DOMAIN @ |-> wal(n)],
                !.synced = [n \in DOMAIN @ |-> Min({@[n], Len(wal(n))})]]

\* recoverWalFile: every batch must start where the last one ended.
Contiguous(records, flushed) ==
  \A i \in 1..Len(records) :
    records[i].first = IF i = 1 THEN flushed + 1
                       ELSE records[i - 1].first + Len(records[i - 1].batch)

\* recoverDatabase: every table the manifest names is opened, the live WALs
\* are replayed into the memtable and obsolete files are removed.
Recover ==
  LET m == disk.manifest
      records == ReplayedRecords(disk)
      n == Len(records)
      last == IF n = 0 THEN m.flushed
              ELSE records[n].first + Len(records[n].batch) - 1
      ok == /\ LiveTables(m) \subseteq DOMAIN disk.ssts
            /\ m.oldest \in DOMAIN disk.wals
            /\ \A w \in LiveWals(disk) : Readable(disk.wals[w])
            /\ Contiguous(records, m.flushed)
  IN  /\ db.status = "Closed" /\ HasManifest
      /\ IF ~ok
         THEN /\ db' = [ClosedDB EXCEPT !.status = "Failed"]
              /\ UNCHANGED <<disk, hist>>
         ELSE /\ db' = [ClosedDB EXCEPT
                   !.status = "Open",
                   !.mem = UNION {BatchEntries(records[i].batch,
                                               records[i].first) : i \in 1..n},
                   !.wal = Max(DOMAIN disk.wals),
                   !.next = NextFileNumber,
                   !.flushed = m.flushed,
                   !.oldest = m.oldest,
                   !.version = loadVersion(disk),
                   !.last = last]
              /\ hist' = SubSeq(hist, 1, last)
              /\ \E wals \in Removed(ObsoleteWals(disk, m.oldest)) :
                 \E ssts \in Removed(ObsoleteTables(disk, m)) :
                   disk' = DropTables(DropWals(CutTails(disk), wals), ssts)
      /\ UNCHANGED <<bg, snaps, durable, faults>>

-----------------------------------------------------------------------------
(* Clients. *)

\* rotateMemTable: the memtable becomes immutable, a new WAL starts.
rotateMemTable(d) ==
  [d EXCEPT !.imm = [entries |-> d.mem, number |-> d.next, last |-> d.last],
            !.mem = {},
            !.wal = d.next + 1,
            !.next = d.next + 2,
            !.latched = FALSE]

\* makeRoomForWrite returns: there is room, or the memtable can be rotated.
\* Otherwise the writer waits for the flush.
HasRoom == db.status = "Open" /\ ~db.stopping /\ ~db.error
             /\ (~Full \/ db.imm = NoImm)

\* The object and the directory once makeRoomForWrite has returned.
RoomMade == IF Full THEN rotateMemTable(db) ELSE db
RoomMadeDisk == IF Full THEN CreateWal(disk, RoomMade.wal) ELSE disk

\* WalWriter: an I/O error is latched, and append refuses every later record.
\* Only a new writer, after a rotation or a restart, accepts records again.
WalUsable == ~RoomMade.latched

\* The history with this batch after what was acknowledged; its last
\* operation is marked.
Recorded(batch) ==
  SubSeq(hist, 1, db.last)
    \o [i \in 1..Len(batch) |-> [key |-> batch[i].key, type |-> batch[i].type,
                                 end |-> i = Len(batch)]]

\* DBImpl::write: make room, append the record (and sync it), apply it.
Write(batch, durability) ==
  LET d == RoomMade
      record == [first |-> d.last + 1, batch |-> batch]
  IN  /\ HasRoom /\ WalUsable
      /\ db.last + Len(batch) <= MaxSequence
      /\ disk' = AppendWal(RoomMadeDisk, d.wal, record, durability)
      /\ db' = [d EXCEPT !.mem = @ \cup BatchEntries(batch, d.last + 1),
                         !.last = @ + Len(batch)]
      /\ hist' = Recorded(batch)
      /\ durable' = IF durability = "kSync" THEN db'.last ELSE durable
      /\ UNCHANGED <<bg, snaps, faults>>

\* An I/O error of this kind happens.
MayFail(kind) ==
  /\ kind \in IOErrors /\ faults.errors = {}
  /\ faults' = [faults EXCEPT !.errors = {kind}]

\* latchIOError
latchIOError(d) == [d EXCEPT !.latched = TRUE]

\* DBImpl::write when the append or the sync fails: the caller gets the error
\* before memory changes, but the WAL may hold a part of the record, or all
\* of it when only the sync failed.
WriteFails(batch, durability) ==
  LET d == RoomMade
      record == [first |-> d.last + 1, batch |-> batch]
  IN  /\ HasRoom /\ WalUsable
      /\ db.last + Len(batch) <= MaxSequence
      /\ \/ /\ MayFail("Append")
            /\ disk' \in {RoomMadeDisk,
                          AppendWal(RoomMadeDisk, d.wal, Torn, "kAsync")}
            /\ UNCHANGED hist
         \/ /\ MayFail("Sync") /\ durability = "kSync"
            /\ disk' = AppendWal(RoomMadeDisk, d.wal, record, "kAsync")
            /\ hist' = Recorded(batch)
      /\ db' = latchIOError(d)
      /\ UNCHANGED <<bg, snaps, durable>>

\* newSnapshot pins last_sequence_ and counts it in the tracker.
NewSnapshot(h) ==
  /\ db.status = "Open" /\ ~db.stopping /\ snaps[h] = NoSnapshot
  /\ snaps' = [snaps EXCEPT ![h] = db.last]
  /\ db' = [db EXCEPT !.counts = @ (+) SetToBag({db.last})]
  /\ UNCHANGED <<disk, bg, hist, durable, faults>>

\* ~SnapshotImpl: SnapshotTracker::remove
ReleaseSnapshot(h) ==
  /\ db.status = "Open" /\ snaps[h] # NoSnapshot
  /\ snaps' = [snaps EXCEPT ![h] = NoSnapshot]
  /\ db' = [db EXCEPT !.counts = @ (-) SetToBag({snaps[h]})]
  /\ UNCHANGED <<disk, bg, hist, durable, faults>>

-----------------------------------------------------------------------------
(* The background thread: one flush or compaction at a time. *)

Running == db.status = "Open" /\ ~db.error

\* backgroundLoop puts compaction before the flush, except when closing.
ShouldCompact == ~db.stopping /\ needsCompaction(db.version)

\* What the thread will publish: a Version with its manifest fields.
Candidate(flushed, first, version) ==
  [flushed |-> flushed, oldest |-> first, version |-> version]

\* Slip: the wake-up condition of backgroundLoop forgets immutable_.
FlushOnlyWhenClosing ==
  LET t == [number |-> db.imm.number, entries |-> db.imm.entries]
  IN  /\ Running /\ bg.pc = "Idle" /\ db.stopping
      /\ db.imm # NoImm /\ ~ShouldCompact
      /\ disk' = AddTables(disk, {t})
      /\ bg' = [pc |-> "Built", job |-> "Flush", plan |-> <<>>,
                next |-> Candidate(db.imm.last, db.wal,
                                   withLevel0Table(db.version, t))]
      /\ UNCHANGED <<db, snaps, hist, durable, faults>>

\* flushImmutableMemTable builds the L0 table and the candidate state.
BuildLevel0 ==
  LET t == [number |-> db.imm.number, entries |-> db.imm.entries]
  IN  /\ Running /\ bg.pc = "Idle"
      /\ db.imm # NoImm /\ ~ShouldCompact
      /\ disk' = AddTables(disk, {t})
      /\ bg' = [pc |-> "Built", job |-> "Flush", plan |-> <<>>,
                next |-> Candidate(db.imm.last, db.wal,
                                   withLevel0Table(db.version, t))]
      /\ UNCHANGED <<db, snaps, hist, durable, faults>>

\* compact picks its inputs and the oldest snapshot under the lock.
PickCompaction ==
  /\ Running /\ bg.pc = "Idle" /\ ShouldCompact
  /\ bg' = [IdleThread EXCEPT
              !.pc = "Picked", !.job = "Compact",
              !.plan = pickCompaction(db.version, oldest(db.last))]
  /\ UNCHANGED <<disk, db, snaps, hist, durable, faults>>

\* A failed job: the thread records the error, wakes the writers and exits;
\* tables it built are removed as far as that succeeds.
Fails(tables) ==
  /\ db' = [db EXCEPT !.error = TRUE]
  /\ bg' = IdleThread
  /\ \E gone \in Removed(tables) : disk' = DropTables(disk, gone)

\* compact builds the outputs and the candidate state without the lock.
BuildOutputs ==
  LET outputs == buildCompactionTables(db.version, bg.plan, db.next)
      n == Len(outputs)
  IN  /\ Running /\ bg.pc = "Picked"
      /\ IF \/ SharesInternalKey(InputTables(db.version, bg.plan))
            \/ \E t \in Range(outputs) : t.number \in DOMAIN disk.ssts
         THEN Fails({})
         ELSE /\ disk' = AddTables(disk, Range(outputs))
              /\ db' = [db EXCEPT !.next = @ + n]
              /\ bg' = [bg EXCEPT
                   !.pc = "Built",
                   !.next = Candidate(db.flushed, db.oldest,
                              withCompaction(db.version, bg.plan, outputs))]
      /\ UNCHANGED <<snaps, hist, durable, faults>>

\* The tables a candidate adds to the published Version.
BuiltTables == LiveTables(ManifestOf(0, 0, bg.next.version))
                 \ LiveTables(ManifestOf(0, 0, db.version))

\* writeManifest: validate, sync the temporary file, rename it.
WriteManifest ==
  /\ Running /\ bg.pc = "Built"
  /\ IF validateState(bg.next.version)
     THEN /\ disk' = [disk EXCEPT !.manifest =
                ManifestOf(bg.next.flushed, bg.next.oldest, bg.next.version)]
          /\ bg' = [bg EXCEPT !.pc = "Committed"]
          /\ UNCHANGED db
     ELSE Fails(BuiltTables)
  /\ UNCHANGED <<snaps, hist, durable, faults>>

\* Slip: the flushed memtable stays in place.
PublishKeepsImmutable ==
  /\ Running /\ bg.pc = "Committed"
  /\ db' = [db EXCEPT !.version = bg.next.version,
                      !.flushed = bg.next.flushed,
                      !.oldest = bg.next.oldest]
  /\ bg' = [bg EXCEPT !.pc = "Published"]
  /\ UNCHANGED <<disk, snaps, hist, durable, faults>>

\* The manifest is on disk: the object switches to the candidate state.
Publish ==
  /\ Running /\ bg.pc = "Committed"
  /\ db' = [db EXCEPT !.version = bg.next.version,
                      !.flushed = bg.next.flushed,
                      !.oldest = bg.next.oldest,
                      !.imm = IF bg.job = "Flush" THEN NoImm ELSE @]
  /\ bg' = [bg EXCEPT !.pc = "Published"]
  /\ UNCHANGED <<disk, snaps, hist, durable, faults>>

\* A flush removes old WALs, a compaction the tables no longer referenced.
RemoveObsolete ==
  /\ Running /\ bg.pc = "Published"
  /\ IF bg.job = "Flush"
     THEN \E gone \in Removed(ObsoleteWals(disk, bg.next.oldest)) :
            disk' = DropWals(disk, gone)
     ELSE \E gone \in Removed(ObsoleteTables(disk, disk.manifest)) :
            disk' = DropTables(disk, gone)
  /\ bg' = IdleThread
  /\ UNCHANGED <<db, snaps, hist, durable, faults>>

\* An I/O error while tables are built or before the manifest is renamed.
IOError ==
  /\ Running /\ MayFail("Background")
  /\ \/ bg.pc = "Idle" /\ db.imm # NoImm /\ ~ShouldCompact /\ Fails({})
     \/ bg.pc = "Picked" /\ Fails({})
     \/ bg.pc = "Built" /\ Fails(BuiltTables)
  /\ UNCHANGED <<snaps, hist, durable>>

Background ==
  \/ BuildLevel0
  \/ PickCompaction
  \/ BuildOutputs
  \/ WriteManifest
  \/ Publish
  \/ RemoveObsolete
  \/ IOError

-----------------------------------------------------------------------------
(* Closing and crashing. *)

\* ~DBImpl asks the background thread to stop.
Close ==
  /\ db.status = "Open" /\ ~db.stopping
  /\ db' = [db EXCEPT !.stopping = TRUE]
  /\ UNCHANGED <<disk, bg, snaps, hist, durable, faults>>

\* ... and joins it: it stops once idle with no immutable memtable, or on an
\* error.  The WAL is closed without a sync.
Joined ==
  /\ db.stopping /\ bg.pc = "Idle" /\ (db.imm = NoImm \/ db.error)
  /\ db' = ClosedDB
  /\ snaps' = [h \in Handle |-> NoSnapshot]
  /\ UNCHANGED <<disk, bg, hist, durable, faults>>

\* What a crash leaves of a WAL: all that was written or, when the machine
\* goes down, any prefix that includes what was synced, possibly with a part
\* of the next record.
SurvivingWal(wal, synced) ==
  LET kept == {SubSeq(wal, 1, n) : n \in synced..Len(wal)}
  IN  IF PowerLoss THEN kept \cup {Append(w, Torn) : w \in kept \ {wal}}
      ELSE {wal}

SurvivingWals(d) ==
  {w \in [DOMAIN d.wals -> UNION {SurvivingWal(d.wals[n], d.synced[n]) :
                                    n \in DOMAIN d.wals}] :
     \A n \in DOMAIN d.wals : w[n] \in SurvivingWal(d.wals[n], d.synced[n])}

\* The process dies and leaves this directory.
Dies(d) ==
  /\ faults.crashes < MaxCrashes
  /\ faults' = [faults EXCEPT !.crashes = @ + 1]
  /\ \E w \in SurvivingWals(d) :
       disk' = [d EXCEPT !.wals = w,
                  !.synced = IF PowerLoss THEN [n \in DOMAIN w |-> Len(w[n])]
                             ELSE @]
  /\ db' = ClosedDB
  /\ bg' = IdleThread
  /\ snaps' = [h \in Handle |-> NoSnapshot]
  /\ UNCHANGED durable

Crash ==
  /\ db.status # "Failed"
  /\ Dies(disk)
  /\ UNCHANGED hist

\* A crash inside write: the record is in the WAL as a whole or in part.
CrashInWrite(batch) ==
  LET d == RoomMade
      record == [first |-> d.last + 1, batch |-> batch]
  IN  /\ HasRoom /\ WalUsable
      /\ db.last + Len(batch) <= MaxSequence
      /\ \/ /\ Dies(AppendWal(RoomMadeDisk, d.wal, record, "kAsync"))
            /\ hist' = Recorded(batch)
         \/ /\ Dies(AppendWal(RoomMadeDisk, d.wal, Torn, "kAsync"))
            /\ UNCHANGED hist

Next ==
  \/ CreateFirstWal
  \/ CreateManifest
  \/ Recover
  \/ \E batch \in Batch, durability \in Durability : Write(batch, durability)
  \/ \E batch \in Batch, durability \in Durability : WriteFails(batch, durability)
  \/ \E h \in Handle : NewSnapshot(h) \/ ReleaseSnapshot(h)
  \/ Background
  \/ Close
  \/ Joined
  \/ Crash
  \/ \E batch \in Batch : CrashInWrite(batch)

\* The operating system keeps running the background thread.
Spec == Init /\ [][Next]_vars
             /\ WF_vars(BuildLevel0 \/ PickCompaction \/ BuildOutputs
                          \/ WriteManifest \/ Publish \/ RemoveObsolete)

-----------------------------------------------------------------------------
(* Properties. *)

\* The state is well formed, wherever a crash or an error left it.
TypeOK ==
  /\ db.status \in {"Closed", "Creating", "Open", "Failed"}
  /\ db.mem \subseteq Entry /\ db.imm.entries \subseteq Entry
  /\ db.last \in 0..MaxSequence /\ db.flushed \in 0..db.last
  /\ \A l \in Levels : db.version[l] \in Seq(Table)
  /\ IsABag(db.counts)
  /\ db.latched \in BOOLEAN
  /\ bg.pc \in {"Idle", "Picked", "Built", "Committed", "Published"}
  /\ bg.job \in {"None", "Flush", "Compact"}
  /\ DOMAIN disk.wals = DOMAIN disk.synced
  /\ \A n \in DOMAIN disk.wals : disk.synced[n] \in 0..Len(disk.wals[n])
  /\ \A n \in DOMAIN disk.ssts : disk.ssts[n] \subseteq Entry
  /\ snaps \in [Handle -> {NoSnapshot} \cup 0..MaxSequence]
  /\ durable \in 0..MaxSequence

\* What a reader that sees the writes up to this sequence number must find:
\* the sequence number of the last put of the key, 0 when there is none.
Expected(k, visible) ==
  LET writes == {s \in 1..visible : hist[s].key = k}
  IN  IF writes = {} \/ hist[Max(writes)].type = "Deletion" THEN 0
      ELSE Max(writes)

\* The sequence numbers readers read at: the latest, and every snapshot's.
Visible == {db.last} \cup {snaps[h] : h \in {h \in Handle : snaps[h] # NoSnapshot}}

\* A point lookup returns the last write its reader may see, at every stage
\* of a rotation, a flush, a compaction and after every recovery
\* (DBImpl::get, Version::get, buildCompactionTables, recoverDatabase).
GetsLastWrite ==
  db.status = "Open" => \A k \in Key, v \in Visible :
    get(k, v).seq = Expected(k, v)

\* An iterator returns exactly the keys a point lookup would find, with the
\* same versions: the merged layers hide no visible version and revive none
\* (DBImpl::newIterator, DBIterator::findNextUserEntry).
ScansLastWrites ==
  db.status = "Open" => \A v \in Visible :
    scan(v) = {<<k, Expected(k, v)>> : k \in {k \in Key : Expected(k, v) # 0}}

\* L1 and L2 are sorted and disjoint by user key and, for one key, a layer
\* never holds an older version than a deeper one (the layout Version::get
\* and BaseLevelChecker rely on, manifest.h).
VersionOrdered ==
  LET layers == <<db.mem, db.imm.entries>>
                  \o [i \in 1..Len(db.version[0]) |-> db.version[0][i].entries]
                  \o [l \in 1..2 |->
                        UNION {t.entries : t \in Range(db.version[l])}]
  IN  /\ validateState(db.version)
      /\ \A i, j \in 1..Len(layers) : i < j =>
           \A e \in layers[i], f \in layers[j] : e.key = f.key => e.seq > f.seq

\* At every moment the manifest on disk names only tables and a first WAL
\* that exist, so a crash between any two steps of a flush, a compaction or
\* a clean-up leaves a directory that opens (the order in which
\* flushImmutableMemTable and compact write and remove files).
ManifestBacked ==
  HasManifest => /\ LiveTables(disk.manifest) \subseteq DOMAIN disk.ssts
                 /\ disk.manifest.oldest \in DOMAIN disk.wals


\* A write acknowledged with kSync is there after every crash and reopening:
\* write waits until the log is persistent (db_impl.cc:167).
SyncedSurvive ==
  /\ db.status = "Failed" => durable = 0
  /\ db.status = "Open" => db.last >= durable

\* A batch is recovered as a whole or not at all.
BatchesWhole ==
  db.status = "Open" /\ hist # <<>> => hist[Len(hist)].end

\* The background thread never stops on a state it built itself: its inputs
\* never share an internal key and its manifests are always valid
\* (buildCompactionTables, writeManifest).
NoBackgroundError == db.error => "Background" \in faults.errors

\* A rotated memtable is flushed in the end, although compactions go first:
\* a writer that waits in makeRoomForWrite is woken (backgroundLoop).
FlushCompletes == (db.imm # NoImm) ~> (db.imm = NoImm \/ db.error)
=============================================================================
