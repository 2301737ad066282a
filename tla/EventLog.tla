------------------------------- MODULE EventLog -------------------------------
(***************************************************************************)
(* The event store and its write-ahead log                                 *)
(* (src/crates/velobus/src/store.rs and wal.rs): publish, the I/O steps of *)
(* an append, failures of each, crashes between them, and recovery.        *)
(*                                                                         *)
(* The file is its whole frames, what follows them ("tail") and whether    *)
(* its magic is there.  A record is its size in bytes.  The store's mutex  *)
(* is held for a whole publish, so a reader never sees a half-done append; *)
(* a crash does.                                                           *)
(***************************************************************************)
EXTENDS Naturals, Sequences, SequencesExt

CONSTANTS
  Batches,      \* batches a publisher may send: nonempty sequences of sizes
  Overhead,     \* bytes a frame adds to its records
  MagicBytes,   \* bytes of the file header
  MaxRetained,  \* max_retained_bytes
  MaxWal        \* max_wal_bytes, which has room for the header at least

ASSUME LogAssumption ==
  /\ Batches \subseteq Seq(Nat \ {0}) \ {<<>>}
  /\ {Overhead, MagicBytes} \subseteq Nat \ {0}
  /\ {MaxRetained, MaxWal} \subseteq Nat
  /\ MagicBytes <= MaxWal

VARIABLES
  disk,       \* a store over a WAL, or the --memory store
  \* the file
  magic,      \* "absent" (length 0), "partial", "whole"
  frames,     \* sequence of [first, records]
  tail,       \* "none", "short": an incomplete frame, "torn": a bad checksum
  synced,     \* how many frames sync_all has made safe from a power loss
  magicSafe,  \* the magic has been synchronized
  \* struct Store and struct Wal
  up,         \* the store is open
  events,     \* Store.events; the sequence of an event is its position
  retained,   \* Store.retained_bytes
  wal_bytes,  \* Wal.bytes
  poisoned,   \* Store.poisoned
  \* a publish in progress under the mutex
  step,       \* "idle", "writing", "syncing"
  batch,      \* its records; after a failure, the records in doubt
  \* history
  acked,      \* the log as it stood at the latest acknowledgement
  checkpoint  \* the history below a cursor some reader has been given

file  == <<magic, frames, tail, synced, magicSafe>>
store == <<up, events, retained, wal_bytes, poisoned>>
vars  == <<disk, file, store, step, batch, acked, checkpoint>>

Bytes(records)   == SumFunction(records)
FrameBytes(b)    == Overhead + Bytes(b)
Frame(first, b)  == [first |-> first, records |-> b]
RecordsOf(fs)    == FlattenSeq([i \in DOMAIN fs |-> fs[i].records])
Ends(fs)         == {Len(RecordsOf(SubSeq(fs, 1, i))) : i \in 0 .. Len(fs)}
FileBytes(fs)    == MagicBytes + Bytes([i \in DOMAIN fs |-> FrameBytes(fs[i].records)])

Init ==
  /\ disk \in BOOLEAN
  /\ magic = "absent" /\ frames = <<>> /\ tail = "none"
  /\ synced = 0 /\ magicSafe = FALSE
  /\ up = FALSE /\ events = <<>> /\ retained = 0 /\ wal_bytes = 0
  /\ poisoned = FALSE
  /\ step = "idle" /\ batch = <<>>
  /\ acked = <<>> /\ checkpoint = <<>>

-----------------------------------------------------------------------------
(* Publishing: Store::publish, Wal::append.                                *)

\* Both capacity checks come before any write, and poison nothing.
Fits(b) ==
  /\ Bytes(b) + retained <= MaxRetained
  /\ disk => FrameBytes(b) + wal_bytes <= MaxWal

Commit(b) ==
  /\ events' = events \o b
  /\ retained' = retained + Bytes(b)
  /\ acked' = events'

PublishMemory(b) ==
  /\ up /\ ~disk
  /\ Fits(b)
  /\ Commit(b)
  /\ UNCHANGED <<file, up, wal_bytes, poisoned, step, batch, checkpoint>>

PublishBegin(b) ==
  /\ up /\ disk /\ step = "idle"
  /\ ~poisoned
  /\ Fits(b)
  /\ step' = "writing"
  /\ batch' = b
  /\ UNCHANGED <<file, store, acked, checkpoint>>

\* Mutant of Write: every record is a frame of its own.
WriteRecords ==
  /\ step = "writing"
  /\ step' = "syncing"
  /\ IF tail = "none"
     THEN /\ frames' = frames \o [i \in DOMAIN batch |-> Frame(Len(events) + i, <<batch[i]>>)]
          /\ UNCHANGED tail
     ELSE tail' = "torn" /\ UNCHANGED frames
  /\ UNCHANGED <<magic, synced, magicSafe, store, batch, acked, checkpoint>>

\* write_all.  Behind an incomplete frame a new one is unreadable.
Write ==
  /\ step = "writing"
  /\ step' = "syncing"
  /\ IF tail = "none"
     THEN frames' = Append(frames, Frame(Len(events) + 1, batch)) /\ UNCHANGED tail
     ELSE tail' = "torn" /\ UNCHANGED frames
  /\ UNCHANGED <<magic, synced, magicSafe, store, batch, acked, checkpoint>>

\* Mutant of Fail: the store goes on after an error.
FailOpen == step' = "idle" /\ batch' = <<>> /\ UNCHANGED poisoned

\* An error leaves the outcome unknown and poisons the store.
Fail == poisoned' = TRUE /\ step' = "idle" /\ UNCHANGED batch

WriteFails ==
  /\ step = "writing"
  /\ tail' \in {tail, "short"}
  /\ Fail
  /\ UNCHANGED <<magic, frames, synced, magicSafe, up, events, retained, wal_bytes,
                 acked, checkpoint>>

SyncFails ==
  /\ step = "syncing"
  /\ Fail
  /\ UNCHANGED <<file, up, events, retained, wal_bytes, acked, checkpoint>>

\* Mutant of SyncAndCommit: acknowledged without sync_all.
CommitUnsynced ==
  /\ step = "syncing"
  /\ UNCHANGED <<synced, magicSafe>>
  /\ wal_bytes' = wal_bytes + FrameBytes(batch)
  /\ Commit(batch)
  /\ step' = "idle" /\ batch' = <<>>
  /\ UNCHANGED <<magic, frames, tail, up, poisoned, checkpoint>>

\* sync_all, Wal.bytes, Store::commit and the acknowledgement.
SyncAndCommit ==
  /\ step = "syncing"
  /\ synced' = Len(frames) /\ magicSafe' = TRUE
  /\ wal_bytes' = wal_bytes + FrameBytes(batch)
  /\ Commit(batch)
  /\ step' = "idle" /\ batch' = <<>>
  /\ UNCHANGED <<magic, frames, tail, up, poisoned, checkpoint>>

\* A reader is given a cursor and what lies below it.
Fetch(n) ==
  /\ up /\ step = "idle"
  /\ n \in 1 .. Len(events)
  /\ checkpoint' = SubSeq(events, 1, n)
  /\ UNCHANGED <<file, store, step, batch, acked>>

-----------------------------------------------------------------------------
(* Opening: Store::disk, Wal::open.                                        *)

\* replay accepts consecutive batches within the retained budget.
Consecutive(fs) ==
  \A i \in DOMAIN fs : fs[i].first = Len(RecordsOf(SubSeq(fs, 1, i - 1))) + 1
Replayable == Consecutive(frames) /\ Bytes(RecordsOf(frames)) <= MaxRetained

OpenMemory ==
  /\ ~up /\ ~disk
  /\ up' = TRUE
  /\ UNCHANGED <<file, events, retained, wal_bytes, poisoned, step, batch, acked, checkpoint>>

\* An empty file gets its magic, and sync_all, before anything is served.
OpenNew ==
  /\ ~up /\ disk /\ magic = "absent"
  /\ magic' = "whole" /\ magicSafe' = TRUE
  /\ up' = TRUE /\ wal_bytes' = MagicBytes
  /\ UNCHANGED <<frames, tail, synced, events, retained, poisoned, step, batch,
                 acked, checkpoint>>

\* The process dies, or the disk fails, while the magic is written.
OpenInterrupted ==
  /\ ~up /\ disk /\ magic = "absent"
  /\ magic' \in {"partial", "whole"}
  /\ UNCHANGED <<frames, tail, synced, magicSafe, store, step, batch, acked, checkpoint>>

\* An incomplete frame at the end is cut off (set_len and sync_all, which makes
\* the frames before it safe too); a bad checksum, an incomplete magic or a
\* replay error refuses the file.
CanOpen ==
  /\ magic = "whole"
  /\ tail # "torn"
  /\ FileBytes(frames) <= MaxWal
  /\ Replayable

\* Mutant of Open: the incomplete frame is left in the file.
OpenUntruncated ==
  /\ ~up /\ disk
  /\ CanOpen
  /\ UNCHANGED tail
  /\ synced' = IF tail = "short" THEN Len(frames) ELSE synced
  /\ magicSafe' = (magicSafe \/ tail = "short")
  /\ up' = TRUE
  /\ events' = RecordsOf(frames)
  /\ retained' = Bytes(events')
  /\ wal_bytes' = FileBytes(frames)
  /\ UNCHANGED <<magic, frames, poisoned, step, batch, acked, checkpoint>>

Open ==
  /\ ~up /\ disk
  /\ CanOpen
  /\ tail' = "none"
  /\ synced' = IF tail = "short" THEN Len(frames) ELSE synced
  /\ magicSafe' = (magicSafe \/ tail = "short")
  /\ up' = TRUE
  /\ events' = RecordsOf(frames)
  /\ retained' = Bytes(events')
  /\ wal_bytes' = FileBytes(frames)
  /\ UNCHANGED <<magic, frames, poisoned, step, batch, acked, checkpoint>>

-----------------------------------------------------------------------------
(* Crashes.                                                                *)

ProcessLost ==
  /\ up' = FALSE /\ events' = <<>> /\ retained' = 0 /\ wal_bytes' = 0
  /\ poisoned' = FALSE /\ step' = "idle" /\ batch' = <<>>
  /\ acked' = IF disk THEN acked ELSE <<>>
  /\ UNCHANGED checkpoint

\* The process dies and the file keeps what was written, a write in progress
\* possibly in part.
Kill ==
  /\ up
  /\ tail' \in IF step = "writing" THEN {tail, "short"} ELSE {tail}
  /\ UNCHANGED <<magic, frames, synced, magicSafe>>
  /\ ProcessLost

\* The machine dies too: of what was never synchronized any prefix survives,
\* or its place with other contents.
PowerLoss ==
  /\ up \/ synced < Len(frames) \/ tail # "none" \/ ~magicSafe
  /\ \E n \in synced .. Len(frames) :
       /\ frames' = SubSeq(frames, 1, n)
       /\ tail' \in IF n < Len(frames) \/ tail = "short" \/ step = "writing"
                    THEN {"none", "short", "torn"} ELSE {tail}
  /\ IF magicSafe \/ magic = "absent"
     THEN UNCHANGED magic
     ELSE magic' \in {"absent", "partial", magic} /\ (magic' # "whole" => frames' = <<>> /\ tail' = "none")
  /\ synced' = Len(frames')
  /\ magicSafe' = (magic' # "absent")
  /\ ProcessLost

\* The mode of a broker is its command line's, and stays over its restarts.
Next ==
  /\ \/ \E b \in Batches : PublishMemory(b) \/ PublishBegin(b)
     \/ Write \/ WriteFails \/ SyncFails \/ SyncAndCommit
     \/ \E n \in 1 .. Len(events) : Fetch(n)
     \/ OpenMemory \/ OpenNew \/ OpenInterrupted \/ Open
     \/ Kill \/ PowerLoss
  /\ UNCHANGED disk

Spec == Init /\ [][Next]_vars
-----------------------------------------------------------------------------
(* Properties.                                                             *)

\* The variables hold what their types allow: part of FileMatchesMemory.
TypeOK ==
  /\ magic \in {"absent", "partial", "whole"}
  /\ tail \in {"none", "short", "torn"}
  /\ \A i \in DOMAIN frames : frames[i].first \in Nat \ {0} /\ frames[i].records \in Batches
  /\ synced \in 0 .. Len(frames)
  /\ {disk, magicSafe, up, poisoned} \subseteq BOOLEAN
  /\ events \in Seq(Nat) /\ acked \in Seq(Nat) /\ checkpoint \in Seq(Nat)
  /\ {retained, wal_bytes} \subseteq Nat
  /\ step \in {"idle", "writing", "syncing"}
  /\ batch \in Batches \cup {<<>>}

\* An acknowledged record is never lost and never changes place: not by a later
\* append, a failed one, a kill, a power loss or a recovery.
AckedSurvive ==
  IsPrefix(acked, IF up THEN events ELSE RecordsOf(frames))

\* Whatever the store wrote, failed to write or lost, it can open again with the
\* same budgets, unless the disk put other contents where a write was going on
\* or the header itself was cut short.
ReopensAfterCrash ==
  ~up /\ disk /\ magic = "whole" /\ tail # "torn" => CanOpen

\* Between publishes a healthy store, its budgets and its file agree, after a
\* recovery as after publishing: the retained budget is charged for exactly the
\* events held, and the file holds exactly those, ends where wal_bytes says and
\* is within its own budget.
FileMatchesMemory ==
  /\ TypeOK
  /\ retained = Bytes(events) /\ retained <= MaxRetained
  /\ up /\ disk /\ step = "idle" /\ ~poisoned =>
       /\ RecordsOf(frames) = events /\ Consecutive(frames)
       /\ tail = "none"
       /\ wal_bytes = FileBytes(frames) /\ wal_bytes <= MaxWal

\* A cursor a disk-mode store gave a reader stays valid for as long as the file
\* is neither deleted nor replaced: the history below it is still there.
CheckpointsValid ==
  up /\ disk => IsPrefix(checkpoint, events)

\* A store over a WAL keeps the promise of DurableLog, and loses or recovers a
\* batch as a whole; its batches are the frames of the file, as far as the store
\* holds them.  The memory store promises nothing, and maps to a log nobody
\* writes to.
Promise ==
  INSTANCE DurableLog WITH
    log     <- IF ~disk THEN <<>> ELSE IF up THEN events ELSE RecordsOf(frames),
    ends    <- IF ~disk THEN {0} ELSE {n \in Ends(frames) : up => n <= Len(events)},
    acked   <- IF disk THEN Len(acked) ELSE 0,
    pending <- batch
KeepsPromise == Promise!Spec
=============================================================================
