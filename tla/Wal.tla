--------------------------------- MODULE Wal ---------------------------------
(***************************************************************************)
(* The write-ahead log of LithosDB (src/src/storage/wal.rs) and the        *)
(* database file a checkpoint writes.                                      *)
(*                                                                         *)
(* The log file is a sequence of chunks: what one append_page put there.   *)
(* A chunk is whole when all FrameSize bytes of the frame are present and  *)
(* the magic and the checksum match; a crash during an append may leave a  *)
(* fragment of the frame instead.  Frames are read back at multiples of    *)
(* FrameSize, so nothing that follows a fragment is ever read as a frame.  *)
(*                                                                         *)
(* Both files are there twice: as the operating system shows them, and as  *)
(* their last sync_all left them on the disk.  A killed process loses      *)
(* nothing the operating system shows; a power failure loses, or tears,    *)
(* what was never synced, by this process or by one killed before it.      *)
(*                                                                         *)
(* Two checksum collisions and I/O errors that leave the process running   *)
(* are outside the model: an io::Error leaves every caller through ? and   *)
(* ends main, which is the crash modelled here.                            *)
(***************************************************************************)
EXTENDS Integers, SequencesExt

CONSTANTS
  MaxPageId,     \* the largest page number: a u32 in the code, a bound here
  Content,       \* what a 4096-byte page can hold
  Blank,         \* a page never written: past the end of file, or all zero
  Garbage,       \* a torn page: neither its old content nor a new one
  FrameSize,     \* WAL_FRAME_SIZE, in units a crash can tear apart
  CrashWindows   \* which moments a crash may strike at: see Kill and PowerLoss

ASSUME FrameSizeAssumption == FrameSize \in Nat /\ FrameSize > 1
ASSUME ContentAssumption == {Blank, Garbage} \subseteq Content
ASSUME MaxPageIdAssumption == MaxPageId \in Nat /\ MaxPageId > 0
ASSUME WindowsAssumption == CrashWindows \subseteq {"create", "logHead", "unsynced"}

VARIABLES
  log,       \* the .wal file as the operating system shows it
  logSynced, \* the .wal file as its last sync_all left it on the disk
  db,        \* the database file as the operating system shows it
  dbSynced,  \* what the last sync_all of the database file made durable
  op,        \* the call in progress: its next step, or "none"
  frame,     \* the frame append_page is writing
  cursor     \* the frame the replay loop reads next

walVars == <<log, logSynced, db, dbSynced, op, frame, cursor>>

PageId == 0..MaxPageId
Frame == [page : PageId, data : Content]
NoFrame == [page |-> 0, data |-> Blank]
\* start is the offset in the file a chunk was written at.
Chunk == [page : PageId, data : Content, start : Nat, len : 1..FrameSize, intact : BOOLEAN]
WalOp == {"none", "append", "replay", "dbSync", "truncate"}

WalTypeOK ==
  /\ log \in Seq(Chunk)
  /\ logSynced \in Seq(Chunk)
  /\ db \in [PageId -> Content]
  /\ dbSynced \in [PageId -> Content]
  /\ op \in WalOp
  /\ frame \in Frame
  /\ cursor \in Nat \ {0}

-----------------------------------------------------------------------------
\* Reading the log back.

\* The frame passes the magic and checksum tests of the replay loop.
Whole(chunk) == chunk.len = FrameSize /\ chunk.intact

\* Frame i is read at its own offset and passes every test.
Readable(l, i) == i \in 1..Len(l) /\ \A j \in 1..i : Whole(l[j])

FramesOf(l, p) == {i \in 1..Len(l) : Readable(l, i) /\ l[i].page = p}

\* The content a complete replay of log l over the file d leaves in page p.
Recovered(l, d, p) ==
  IF FramesOf(l, p) = {} THEN d[p] ELSE l[Max(FramesOf(l, p))].data

\* The log opens with something replay stops at: it will discard everything.
DamagedHead(l) == l # <<>> /\ ~Whole(l[1])

\* file.metadata().len()
FileLen(l) == IF l = <<>> THEN 0 ELSE l[Len(l)].start + l[Len(l)].len

-----------------------------------------------------------------------------
\* append_page: seek to the end, write magic, page id, checksum and data, fsync.

\* The frame being written, at the end of the file.
NewChunk ==
  [page |-> frame.page, data |-> frame.data,
   start |-> FileLen(log), len |-> FrameSize, intact |-> TRUE]

\* n bytes of a frame that is not all there.  No reader gets past them, so what
\* they say is left out.
Fragment(offset, n) ==
  [page |-> 0, data |-> Garbage, start |-> offset, len |-> n, intact |-> FALSE]

\* The log once every byte of the write in progress has reached it.
Written == IF op = "append" THEN Append(log, NewChunk) ELSE log

AppendPage(p, c) ==
  /\ op = "none"
  /\ op' = "append"
  /\ frame' = [page |-> p, data |-> c]
  /\ UNCHANGED <<log, logSynced, db, dbSynced, cursor>>

\* The frame is on disk, and all before it: sync_all has returned.
AppendDone ==
  /\ op = "append"
  /\ op' = "none"
  /\ log' = Written
  /\ logSynced' = log'
  /\ frame' = NoFrame
  /\ UNCHANGED <<db, dbSynced, cursor>>

\* Mutant: the replay starts one frame late.
CheckpointBeginLate ==
  /\ op = "none"
  /\ op' = IF FileLen(log) \div FrameSize = 0 THEN "none" ELSE "replay"
  /\ cursor' = 2
  /\ UNCHANGED <<log, logSynced, db, dbSynced, frame>>

\* checkpoint: with no complete frame in the file it returns at once.
CheckpointBegin ==
  /\ op = "none"
  /\ op' = IF FileLen(log) \div FrameSize = 0 THEN "none" ELSE "replay"
  /\ cursor' = 1
  /\ UNCHANGED <<log, logSynced, db, dbSynced, frame>>

ReplayMore == cursor <= Len(log) /\ Whole(log[cursor])

\* One turn of the loop: read the frame at cursor, write its page.
ReplayFrame ==
  /\ op = "replay"
  /\ ReplayMore
  /\ db' = [db EXCEPT ![log[cursor].page] = log[cursor].data]
  /\ cursor' = cursor + 1
  /\ UNCHANGED <<log, logSynced, dbSynced, op, frame>>

\* Mutant: a replay that recovers nothing returns without truncating the log.
ReplayStopEarly ==
  /\ op = "replay"
  /\ ~ReplayMore
  /\ op' = IF cursor = 1 THEN "none" ELSE "dbSync"
  /\ UNCHANGED <<log, logSynced, db, dbSynced, frame, cursor>>

\* Mutant: the loop waits for frames that are not there.
ReplayStopAtEnd ==
  /\ op = "replay"
  /\ cursor > Len(log)
  /\ op' = "dbSync"
  /\ UNCHANGED <<log, logSynced, db, dbSynced, frame, cursor>>

\* The loop ends: every frame is read, or a break at one that is not whole.
ReplayStop ==
  /\ op = "replay"
  /\ ~ReplayMore
  /\ op' = "dbSync"
  /\ UNCHANGED <<log, logSynced, db, dbSynced, frame, cursor>>

\* Mutant: the database file is not synced before the log is truncated.
SyncDbSkipped ==
  /\ op = "dbSync"
  /\ op' = "truncate"
  /\ UNCHANGED <<log, logSynced, db, dbSynced, frame, cursor>>

SyncDb ==
  /\ op = "dbSync"
  /\ dbSynced' = db
  /\ op' = "truncate"
  /\ UNCHANGED <<log, logSynced, db, frame, cursor>>

TruncateLog ==
  /\ op = "truncate"
  /\ log' = <<>>
  /\ logSynced' = <<>>
  /\ op' = "none"
  /\ cursor' = 1
  /\ UNCHANGED <<db, dbSynced, frame>>

-----------------------------------------------------------------------------
\* A crash: the process is killed, or the machine loses power.

\* Unless the window "logHead" is open, no crash leaves an empty log with a
\* fragment at its head.
HeadSpared(l) == "logHead" \notin CrashWindows /\ l # <<>> => l[1].len = FrameSize

\* A kill: the files stay as the system shows them.  A frame takes four writes
\* and may be cut short, a page takes one, set_len(0) is atomic.
LogAfterKill ==
  /\ \/ log' = log
     \/ op = "append" /\ \E n \in 1..FrameSize-1 : log' = Append(log, Fragment(FileLen(log), n))
     \/ op = "append" /\ log' = Append(log, NewChunk)
     \/ op = "truncate" /\ log' = <<>>
  /\ HeadSpared(log')

WalKill ==
  /\ LogAfterKill
  /\ op' = "none"
  /\ cursor' = 1
  /\ frame' = NoFrame
  /\ UNCHANGED <<logSynced, db, dbSynced>>

\* How much of Written a power failure cannot take away.
OnDisk == IF IsPrefix(logSynced, log) THEN Len(logSynced) ELSE 0

\* What it can leave of chunk i when the file ends with chunk m: of one never
\* synced any part of the length, or all of it with bytes that were not written.
Pieces(i, m) ==
  IF i <= OnDisk
    THEN {Written[i]}
    ELSE {Written[i]} \union
         {Fragment(Written[i].start, n) :
            n \in IF i = m THEN 1..Written[i].len ELSE {Written[i].len}}

LogAfterPowerLoss ==
  /\ \/ log' = logSynced
     \/ op = "truncate" /\ log' = <<>>
     \/ \E m \in OnDisk..Len(Written) :
          /\ log' \in [1..m -> UNION {Pieces(i, m) : i \in 1..m}]
          /\ \A i \in 1..m : log'[i] \in Pieces(i, m)
  /\ HeadSpared(log')

\* A page written since the last sync_all survives, vanishes or tears.
Survivors(p) ==
  IF db[p] = dbSynced[p] THEN {db[p]} ELSE {dbSynced[p], db[p], Garbage}

DbAfterPowerLoss ==
  /\ db' \in [PageId -> UNION {Survivors(p) : p \in PageId}]
  /\ \A p \in PageId : db'[p] \in Survivors(p)

WalPowerLoss ==
  /\ LogAfterPowerLoss
  /\ DbAfterPowerLoss
  /\ logSynced' = log'
  /\ dbSynced' = db'
  /\ op' = "none"
  /\ cursor' = 1
  /\ frame' = NoFrame
=============================================================================
