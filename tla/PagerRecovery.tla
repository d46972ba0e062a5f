---------------------------- MODULE PagerRecovery ----------------------------
(***************************************************************************)
(* What recovery would restore changes by acknowledged writes alone, for   *)
(* every number of pages, every page content, every frame size and every   *)
(* place a crash can strike, a second crash during recovery included, as   *)
(* long as power does not fail on what only a killed process has written.  *)
(***************************************************************************)
EXTENDS PagerProofs

InCheckpoint == op \in {"replay", "dbSync", "truncate"}

\* The frames behind the cursor have all passed the tests.
ReplayedWhole ==
  InCheckpoint => cursor <= Len(log) + 1 /\ \A i \in 1..cursor-1 : Whole(log[i])
\* Once the loop is left, no readable frame lies ahead.
ReplayOver == op \in {"dbSync", "truncate"} => ~ReplayMore
\* Each page holds the latest frame the loop has passed.
ReplayedLatest ==
  InCheckpoint =>
    \A p \in PageId : \A i \in FramesOf(log, p) :
      i < cursor /\ (\A j \in FramesOf(log, p) : j < cursor => j <= i)
        => db[p] = log[i].data
\* A page whose content a power failure may tear is one the log can restore.
TornIsLogged == created => \A p \in PageId : db[p] # dbSynced[p] => FramesOf(log, p) # {}
\* The log is truncated only once every page it was copied to is on the disk.
SyncedFirst == op = "truncate" => dbSynced = db
\* A database is created once, and on an empty file.
CreatedOnce ==
  /\ created => mode \notin Creating /\ db[0] # Blank
  /\ mode \in Creating \/ (mode = "down" /\ ~DbExists) =>
       \A p \in PageId \ {0, 1} : db[p] = Blank
  /\ mode = "createSync" => db[1] = EmptyLeaf
\* What recovery would restore is a database.
Restorable ==
  created => /\ Recovered(log, db, 0) \in Header
             /\ Recovered(log, db, 1) \in Data
             /\ \A p \in PageId : Recovered(log, db, p) # Garbage
NotRejected == created => mode # "rejected"

ReplayInv == ReplayedWhole /\ ReplayOver /\ ReplayedLatest
SyncInv == TornIsLogged /\ SyncedFirst
RecoveryInv ==
  CacheInv /\ ReplayInv /\ SyncInv /\ CreatedOnce /\ Restorable /\ NotRejected

\* What a step may do to what recovery would restore.
WriteOnly ==
  \A p \in PageId :
    \/ Recovered(log', db', p) = Recovered(log, db, p)
    \/ op = "append" /\ frame = [page |-> p, data |-> Recovered(log', db', p)]

-----------------------------------------------------------------------------
LEMMA Types ==
  ASSUME CacheInv
  PROVE  /\ log \in Seq(Chunk) /\ Len(log) \in Nat
         /\ logSynced \in Seq(Chunk)
         /\ db \in [PageId -> Content] /\ dbSynced \in [PageId -> Content]
         /\ op \in WalOp /\ mode \in Mode /\ frame \in Frame
         /\ cursor \in Nat /\ cursor >= 1
  BY DEF CacheInv, TypeInv, TypeOK, WalTypeOK

\* The replay loop is over: the file is what recovery would restore.
LEMMA ReplayComplete ==
  ASSUME CacheInv, ReplayInv, op \in {"dbSync", "truncate"}, NEW p \in PageId
  PROVE  Recovered(log, db, p) = db[p]
  <1> USE Types DEF ReplayInv
  <1>1. CASE FramesOf(log, p) = {}
    BY <1>1 DEF Recovered
  <1>2. CASE FramesOf(log, p) # {}
    <2> DEFINE m == Max(FramesOf(log, p))
    <2>1. m \in FramesOf(log, p) /\ \A j \in FramesOf(log, p) : j <= m
      BY <1>2, LatestFrame
    <2> HIDE DEF m
    <2>2. m \in 1..Len(log) /\ \A i \in 1..m : Whole(log[i])
      BY <2>1 DEF FramesOf, Readable
    <2>3. m < cursor
      BY <2>2 DEF ReplayOver, ReplayMore
    <2>4. db[p] = log[m].data
      BY <2>1, <2>3 DEF ReplayedLatest, InCheckpoint
    <2>5. Recovered(log, db, p) = log[m].data
      BY <2>1, RecoveredIsLatest
    <2> QED
      BY <2>4, <2>5
  <1> QED
    BY <1>1, <1>2

\* The frame at the cursor is one recovery reads.
LEMMA CursorReadable ==
  ASSUME CacheInv, ReplayInv, op = "replay", ReplayMore
  PROVE  /\ cursor \in 1..Len(log) /\ log[cursor].page \in PageId
         /\ log[cursor].data \in Content
         /\ cursor \in FramesOf(log, log[cursor].page)
  <1> USE Types DEF ReplayInv
  <1>1. cursor \in 1..Len(log) /\ log[cursor] \in Chunk
    BY DEF ReplayMore
  <1>2. Readable(log, cursor)
    BY <1>1 DEF Readable, ReplayMore, ReplayedWhole, InCheckpoint
  <1> QED
    BY <1>1, <1>2 DEF Chunk, FramesOf

-----------------------------------------------------------------------------
\* Steps that leave the log and the file alone restore the same.
LEMMA SameFiles ==
  ASSUME log' = log, db' = db
  PROVE  WriteOnly
  BY DEF WriteOnly

\* One chunk more, whole and of the write in flight, changes that page or none.
LEMMA OneChunkMore ==
  ASSUME CacheInv, NEW d, NEW p \in PageId
  PROVE  \/ Recovered(Append(log, NewChunk), d, p) = Recovered(log, d, p)
         \/ frame = [page |-> p, data |-> Recovered(Append(log, NewChunk), d, p)]
  <1> USE Types
  <1>1. /\ NewChunk \in Chunk /\ Whole(NewChunk)
        /\ NewChunk.page = frame.page /\ NewChunk.data = frame.data
    BY NewChunks DEF CacheInv
  <1> HIDE DEF NewChunk
  <1>2. CASE NewChunk.page # p \/ ~AllWhole(log)
    BY <1>1, <1>2, RecoveredAfterOther
  <1>3. CASE NewChunk.page = p /\ AllWhole(log)
    <2>1. Recovered(Append(log, NewChunk), d, p) = NewChunk.data
      BY <1>1, <1>3, RecoveredAfterWhole
    <2>2. frame = [page |-> frame.page, data |-> frame.data]
      BY DEF Frame
    <2> QED
      BY <1>1, <1>3, <2>1, <2>2
  <1> QED
    BY <1>2, <1>3

\* Two logs with the same readable frames restore the same.
SameFrames(l, m) ==
  \A i \in Nat : /\ Readable(l, i) <=> Readable(m, i)
                 /\ Readable(l, i) => l[i] = m[i]

LEMMA SameFramesRestore ==
  ASSUME NEW l \in Seq(Chunk), NEW m \in Seq(Chunk), SameFrames(l, m), NEW d, NEW p
  PROVE  Recovered(l, d, p) = Recovered(m, d, p)
  <1>1. \A i \in Nat : i \in FramesOf(l, p) <=> i \in FramesOf(m, p)
    BY DEF SameFrames, FramesOf, Readable
  <1>2. FramesOf(l, p) \subseteq Nat /\ FramesOf(m, p) \subseteq Nat
    BY DEF FramesOf
  <1>3. FramesOf(l, p) = FramesOf(m, p)
    BY <1>1, <1>2
  <1>4. CASE FramesOf(l, p) = {}
    BY <1>3, <1>4 DEF Recovered
  <1>5. CASE FramesOf(l, p) # {}
    <2>1. Max(FramesOf(l, p)) \in FramesOf(l, p)
      BY <1>5, LatestFrame
    <2>2. l[Max(FramesOf(l, p))] = m[Max(FramesOf(l, p))]
      BY <1>2, <2>1 DEF FramesOf, SameFrames
    <2> QED
      BY <1>3, <1>5, <2>2 DEF Recovered
  <1> QED
    BY <1>3, <1>4, <1>5

\* A power failure takes no synced frame from the log and brings none back: it
\* leaves the frames there were, or those and the one being written.
LEMMA PowerLossFrames ==
  ASSUME CacheInv, ~LeftUnsynced, LogAfterPowerLoss
  PROVE  \/ op = "truncate" /\ log' = <<>>
         \/ /\ log' \in Seq(Chunk)
            /\ SameFrames(log', log) \/ (op = "append" /\ SameFrames(log', Written))
  <1> USE Types
  <1> DEFINE k == Len(logSynced)
  <1>1. /\ k \in Nat /\ k <= Len(log) /\ \A i \in 1..k : logSynced[i] = log[i]
        /\ \A i \in Nat : Readable(log, i) => i <= k
    <2>1. IsPrefix(logSynced, log)
      BY DEF LeftUnsynced
    <2>2. k \in Nat /\ k <= Len(log) /\ \A i \in 1..k : logSynced[i] = log[i]
      BY <2>1, PrefixChunks
    <2>3. ASSUME NEW i \in Nat, Readable(log, i) PROVE i <= k
      <3>1. i \in 1..Len(log)
        BY <2>3 DEF Readable
      <3> QED
        BY <2>2, <2>3, <3>1 DEF LeftUnsynced
    <2> QED
      BY <2>2, <2>3
  <1>2. OnDisk = k
    BY DEF OnDisk, LeftUnsynced
  <1> HIDE DEF k
  <1>3. CASE log' = logSynced
    <2>1. Len(log') = k
      BY <1>3 DEF k
    <2>2. SameFrames(log', log)
      BY <1>1, <1>3, <2>1 DEF SameFrames, Readable
    <2> QED
      BY <1>3, <2>2
  <1>4. CASE Remains(log')
    <2> DEFINE n == Len(log) + 1
    <2>1. /\ log' \in Seq(Chunk) /\ Len(log') \in k..Len(Written)
          /\ \A i \in 1..k : log'[i] = log[i]
          /\ \A i \in 1..Len(log') : Whole(log'[i]) => log'[i] = Written[i]
      BY <1>1, <1>2, <1>4, WrittenLog DEF Remains, CacheInv
    <2>2. /\ Len(Written) \in Nat
          /\ Len(Written) = IF op = "append" THEN n ELSE Len(log)
          /\ \A i \in 1..Len(log) : Written[i] = log[i]
      BY WrittenLog DEF CacheInv
    <2>3. ASSUME NEW i \in Nat, Readable(log, i)
          PROVE  Readable(log', i) /\ log'[i] = log[i]
      BY <1>1, <2>1, <2>3 DEF Readable
    <2>4. ASSUME NEW i \in Nat, Readable(log', i)
          PROVE  /\ Readable(Written, i) /\ log'[i] = Written[i]
                 /\ i <= Len(log) => Readable(log, i) /\ log'[i] = log[i]
      <3>1. i \in 1..Len(log') /\ \A j \in 1..i : Whole(log'[j])
        BY <2>4 DEF Readable
      <3>2. i \in 1..Len(Written) /\ \A j \in 1..i : log'[j] = Written[j]
        BY <1>1, <2>1, <2>2, <3>1
      <3>3. Readable(Written, i) /\ log'[i] = Written[i]
        BY <3>1, <3>2 DEF Readable
      <3>4. ASSUME i <= Len(log) PROVE Readable(log, i) /\ log'[i] = log[i]
        <4>1. i \in 1..Len(log) /\ \A j \in 1..i : log'[j] = log[j]
          BY <2>2, <3>1, <3>2, <3>4
        <4> QED
          BY <3>1, <4>1 DEF Readable
      <3> QED
        BY <3>3, <3>4
    <2>5. CASE Readable(log', n)
      <3>1. op = "append"
        BY <1>1, <2>1, <2>2, <2>5 DEF Readable
      <3>2. ASSUME NEW i \in Nat, Readable(Written, i) PROVE Readable(log', i)
        BY <2>2, <2>5, <3>1, <3>2 DEF Readable
      <3>3. SameFrames(log', Written)
        BY <2>4, <3>2 DEF SameFrames
      <3> QED
        BY <2>1, <3>1, <3>3
    <2>6. CASE ~Readable(log', n)
      <3>1. ASSUME NEW i \in Nat, Readable(log', i) PROVE i <= Len(log)
        <4>1. i \in 1..n
          BY <1>1, <2>1, <2>2, <3>1 DEF Readable
        <4> QED
          BY <2>6, <3>1, <4>1
      <3>2. SameFrames(log', log)
        BY <2>3, <2>4, <3>1 DEF SameFrames
      <3> QED
        BY <2>1, <3>2
    <2> QED
      BY <2>5, <2>6
  <1> QED
    BY <1>3, <1>4, PowerLossLog DEF CacheInv

\* The file does not matter where the log has a frame of the page.
LEMMA LogHides ==
  ASSUME NEW l, NEW p, NEW d, NEW e, FramesOf(l, p) # {} \/ d[p] = e[p]
  PROVE  Recovered(l, d, p) = Recovered(l, e, p)
  BY DEF Recovered

LEMMA KillRestores ==
  ASSUME CacheInv, ReplayInv, Kill
  PROVE  WriteOnly
  <1> USE Types
  <1>1. db' = db /\ LogAfterKill
    BY DEF Kill, WalKill
  <1>2. CASE log' = log
    BY <1>1, <1>2, SameFiles
  <1>3. CASE op = "append" /\ \E n \in 1..FrameSize-1 : log' = Append(log, Fragment(FileLen(log), n))
    <2>1. PICK n \in 1..FrameSize-1 : log' = Append(log, Fragment(FileLen(log), n))
      BY <1>3
    <2>2. FileLen(log) \in Nat /\ n \in 1..FrameSize
      <3>1. NewChunk \in Chunk /\ NewChunk.start = FileLen(log)
        BY NewChunks DEF CacheInv
      <3> QED
        BY <3>1, ChunkFields, ConstantFacts
    <2>3. Fragment(FileLen(log), n) \in Chunk /\ ~Whole(Fragment(FileLen(log), n))
      BY <2>2, NewChunks DEF CacheInv
    <2> HIDE DEF Fragment
    <2>4. ASSUME NEW p \in PageId
          PROVE  Recovered(log', db', p) = Recovered(log, db, p)
      BY <1>1, <2>1, <2>3, RecoveredAfterOther
    <2> QED
      BY <2>4 DEF WriteOnly
  <1>4. CASE op = "append" /\ log' = Append(log, NewChunk)
    BY <1>1, <1>4, OneChunkMore DEF WriteOnly
  <1>5. CASE op = "truncate" /\ log' = <<>>
    <2>1. ASSUME NEW p \in PageId
          PROVE  Recovered(log', db', p) = Recovered(log, db, p)
      <3>1. Recovered(<<>>, db, p) = db[p]
        BY RecoveredFromEmpty
      <3>2. Recovered(log, db, p) = db[p]
        BY <1>5, ReplayComplete
      <3> QED
        BY <1>1, <1>5, <3>1, <3>2
    <2> QED
      BY <2>1 DEF WriteOnly
  <1> QED
    BY <1>1, <1>2, <1>3, <1>4, <1>5 DEF LogAfterKill

LEMMA PowerLossRestores ==
  ASSUME CacheInv, ReplayInv, SyncInv, created, ~LeftUnsynced, WalPowerLoss
  PROVE  WriteOnly
  <1> USE Types
  <1>1. \A p \in PageId : FramesOf(log, p) # {} \/ db'[p] = db[p]
    BY DEF WalPowerLoss, DbAfterPowerLoss, Survivors, SyncInv, TornIsLogged
  <1>2. CASE op = "truncate" /\ log' = <<>>
    <2>1. ASSUME NEW p \in PageId
          PROVE  Recovered(log', db', p) = Recovered(log, db, p)
      <3>1. db'[p] = db[p]
        BY <1>2 DEF WalPowerLoss, DbAfterPowerLoss, Survivors, SyncInv, SyncedFirst
      <3>2. Recovered(<<>>, db', p) = db'[p]
        BY RecoveredFromEmpty
      <3>3. Recovered(log, db, p) = db[p]
        BY <1>2, ReplayComplete
      <3> QED
        BY <1>2, <3>1, <3>2, <3>3
    <2> QED
      BY <2>1 DEF WriteOnly
  <1>3. CASE log' \in Seq(Chunk) /\ SameFrames(log', log)
    <2>1. ASSUME NEW p \in PageId
          PROVE  Recovered(log', db', p) = Recovered(log, db, p)
      <3>1. Recovered(log', db', p) = Recovered(log, db', p)
        BY <1>3, SameFramesRestore
      <3>2. Recovered(log, db', p) = Recovered(log, db, p)
        BY <1>1, LogHides
      <3> QED
        BY <3>1, <3>2
    <2> QED
      BY <2>1 DEF WriteOnly
  <1>4. CASE op = "append" /\ log' \in Seq(Chunk) /\ SameFrames(log', Written)
    <2>1. Written = Append(log, NewChunk) /\ Written \in Seq(Chunk)
      BY <1>4, WrittenLog DEF Written, CacheInv
    <2>2. ASSUME NEW p \in PageId
          PROVE  \/ Recovered(log', db', p) = Recovered(log, db, p)
                 \/ frame = [page |-> p, data |-> Recovered(log', db', p)]
      <3>1. Recovered(log', db', p) = Recovered(Written, db', p)
        <4>1. log' \in Seq(Chunk) /\ SameFrames(log', Written) /\ Written \in Seq(Chunk)
          BY <1>4, <2>1
        <4> HIDE DEF Written
        <4> QED
          BY <4>1, SameFramesRestore
      <3>2. Recovered(log, db', p) = Recovered(log, db, p)
        BY <1>1, LogHides
      <3> QED
        BY <2>1, <3>1, <3>2, OneChunkMore
    <2> QED
      BY <1>4, <2>2 DEF WriteOnly
  <1> QED
    BY <1>2, <1>3, <1>4, PowerLossFrames DEF WalPowerLoss

\* A crash restores the same, but perhaps for the write it interrupts.
LEMMA CrashRestores ==
  ASSUME "unsynced" \notin CrashWindows, CacheInv, ReplayInv, SyncInv, created, Crash
  PROVE  WriteOnly
  BY KillRestores, PowerLossRestores DEF Crash, PowerLoss

\* Every step on a created database restores the same, but for the write in
\* flight.
LEMMA StepRestores ==
  ASSUME "unsynced" \notin CrashWindows, CacheInv, ReplayInv, SyncInv, created,
         mode \notin Creating, [Next]_vars
  PROVE  WriteOnly
  <1> USE Types
  <1>1. CASE ClientStep
    BY <1>1, SameFiles
    DEF ClientStep, WritePage, AllocatePage, SetRootPageId, Flush, AppendPage,
        CheckpointBegin
  <1>2. CASE Recovery
    BY <1>2, SameFiles
    DEF Recovery, OpenExisting, OpenNew, ReadHeader, CreatePage0, CreatePage1,
        CreateSync, CheckpointBegin, walVars, Creating
  <1>3. CASE WriteDone
    <2>1. op = "append" /\ log' = Append(log, NewChunk) /\ db' = db
      BY <1>3 DEF WriteDone, AppendDone, Written
    <2> QED
      BY <2>1, OneChunkMore DEF WriteOnly
  <1>4. CASE CheckpointStep /\ ReplayFrame
    <2> DEFINE q == log[cursor].page
    <2>1. op = "replay" /\ ReplayMore /\ log' = log
          /\ db' = [db EXCEPT ![q] = log[cursor].data]
      BY <1>4 DEF ReplayFrame
    <2>2. FramesOf(log, q) # {}
      BY <2>1, CursorReadable
    <2> HIDE DEF q
    <2>3. ASSUME NEW p \in PageId
          PROVE  Recovered(log', db', p) = Recovered(log, db, p)
      BY <2>1, <2>2 DEF Recovered
    <2> QED
      BY <2>3 DEF WriteOnly
  <1>5. CASE CheckpointStep /\ (ReplayStop \/ SyncDb)
    BY <1>5, SameFiles DEF ReplayStop, SyncDb
  <1>6. CASE CheckpointStep /\ TruncateLog
    <2>1. op = "truncate" /\ log' = <<>> /\ db' = db
      BY <1>6 DEF TruncateLog
    <2>2. ASSUME NEW p \in PageId
          PROVE  Recovered(log', db', p) = Recovered(log, db, p)
      <3>1. Recovered(<<>>, db, p) = db[p]
        BY RecoveredFromEmpty
      <3>2. Recovered(log, db, p) = db[p]
        BY <2>1, ReplayComplete
      <3> QED
        BY <2>1, <3>1, <3>2
    <2> QED
      BY <2>2 DEF WriteOnly
  <1>7. CASE FlushDone \/ UNCHANGED vars
    BY <1>7, SameFiles DEF FlushDone, vars, walVars
  <1>8. CASE Crash
    BY <1>8, CrashRestores
  <1> QED
    BY <1>1, <1>2, <1>3, <1>4, <1>5, <1>6, <1>7, <1>8 DEF Next, Progress, CheckpointStep

-----------------------------------------------------------------------------
\* The replay invariant.

\* Steps outside a checkpoint: no loop is running.
LEMMA NoCheckpoint ==
  ASSUME ~InCheckpoint'
  PROVE  ReplayInv'
  BY DEF ReplayInv, ReplayedWhole, ReplayOver, ReplayedLatest, InCheckpoint

\* A checkpoint starts: no frame has been passed.
LEMMA ReplayInvBegin ==
  ASSUME CacheInv, ReplayInv, CheckpointBegin
  PROVE  ReplayInv'
  <1> USE Types DEF CheckpointBegin
  <1>1. ReplayedLatest'
    BY DEF ReplayedLatest, FramesOf
  <1>2. ReplayedWhole' /\ ReplayOver'
    BY DEF ReplayedWhole, ReplayOver
  <1> QED
    BY <1>1, <1>2 DEF ReplayInv

LEMMA ReplayInvFrame ==
  ASSUME CacheInv, ReplayInv, ReplayFrame
  PROVE  ReplayInv'
  <1> USE Types DEF ReplayFrame
  <1> DEFINE q == log[cursor].page
  <1>1. /\ cursor \in 1..Len(log) /\ q \in PageId
        /\ cursor \in FramesOf(log, q) /\ Whole(log[cursor])
    BY CursorReadable DEF ReplayMore
  <1>2. ReplayedWhole'
    <2>1. \A i \in 1..cursor : Whole(log[i])
      BY <1>1 DEF ReplayInv, ReplayedWhole, InCheckpoint
    <2> QED
      BY <1>1, <2>1 DEF ReplayedWhole
  <1>3. ReplayOver'
    BY DEF ReplayOver
  <1>4. ReplayedLatest'
    <2> SUFFICES ASSUME NEW p \in PageId, NEW i \in FramesOf(log, p), i < cursor + 1,
                        \A j \in FramesOf(log, p) : j < cursor + 1 => j <= i
                 PROVE  db'[p] = log[i].data
      BY DEF ReplayedLatest, InCheckpoint
    <2>1. i \in 1..Len(log) /\ log[i].page = p
      BY DEF FramesOf
    <2>2. CASE p = q
      <3>1. i = cursor
        BY <1>1, <2>1, <2>2
      <3> QED
        BY <1>1, <2>2, <3>1
    <2>3. CASE p # q
      <3>1. i # cursor
        BY <2>1, <2>3
      <3>2. db'[p] = db[p]
        BY <2>3
      <3>3. i < cursor /\ \A j \in FramesOf(log, p) : j < cursor => j <= i
        BY <2>1, <3>1 DEF FramesOf
      <3>4. db[p] = log[i].data
        BY <3>3 DEF ReplayInv, ReplayedLatest, InCheckpoint
      <3> QED
        BY <3>2, <3>4
    <2> QED
      BY <2>2, <2>3
  <1> QED
    BY <1>2, <1>3, <1>4 DEF ReplayInv

LEMMA ReplayInvNext ==
  ASSUME CacheInv, ReplayInv, [Next]_vars
  PROVE  ReplayInv'
  <1> USE Types
  <1>1. CASE UNCHANGED vars
    BY <1>1
    DEF vars, walVars, pagerVars, ReplayInv, ReplayedWhole, ReplayOver, ReplayMore,
        ReplayedLatest, InCheckpoint
  <1>2. CASE \/ \E p \in PageId, c \in Data : WritePage(p, c)
             \/ AllocatePage
             \/ \E r \in PageId : SetRootPageId(r)
             \/ WriteDone \/ ReadHeader \/ FlushDone \/ Crash
    <2>1. ~InCheckpoint'
      BY <1>2
      DEF WritePage, AllocatePage, SetRootPageId, WriteDone, AppendPage, AppendDone,
          ReadHeader, FlushDone, Crash, Kill, PowerLoss, WalKill, WalPowerLoss, walVars,
          InCheckpoint
    <2> QED
      BY <2>1, NoCheckpoint
  <1>3. CASE Flush \/ OpenExisting
    <2>1. CheckpointBegin
      BY <1>3 DEF Flush, OpenExisting
    <2> QED
      BY <2>1, ReplayInvBegin
  <1>4. CASE OpenNew \/ CreatePage0 \/ CreatePage1 \/ CreateSync
    <2>1. ~InCheckpoint'
      BY <1>4
      DEF OpenNew, CreatePage0, CreatePage1, CreateSync, walVars, CacheInv, TypeInv,
          OpInMode, InCheckpoint
    <2> QED
      BY <2>1, NoCheckpoint
  <1>5. CASE CheckpointStep
    <2>1. CASE ReplayFrame
      BY <2>1, ReplayInvFrame
    <2>2. CASE ReplayStop
      BY <2>2
      DEF ReplayStop, ReplayInv, ReplayedWhole, ReplayOver, ReplayMore,
          ReplayedLatest, InCheckpoint
    <2>3. CASE SyncDb
      BY <2>3
      DEF SyncDb, ReplayInv, ReplayedWhole, ReplayOver, ReplayMore,
          ReplayedLatest, InCheckpoint
    <2>4. CASE TruncateLog
      <3>1. ~InCheckpoint'
        BY <2>4 DEF TruncateLog, InCheckpoint
      <3> QED
        BY <3>1, NoCheckpoint
    <2> QED
      BY <1>5, <2>1, <2>2, <2>3, <2>4 DEF CheckpointStep
  <1> QED
    BY <1>1, <1>2, <1>3, <1>4, <1>5
    DEF Next, ClientStep, Recovery, Progress

-----------------------------------------------------------------------------
\* What is not on the disk yet.

\* A log keeps the frames of a page as chunks are appended to it.
LEMMA FramesStay ==
  ASSUME NEW l \in Seq(Chunk), NEW c \in Chunk, NEW p, FramesOf(l, p) # {}
  PROVE  FramesOf(Append(l, c), p) # {}
  <1> DEFINE m == Append(l, c)
  <1>1. Len(m) = Len(l) + 1 /\ \A i \in 1..Len(l) : m[i] = l[i]
    BY AppendedChunk
  <1> HIDE DEF m
  <1>2. PICK i \in 1..Len(l) : Readable(l, i) /\ l[i].page = p
    BY DEF FramesOf
  <1>3. i \in FramesOf(m, p)
    BY <1>1, <1>2 DEF FramesOf, Readable
  <1> QED
    BY <1>3 DEF m

\* Where the file keeps its content and its copy on the disk, the log may grow.
LEMMA TornGrows ==
  ASSUME CacheInv, TornIsLogged, created' = created, db' = db, dbSynced' = dbSynced,
         log' = log \/ \E c \in Chunk : log' = Append(log, c)
  PROVE  TornIsLogged'
  <1> USE Types
  <1>1. CASE log' = log
    BY <1>1 DEF TornIsLogged
  <1>2. CASE \E c \in Chunk : log' = Append(log, c)
    <2>1. PICK c \in Chunk : log' = Append(log, c)
      BY <1>2
    <2>2. ASSUME created, NEW p \in PageId, db[p] # dbSynced[p]
          PROVE  FramesOf(log', p) # {}
      BY <2>1, <2>2, FramesStay DEF TornIsLogged
    <2> QED
      BY <2>2 DEF TornIsLogged
  <1> QED
    BY <1>1, <1>2

LEMMA SyncInvNext ==
  ASSUME CacheInv, ReplayInv, SyncInv, CreatedOnce, [Next]_vars
  PROVE  SyncInv'
  <1> USE Types DEF SyncInv
  <1>1. NewChunk \in Chunk /\ \A n \in 1..FrameSize-1 : Fragment(FileLen(log), n) \in Chunk
    <2>1. NewChunk \in Chunk /\ NewChunk.start = FileLen(log)
      BY NewChunks DEF CacheInv
    <2>2. FileLen(log) \in Nat /\ 1..FrameSize-1 \subseteq 1..FrameSize
      BY <2>1, ChunkFields, ConstantFacts
    <2> QED
      BY <2>1, <2>2, NewChunks DEF CacheInv
  <1>2. SyncedFirst'
    BY DEF SyncedFirst, Next, vars, walVars, pagerVars, ClientStep, WritePage, AllocatePage,
           SetRootPageId, Flush, AppendPage, CheckpointBegin, Recovery, OpenExisting,
           ReadHeader, OpenNew, CreatePage0, CreatePage1, CreateSync, Progress, WriteDone,
           AppendDone, CheckpointStep, ReplayFrame, ReplayStop, SyncDb, TruncateLog,
           FlushDone, Crash, Kill, PowerLoss, WalKill, WalPowerLoss, CacheInv, TypeInv,
           OpInMode, Creating
  <1>3. CASE ClientStep \/ OpenExisting \/ ReadHeader \/ OpenNew \/ FlushDone \/ UNCHANGED vars
    <2>1. UNCHANGED <<created, db, dbSynced, log>>
      BY <1>3
      DEF ClientStep, WritePage, AllocatePage, SetRootPageId, Flush, AppendPage,
          CheckpointBegin, OpenExisting, ReadHeader, OpenNew, FlushDone, vars, walVars,
          pagerVars
    <2> QED
      BY <1>2, <2>1, TornGrows
  <1>4. CASE WriteDone
    <2>1. UNCHANGED <<created, db, dbSynced>> /\ log' = Append(log, NewChunk)
      BY <1>4 DEF WriteDone, AppendDone, Written
    <2> QED
      BY <1>1, <1>2, <2>1, TornGrows
  <1>5. CASE CheckpointStep /\ ReplayFrame
    <2>1. /\ UNCHANGED <<created, dbSynced, log>>
          /\ db' = [db EXCEPT ![log[cursor].page] = log[cursor].data]
          /\ FramesOf(log, log[cursor].page) # {}
      BY <1>5, CursorReadable DEF CheckpointStep, pagerVars, ReplayFrame
    <2> QED
      BY <1>2, <2>1 DEF TornIsLogged
  <1>6. CASE CheckpointStep /\ ReplayStop
    <2>1. UNCHANGED <<created, db, dbSynced, log>>
      BY <1>6 DEF CheckpointStep, pagerVars, ReplayStop
    <2> QED
      BY <1>2, <2>1, TornGrows
  <1>7. CASE \/ CheckpointStep /\ (SyncDb \/ TruncateLog)
             \/ CreateSync \/ PowerLoss
    <2>1. db' = dbSynced'
      BY <1>7
      DEF CheckpointStep, SyncDb, TruncateLog, CreateSync, PowerLoss, WalPowerLoss,
          SyncedFirst
    <2> QED
      BY <1>2, <2>1 DEF TornIsLogged
  <1>8. CASE CreatePage0 \/ CreatePage1
    <2>1. ~created'
      BY <1>8 DEF CreatePage0, CreatePage1, CreatedOnce, Creating
    <2> QED
      BY <1>2, <2>1 DEF TornIsLogged
  <1>9. CASE Kill
    <2>1. UNCHANGED <<created, db, dbSynced>> /\ LogAfterKill
      BY <1>9 DEF Kill, WalKill, ProcessGone
    <2>2. CASE op = "truncate"
      BY <1>2, <2>1, <2>2 DEF TornIsLogged, SyncedFirst
    <2>3. CASE op # "truncate"
      <3>1. log' = log \/ \E c \in Chunk : log' = Append(log, c)
        BY <1>1, <2>1, <2>3 DEF LogAfterKill
      <3> QED
        BY <1>2, <2>1, <3>1, TornGrows
    <2> QED
      BY <2>2, <2>3
  <1> QED
    BY <1>3, <1>4, <1>5, <1>6, <1>7, <1>8, <1>9
    DEF Next, Recovery, Progress, CheckpointStep, Crash

-----------------------------------------------------------------------------
\* A database is created once.

LEMMA CreatedOnceNext ==
  ASSUME CacheInv, CreatedOnce, CacheInv', [Next]_vars
  PROVE  CreatedOnce'
  <1> USE Types DEF CreatedOnce, DbExists
  <1>1. CASE UNCHANGED vars \/ ClientStep \/ OpenExisting \/ ReadHeader \/ WriteDone
             \/ FlushDone \/ OpenNew
    BY <1>1
    DEF vars, walVars, pagerVars, ClientStep, WritePage, AllocatePage, SetRootPageId,
        Flush, OpenExisting, ReadHeader, WriteDone, FlushDone, OpenNew, Idle,
        AppendPage, AppendDone, CheckpointBegin, Creating
  <1>2. CASE CreatePage0 \/ CreatePage1
    BY <1>2, ConstantFacts DEF CreatePage0, CreatePage1, Creating
  <1>3. CASE CreateSync
    BY <1>3, ConstantFacts DEF CreateSync, Creating, CacheInv, TypeInv, HeaderKnown
  <1>4. CASE CheckpointStep
    <2>1. mode \notin Creating \union {"down"} /\ UNCHANGED <<mode, created>>
      BY <1>4
      DEF CheckpointStep, pagerVars, ReplayFrame, ReplayStop, SyncDb, TruncateLog,
          CacheInv, TypeInv, OpInMode, Creating
    <2>2. db'[0] # Blank
      BY <1>4, <2>1
      DEF CacheInv, OldFile, CheckpointStep, ReplayFrame, ReplayStop, SyncDb, TruncateLog,
          TypeInv, OpInMode
    <2>3. dbSynced' = dbSynced \/ dbSynced' = db'
      BY <1>4 DEF CheckpointStep, ReplayFrame, ReplayStop, SyncDb, TruncateLog
    <2> QED
      BY <2>1, <2>2, <2>3 DEF Creating
  <1>5. CASE Kill
    <2>1. /\ mode' = "down" /\ UNCHANGED <<created, db, dbSynced>>
          /\ mode \notin {"down", "rejected"}
      BY <1>5 DEF Kill, WalKill, ProcessGone
    <2>2. db[0] = Blank => mode \in Creating
      BY <2>1 DEF CacheInv, OldFile, TypeInv, TypeOK, Mode
    <2> QED
      BY <2>1, <2>2 DEF Creating
  <1>6. CASE PowerLoss
    <2>1. db'[0] = Blank => \A p \in PageId : db'[p] = Blank
      BY <1>6 DEF PowerLoss
    <2>2. created => db'[0] # Blank
      <3>1. db'[0] \in {db[0], dbSynced[0], Garbage}
        BY <1>6, ConstantFacts DEF PowerLoss, WalPowerLoss, DbAfterPowerLoss, Survivors
      <3> QED
        BY <3>1, DataAssumption DEF CacheInv, OldFile
    <2>3. mode' = "down" /\ created' = created /\ dbSynced' = db'
      BY <1>6 DEF PowerLoss, WalPowerLoss, ProcessGone
    <2> QED
      BY <2>1, <2>2, <2>3 DEF Creating
  <1> QED
    BY <1>1, <1>2, <1>3, <1>4, <1>5, <1>6 DEF Next, Recovery, Progress, Crash

LEMMA RestorableNext ==
  ASSUME "unsynced" \notin CrashWindows, RecoveryInv, CacheInv', [Next]_vars
  PROVE  Restorable'
  <1> USE Types DEF RecoveryInv
  <1>1. CASE created
    <2>1. WriteOnly /\ (op = "append" => frame.data \in Held(frame.page))
      BY <1>1, StepRestores DEF CreatedOnce, CacheInv, TypeInv, FrameHolds
    <2>2. ASSUME NEW p \in PageId
          PROVE  \/ Recovered(log', db', p) = Recovered(log, db, p)
                 \/ Recovered(log', db', p) \in Held(p)
      BY <2>1 DEF WriteOnly, Frame
    <2>3. Garbage \notin Header /\ Garbage \notin Data /\ 0 \in PageId /\ 1 \in PageId
      BY ConstantFacts, DataAssumption
    <2> QED
      BY <1>1, <2>2, <2>3 DEF Restorable, Held
  <1>2. CASE ~created /\ ~CreateSync
    <2>1. ~created'
      BY <1>2
      DEF Next, vars, walVars, pagerVars, ClientStep, WritePage, AllocatePage,
          SetRootPageId, Flush, Recovery, OpenExisting, ReadHeader, OpenNew,
          CreatePage0, CreatePage1, Progress, WriteDone, CheckpointStep, FlushDone,
          Crash, Kill, PowerLoss, ProcessGone
    <2> QED
      BY <2>1 DEF Restorable
  <1>3. CASE CreateSync
    <2> USE <1>3 DEF CreateSync
    <2>1. log = <<>> /\ log' = <<>> /\ db' = db
      BY DEF CacheInv, NewFile, Creating
    <2>2. \A p \in PageId : Recovered(log', db', p) = db[p]
      BY <2>1, RecoveredFromEmpty
    <2>3. db[0] \in Header /\ db[1] = EmptyLeaf
          /\ \A p \in PageId \ {0, 1} : db[p] = Blank
      BY DEF CacheInv, TypeInv, HeaderKnown, CreatedOnce, Creating
    <2> QED
      BY <2>2, <2>3, ConstantFacts, DataAssumption DEF Restorable
  <1> QED
    BY <1>1, <1>2, <1>3

LEMMA NotRejectedNext ==
  ASSUME RecoveryInv, [Next]_vars
  PROVE  NotRejected'
  <1> USE Types DEF RecoveryInv, NotRejected
  <1>1. CASE ReadHeader
    <2>1. log = <<>> \/ DamagedHead(log)
      BY <1>1 DEF ReadHeader, CacheInv, Settled
    <2>2. created => db[0] \in Header
      BY <2>1, RecoveredFromNothing DEF Restorable
    <2> QED
      BY <1>1, <2>2 DEF ReadHeader
  <1>2. CASE ~ReadHeader
    BY <1>2
    DEF Next, vars, walVars, pagerVars, ClientStep, WritePage, AllocatePage,
        SetRootPageId, Flush, Idle, Recovery, OpenExisting, OpenNew,
        CreatePage0, CreatePage1, CreateSync, Progress, WriteDone, CheckpointStep,
        FlushDone, Crash, Kill, PowerLoss, ProcessGone
  <1> QED
    BY <1>1, <1>2

LEMMA RecoveryInvInit == Init => RecoveryInv
  <1> SUFFICES ASSUME Init PROVE RecoveryInv
    OBVIOUS
  <1>1. CacheInv
    BY CacheInvInit
  <1>2. ReplayInv /\ SyncInv /\ CreatedOnce /\ Restorable /\ NotRejected
    BY DEF Init, ReplayInv, ReplayedWhole, ReplayOver, ReplayedLatest, SyncInv,
           TornIsLogged, SyncedFirst, InCheckpoint, CreatedOnce, DbExists, Creating, Restorable, NotRejected
  <1> QED
    BY <1>1, <1>2 DEF RecoveryInv

LEMMA RecoveryInvNext ==
  ASSUME "unsynced" \notin CrashWindows, RecoveryInv, [Next]_vars
  PROVE  RecoveryInv'
  <1>1. CacheInv'
    BY CacheInvNext DEF RecoveryInv
  <1> QED
    BY <1>1, ReplayInvNext, SyncInvNext, CreatedOnceNext, RestorableNext, NotRejectedNext
    DEF RecoveryInv

LEMMA RecoveryInvAlways == "unsynced" \notin CrashWindows => (Spec => []RecoveryInv)
  <1> SUFFICES ASSUME "unsynced" \notin CrashWindows PROVE Spec => []RecoveryInv
    OBVIOUS
  <1>1. RecoveryInv /\ [Next]_vars => RecoveryInv'
    BY RecoveryInvNext
  <1> QED
    BY <1>1, RecoveryInvInit, PTL DEF Spec

\* Once created, a database is never left without a header or a root page and
\* never with a torn page, wherever a kill or a power failure strikes: open
\* accepts it, and the frames a half-done checkpoint has copied are still there
\* to copy again (wal.rs:76-129, pager.rs:52-74).  Excepted is a power failure
\* on what only a killed process has written, a frame nobody synced above all
\* (wal.rs:66-69, 115-121).
THEOREM CrashUsable == "unsynced" \notin CrashWindows => (Spec => []CrashLeavesUsable)
  <1> SUFFICES ASSUME "unsynced" \notin CrashWindows PROVE Spec => []CrashLeavesUsable
    OBVIOUS
  <1>1. RecoveryInv => CrashLeavesUsable
    BY DataAssumption
    DEF RecoveryInv, Restorable, NotRejected, CrashLeavesUsable
  <1> QED
    BY <1>1, RecoveryInvAlways, PTL

\* What recovery would restore changes only when the write in flight reaches
\* the log, entirely: no step of a checkpoint, of open or of a crash, and no
\* sequence of them, loses, reorders or revives a page (wal.rs:55-129,
\* pager.rs:23-84, 122-153), under the same condition.
THEOREM RecoveredByWrites ==
  "unsynced" \notin CrashWindows => (Spec => OnlyWritesChangeRecovered)
  <1> SUFFICES ASSUME "unsynced" \notin CrashWindows PROVE Spec => OnlyWritesChangeRecovered
    OBVIOUS
  <1>1. RecoveryInv /\ [Next]_vars =>
          [created => \A p \in PageId :
             LET now == Recovered(log, db, p)
                 next == Recovered(log', db', p)
             IN  next # now => op = "append" /\ frame = [page |-> p, data |-> next]]_vars
    <2> SUFFICES ASSUME RecoveryInv, [Next]_vars, created, NEW p \in PageId,
                        Recovered(log', db', p) # Recovered(log, db, p)
                 PROVE  op = "append"
                        /\ frame = [page |-> p, data |-> Recovered(log', db', p)]
      OBVIOUS
    <2>1. WriteOnly
      BY StepRestores DEF RecoveryInv, CreatedOnce
    <2> QED
      BY <2>1 DEF WriteOnly
  <1> QED
    BY <1>1, RecoveryInvAlways, PTL DEF Spec, OnlyWritesChangeRecovered
================================================================================
