--------------------------- MODULE PagerRefinement ---------------------------
(***************************************************************************)
(* The pager implements the abstract durable store, for every number of    *)
(* pages, every page content and every frame size, as long as no crash     *)
(* strikes in one of the windows it cannot recover from.  As long, the     *)
(* header in the store counts every page that holds something and names a  *)
(* root page that does, and the fields in memory are those of that header. *)
(***************************************************************************)
EXTENDS PagerRecovery

\* A log that is not empty starts with a frame of full length, so a checkpoint
\* always has something to read and truncates it.
FullHead(l) == l # <<>> => l[1].len = FrameSize
HeadFull == FullHead(log) /\ FullHead(logSynced)
SettledEmpty == mode \in {"opening", "flushing"} /\ op = "none" => log = <<>>
AppendsWhole == mode = "running" => AllWhole(log)
\* A file that is there is one whose creation was completed.
Complete ==
  ~created => dbSynced[0] = Blank /\ (mode \in Creating \/ (mode = "down" /\ ~DbExists))
\* What init_new_database writes.
NewFields ==
  /\ mode \in Creating => pageCount = 2 /\ rootPageId = 1 /\ ~created
  /\ mode \in {"createPage1", "createSync"} => db[0] = NewHeader

SafeInv == RecoveryInv /\ HeadFull /\ SettledEmpty /\ AppendsWhole /\ Complete /\ NewFields

-----------------------------------------------------------------------------
LEMMA SafeInvInit == Init => SafeInv
  <1> SUFFICES ASSUME Init PROVE SafeInv
    OBVIOUS
  <1>1. RecoveryInv
    BY RecoveryInvInit
  <1>2. HeadFull /\ SettledEmpty /\ AppendsWhole /\ Complete /\ NewFields
    BY ConstantFacts
    DEF Init, HeadFull, FullHead, SettledEmpty, AppendsWhole, Complete, NewFields, DbExists,
        Creating
  <1> QED
    BY <1>1, <1>2 DEF SafeInv

\* The log, as long as no crash leaves a fragment at its head.
LEMMA HeadFullNext ==
  ASSUME "logHead" \notin CrashWindows, CacheInv, HeadFull, [Next]_vars
  PROVE  HeadFull'
  <1> USE Types, ConstantFacts DEF HeadFull, FullHead
  <1>1. NewChunk \in Chunk /\ NewChunk.len = FrameSize
    BY NewChunks DEF CacheInv
  <1>2. CASE WriteDone
    <2>1. log' = Append(log, NewChunk) /\ logSynced' = log'
      BY <1>2 DEF WriteDone, AppendDone, Written
    <2> HIDE DEF NewChunk
    <2>2. /\ Len(log') = Len(log) + 1 /\ log'[Len(log) + 1] = NewChunk
          /\ \A i \in 1..Len(log) : log'[i] = log[i]
      BY <1>1, <2>1, AppendedChunk
    <2> QED
      BY <1>1, <2>1, <2>2
  <1>3. CASE Crash
    <2>1. FullHead(log')
      BY <1>3
      DEF Crash, Kill, PowerLoss, WalKill, WalPowerLoss, LogAfterKill, LogAfterPowerLoss,
          HeadSpared
    <2>2. logSynced' = logSynced \/ logSynced' = log'
      BY <1>3 DEF Crash, Kill, PowerLoss, WalKill, WalPowerLoss
    <2> QED
      BY <2>1, <2>2
  <1>4. CASE TruncateLog
    BY <1>4 DEF TruncateLog
  <1>5. CASE UNCHANGED <<log, logSynced>>
    BY <1>5
  <1> QED
    BY <1>2, <1>3, <1>4, <1>5
    DEF Next, vars, walVars, ClientStep, WritePage, AllocatePage, SetRootPageId,
        AppendPage, Flush, CheckpointBegin, Recovery, OpenExisting, ReadHeader,
        OpenNew, CreatePage0, CreatePage1, CreateSync, Progress, CheckpointStep,
        ReplayFrame, ReplayStop, SyncDb, FlushDone

LEMMA SettledEmptyNext ==
  ASSUME CacheInv, HeadFull, SettledEmpty, AppendsWhole, [Next]_vars
  PROVE  SettledEmpty' /\ AppendsWhole'
  <1> USE Types DEF SettledEmpty, AppendsWhole
  <1>1. CASE OpenExisting \/ Flush
    <2>1. FileLen(log) \div FrameSize = 0 => log = <<>>
      <3> SUFFICES ASSUME log # <<>> PROVE FileLen(log) \div FrameSize # 0
        OBVIOUS
      <3>1. FileLen(log) \in Nat /\ FileLen(log) >= FrameSize
        BY HeadFits DEF HeadFull, FullHead, CacheInv, HeadCounted
      <3> QED
        BY <3>1, ConstantFacts
    <2> QED
      BY <1>1, <2>1 DEF OpenExisting, Flush, CheckpointBegin
  <1>2. CASE WriteDone
    <2>1. NewChunk \in Chunk /\ Whole(NewChunk)
      BY NewChunks DEF CacheInv
    <2>2. mode = "running" /\ mode' = "running" /\ log' = Append(log, NewChunk)
      BY <1>2 DEF WriteDone, AppendDone, Written, CacheInv, TypeInv, OpInMode
    <2> HIDE DEF NewChunk
    <2>3. AllWhole(log')
      BY <2>1, <2>2, AppendedChunk DEF AllWhole
    <2> QED
      BY <2>2, <2>3
  <1>3. CASE ReadHeader \/ FlushDone \/ CreateSync
    <2>1. log = <<>> /\ log' = log
      BY <1>3 DEF ReadHeader, FlushDone, CreateSync, walVars, CacheInv, NewFile, Creating
    <2>2. AllWhole(log')
      BY <2>1 DEF AllWhole
    <2> QED
      BY <1>3, <2>1, <2>2 DEF ReadHeader, FlushDone, CreateSync, walVars
  <1>4. CASE CheckpointStep
    <2>1. mode \in {"opening", "flushing"} /\ mode' = mode
      BY <1>4
      DEF CheckpointStep, pagerVars, ReplayFrame, ReplayStop, SyncDb, TruncateLog,
          CacheInv, TypeInv, OpInMode
    <2> QED
      BY <1>4, <2>1 DEF CheckpointStep, ReplayFrame, ReplayStop, SyncDb, TruncateLog
  <1>5. CASE OpenNew \/ CreatePage0 \/ CreatePage1 \/ Crash
    BY <1>5 DEF OpenNew, CreatePage0, CreatePage1, Crash, Kill, PowerLoss, ProcessGone, Creating
  <1>6. CASE UNCHANGED <<log, mode>> /\ mode \notin {"opening", "flushing"}
    BY <1>6 DEF AllWhole
  <1>7. CASE UNCHANGED vars
    BY <1>7 DEF vars, walVars, pagerVars, AllWhole
  <1> QED
    BY <1>1, <1>2, <1>3, <1>4, <1>5, <1>6, <1>7
    DEF Next, ClientStep, WritePage, AllocatePage, SetRootPageId, AppendPage, Idle,
        pagerVars, Recovery, Progress

LEMMA CompleteNext ==
  ASSUME "create" \notin CrashWindows, CacheInv, CreatedOnce, Complete, NewFields,
         [Next]_vars
  PROVE  Complete' /\ NewFields'
  <1> USE Types DEF Complete, NewFields, DbExists
  <1>1. CASE created
    <2>1. created'
      BY <1>1
      DEF Next, vars, walVars, pagerVars, ClientStep, WritePage, AllocatePage,
          SetRootPageId, Flush, Recovery, OpenExisting, ReadHeader, OpenNew,
          CreatePage0, CreatePage1, CreateSync, Progress, WriteDone, CheckpointStep,
          FlushDone, Crash, Kill, PowerLoss, ProcessGone
    <2>2. mode' \notin Creating
      BY <1>1
      DEF Next, vars, walVars, pagerVars, ClientStep, WritePage, AllocatePage,
          SetRootPageId, Flush, Recovery, OpenExisting, ReadHeader, OpenNew,
          CreatePage0, CreatePage1, CreateSync, Progress, WriteDone, CheckpointStep,
          FlushDone, Crash, Kill, PowerLoss, ProcessGone, CreatedOnce, Creating, Idle
    <2> QED
      BY <2>1, <2>2 DEF Creating
  <1>2. CASE ~created
    <2>1. mode \in Creating \union {"down"} /\ op = "none"
      BY <1>2 DEF CacheInv, TypeInv, OpInMode, Creating, WalOp
    <2>2. CASE OpenNew
      BY <1>2, <2>2, ConstantFacts DEF OpenNew, NewHeader, Creating
    <2>3. CASE CreatePage0
      BY <1>2, <2>3, ConstantFacts DEF CreatePage0, NewHeader, Creating
    <2>4. CASE CreatePage1
      BY <1>2, <2>4, ConstantFacts DEF CreatePage1, Creating
    <2>5. CASE CreateSync
      BY <2>5 DEF CreateSync, Creating
    <2>6. CASE Kill
      BY <1>2, <2>1, <2>6 DEF Kill, WalKill, ProcessGone, Creating
    <2>7. CASE PowerLoss
      <3>1. db'[0] \in {db[0], dbSynced[0]} \/ mode \in Creating
        BY <1>2, <2>1, <2>7, ConstantFacts
        DEF PowerLoss, WalPowerLoss, DbAfterPowerLoss, Survivors
      <3>2. db'[0] = Blank
        BY <1>2, <2>1, <2>7, <3>1 DEF PowerLoss
      <3>3. mode' = "down" /\ created' = created /\ dbSynced' = db'
        BY <2>7 DEF PowerLoss, WalPowerLoss, ProcessGone
      <3> QED
        BY <3>2, <3>3 DEF Creating
    <2>8. CASE UNCHANGED vars
      BY <2>8 DEF vars, walVars, pagerVars, Creating
    <2> QED
      BY <1>2, <2>1, <2>2, <2>3, <2>4, <2>5, <2>6, <2>7, <2>8
      DEF Next, Crash, ClientStep, WritePage, AllocatePage, SetRootPageId, Flush, Idle,
          Recovery, OpenExisting, ReadHeader, Progress, WriteDone, CheckpointStep,
          ReplayFrame, ReplayStop, SyncDb, TruncateLog, FlushDone, Creating, DbExists
  <1> QED
    BY <1>1, <1>2

LEMMA SafeInvNext ==
  ASSUME CrashWindows = {}, SafeInv, [Next]_vars
  PROVE  SafeInv'
  <1>1. RecoveryInv'
    BY RecoveryInvNext DEF SafeInv
  <1> QED
    BY <1>1, HeadFullNext, SettledEmptyNext, CompleteNext DEF SafeInv, RecoveryInv

LEMMA SafeInvAlways == CrashWindows = {} => (Spec => []SafeInv)
  <1> SUFFICES ASSUME CrashWindows = {} PROVE Spec => []SafeInv
    OBVIOUS
  <1>1. SafeInv /\ [Next]_vars => SafeInv'
    BY SafeInvNext
  <1> QED
    BY <1>1, SafeInvInit, PTL DEF Spec

-----------------------------------------------------------------------------
\* A running pager's log never opens with a fragment, so every acknowledged
\* write is one recovery restores (README.md:140-142), provided no crash leaves
\* a lone fragment in an empty log (wal.rs:80-82) and none of the other windows
\* is hit.
THEOREM AckedRecoverable == CrashWindows = {} => (Spec => []AckedIsRecoverable)
  <1> SUFFICES ASSUME CrashWindows = {} PROVE Spec => []AckedIsRecoverable
    OBVIOUS
  <1>1. SafeInv => AckedIsRecoverable
    <2> SUFFICES ASSUME SafeInv, Idle PROVE ~DamagedHead(log)
      BY DEF SafeInv, RecoveryInv, CacheInv, Coherent, AckedIsRecoverable, Idle
    <2>1. AllWhole(log) /\ Len(log) \in Nat
      BY Types DEF SafeInv, RecoveryInv, AppendsWhole, Idle
    <2> QED
      BY <2>1, Types DEF AllWhole, DamagedHead, SafeInv, RecoveryInv
  <1> QED
    BY <1>1, SafeInvAlways, PTL

\* open never refuses the file it finds (pager.rs:58-74), provided no crash
\* leaves a database half created or hits another window: a file that is there was created to the end,
\* and recovery brings its header back.
THEOREM OpenSucceeds == CrashWindows = {} => (Spec => []OpenAccepts)
  <1> SUFFICES ASSUME CrashWindows = {} PROVE Spec => []OpenAccepts
    OBVIOUS
  <1>1. SafeInv => OpenAccepts
    BY DEF SafeInv, Complete, RecoveryInv, NotRejected, Creating, OpenAccepts
  <1> QED
    BY <1>1, SafeInvAlways, PTL

-----------------------------------------------------------------------------
\* The refinement.

Stored == [p \in PageId |-> IF created THEN Recovered(log, db, p) ELSE FreshDb[p]]
Flying == IF op = "append" THEN {frame} ELSE {}
Serving == mode \in {"running", "flushing"}

LEMMA ServingSame ==
  ASSUME mode' = mode \/ (~Serving /\ ~Serving') \/ (Serving /\ Serving')
  PROVE  Serving' = Serving
  <1>1. Serving \in BOOLEAN /\ Serving' \in BOOLEAN
    BY DEF Serving
  <1>2. CASE mode' = mode
    BY <1>2 DEF Serving
  <1>3. CASE (~Serving /\ ~Serving') \/ (Serving /\ Serving')
    BY <1>1, <1>3, Zenon
  <1> QED
    BY <1>2, <1>3

\* Steps that leave the files, the write in flight and the process alone.
LEMMA StepStutters ==
  ASSUME created' = created, log' = log, db' = db, Flying' = Flying, Serving' = Serving
  PROVE  UNCHANGED <<Stored, Flying, Serving>>
  BY DEF Stored

LEMMA InitRefines == Init => Durable!StoreInit
  <1> SUFFICES ASSUME Init PROVE Durable!StoreInit
    OBVIOUS
  <1>1. Stored = FreshDb /\ Flying = {} /\ ~Serving
    BY DEF Init, Stored, Flying, Serving, FreshDb
  <1> QED
    BY <1>1 DEF Durable!StoreInit, Stored, Flying, Serving

\* A write starts.
LEMMA BeginRefines ==
  ASSUME SafeInv, Idle, NEW p, NEW c, AppendPage(p, c), frame' \in Frame,
         mode' = mode, created' = created
  PROVE  Durable!Begin
  <1>1. Stored' = Stored /\ Flying = {} /\ Flying' = {frame'} /\ Serving /\ Serving'
    BY DEF Stored, Flying, Serving, Idle, AppendPage
  <1>2. frame' \in Durable!Write
    BY DEF Durable!Write, Frame
  <1>3. Durable!BeginWrite(frame')
    BY <1>1 DEF Durable!BeginWrite, Stored, Flying, Serving
  <1> QED
    BY <1>2, <1>3, Zenon DEF Durable!Begin

\* A write is acknowledged.
LEMMA AcknowledgeRefines ==
  ASSUME SafeInv, WriteDone
  PROVE  Durable!Acknowledge
  <1> USE Types DEF SafeInv, RecoveryInv
  <1>1. /\ NewChunk \in Chunk /\ Whole(NewChunk)
        /\ NewChunk.page = frame.page /\ NewChunk.data = frame.data
    BY NewChunks DEF CacheInv
  <1>2. /\ op = "append" /\ op' = "none" /\ log' = Append(log, NewChunk) /\ db' = db
        /\ mode = "running" /\ mode' = "running" /\ created' = created
    BY DEF WriteDone, AppendDone, Written
  <1> HIDE DEF NewChunk
  <1>3. created
    BY <1>2 DEF Complete, Creating
  <1>4. AllWhole(log)
    BY <1>2 DEF AppendsWhole
  <1>5. ASSUME NEW p \in PageId
        PROVE  Recovered(log', db', p)
               = IF p = frame.page THEN frame.data ELSE Recovered(log, db, p)
    <2>1. Recovered(Append(log, NewChunk), db, p)
          = IF p = NewChunk.page THEN NewChunk.data ELSE Recovered(log, db, p)
      BY <1>1, <1>4, RecoveredAfterWhole
    <2> QED
      BY <1>1, <1>2, <2>1
  <1>6. Stored' = [Stored EXCEPT ![frame.page] = frame.data]
    BY <1>2, <1>3, <1>5 DEF Stored
  <1>7. Flying = {frame} /\ Flying' = {} /\ Serving /\ Serving'
    BY <1>2 DEF Flying, Serving
  <1> QED
    BY <1>6, <1>7 DEF Durable!Acknowledge, Durable!Applied, Stored, Flying, Serving

\* The process dies while it serves.
LEMMA FailRefines ==
  ASSUME CrashWindows = {}, SafeInv, Crash, Serving
  PROVE  Durable!Fail
  <1> USE Types DEF SafeInv, RecoveryInv
  <1>1. created /\ created' /\ mode \notin Creating
    BY DEF Complete, Creating, Serving, Crash, Kill, PowerLoss, ProcessGone
  <1>2. WriteOnly
    BY <1>1, CrashRestores
  <1>3. Flying' = {} /\ ~Serving'
    BY DEF Crash, Kill, PowerLoss, WalKill, WalPowerLoss, ProcessGone, Flying, Serving
  <1>4. CASE op = "append"
    <2>1. \/ \A p \in PageId : Recovered(log', db', p) = Recovered(log, db, p)
          \/ \A p \in PageId :
               Recovered(log', db', p)
               = IF p = frame.page THEN frame.data ELSE Recovered(log, db, p)
      BY <1>2 DEF WriteOnly
    <2>2. Stored' = Stored \/ Stored' = [Stored EXCEPT ![frame.page] = frame.data]
      BY <1>1, <2>1 DEF Stored
    <2>3. Flying = {frame}
      BY <1>4 DEF Flying
    <2>4. CASE Stored' = Stored
      BY <1>3, <2>4 DEF Durable!Fail, Stored, Flying, Serving
    <2>5. CASE Stored' = [Stored EXCEPT ![frame.page] = frame.data]
      <3>1. frame \in Flying /\ Stored' = Durable!Applied(frame)
        BY <2>3, <2>5 DEF Durable!Applied, Stored
      <3> QED
        BY <1>3, <3>1 DEF Durable!Fail, Stored, Flying, Serving
    <2> QED
      BY <2>2, <2>4, <2>5
  <1>5. CASE op # "append"
    <2>1. Stored' = Stored
      BY <1>1, <1>2, <1>5 DEF WriteOnly, Stored
    <2> QED
      BY <1>3, <2>1 DEF Durable!Fail, Stored, Flying, Serving
  <1> QED
    BY <1>4, <1>5

\* The process starts to serve: it has read the header, or created the file.
LEMMA ServeRefines ==
  ASSUME SafeInv, \/ ReadHeader
                  \/ CreateSync
  PROVE  Durable!Serve
  <1> USE Types DEF SafeInv, RecoveryInv
  <1>1. CASE ReadHeader
    <2>1. created /\ log = <<>>
      BY <1>1 DEF ReadHeader, Complete, Creating, SettledEmpty
    <2>2. db[0] \in Header
      BY <2>1, RecoveredFromEmpty DEF Restorable
    <2>3. ~Serving /\ Serving' /\ UNCHANGED <<Stored, Flying>>
      BY <1>1, <2>2 DEF ReadHeader, Serving, Stored, Flying, walVars
    <2> QED
      BY <2>3 DEF Durable!Serve, Stored, Flying, Serving
  <1>2. CASE CreateSync
    <2>1. /\ log = <<>> /\ db[0] = NewHeader /\ db[1] = EmptyLeaf /\ ~created
          /\ \A p \in PageId \ {0, 1} : db[p] = Blank
      BY <1>2
      DEF CreateSync, CacheInv, NewFile, Creating, NewFields, CreatedOnce
    <2>2. \A p \in PageId : Recovered(log, db, p) = FreshDb[p]
      BY <2>1, RecoveredFromEmpty DEF FreshDb
    <2>3. Stored' = Stored
      BY <1>2, <2>1, <2>2 DEF CreateSync, Stored
    <2>4. ~Serving /\ Serving' /\ Flying' = Flying
      BY <1>2 DEF CreateSync, Serving, Flying
    <2> QED
      BY <2>3, <2>4 DEF Durable!Serve, Stored, Flying, Serving
  <1> QED
    BY <1>1, <1>2

LEMMA StepRefines ==
  ASSUME CrashWindows = {}, SafeInv, SafeInv', [Next]_vars
  PROVE  Durable!StoreNext \/ UNCHANGED <<Stored, Flying, Serving>>
  <1> USE Types DEF SafeInv, RecoveryInv
  <1>1. CASE \/ \E p \in PageId, c \in Data : WritePage(p, c)
             \/ AllocatePage
             \/ \E r \in PageId : SetRootPageId(r)
    <2>1. frame' \in Frame
      BY DEF CacheInv, TypeInv, TypeOK, WalTypeOK
    <2>2. \E p, c : AppendPage(p, c) /\ Idle /\ mode' = mode /\ created' = created
      BY <1>1 DEF WritePage, AllocatePage, SetRootPageId, pagerVars
    <2> QED
      BY <2>1, <2>2, BeginRefines DEF Durable!StoreNext
  <1>2. CASE WriteDone
    BY <1>2, AcknowledgeRefines DEF Durable!StoreNext
  <1>3. CASE Crash /\ Serving
    BY <1>3, FailRefines DEF Durable!StoreNext
  <1>4. CASE Crash /\ ~Serving
    <2>1. Flying = {} /\ Flying' = {} /\ ~Serving'
      BY <1>4
      DEF Crash, Kill, PowerLoss, WalKill, WalPowerLoss, ProcessGone, Flying, Serving,
          CacheInv, TypeInv, OpInMode
    <2>2. Stored' = Stored
      <3>1. CASE ~created
        BY <1>4, <3>1 DEF Crash, Kill, PowerLoss, ProcessGone, Stored
      <3>2. CASE created
        <4>1. WriteOnly /\ op # "append"
          BY <1>4, <3>2, CrashRestores
          DEF Serving, CacheInv, TypeInv, OpInMode
        <4> QED
          BY <1>4, <3>2, <4>1 DEF Crash, Kill, PowerLoss, ProcessGone, WriteOnly, Stored
      <3> QED
        BY <3>1, <3>2
    <2> QED
      BY <1>4, <2>1, <2>2, ServingSame
  <1>5. CASE ReadHeader \/ CreateSync
    BY <1>5, ServeRefines DEF Durable!StoreNext
  <1>6. CASE CheckpointStep
    <2>1. /\ mode' = mode /\ created' = created /\ mode \notin Creating
          /\ op # "append" /\ op' # "append"
      BY <1>6
      DEF CheckpointStep, pagerVars, ReplayFrame, ReplayStop, SyncDb, TruncateLog,
          CacheInv, TypeInv, OpInMode, Creating
    <2>2. WriteOnly /\ created
      BY <1>6, <2>1, StepRestores
      DEF Next, Progress, Complete, CheckpointStep, ReplayFrame, ReplayStop, SyncDb,
          TruncateLog, CacheInv, TypeInv, OpInMode
    <2>3. Stored' = Stored
      BY <2>1, <2>2 DEF WriteOnly, Stored
    <2> QED
      BY <2>1, <2>3 DEF Flying, Serving
  <1>7. CASE CreatePage0 \/ CreatePage1
    <2>1. ~created /\ ~created'
      BY <1>7 DEF CreatePage0, CreatePage1, CreatedOnce, Creating
    <2>2. Stored' = Stored
      BY <2>1 DEF Stored
    <2>3. Flying' = Flying /\ ~Serving /\ ~Serving'
      BY <1>7 DEF CreatePage0, CreatePage1, Flying, Serving
    <2> QED
      BY <2>2, <2>3, ServingSame
  <1>8. CASE Flush \/ FlushDone \/ OpenExisting \/ OpenNew \/ UNCHANGED vars
    <2>1. created' = created /\ log' = log /\ db' = db
      BY <1>8
      DEF Flush, FlushDone, OpenExisting, OpenNew, CheckpointBegin, vars, walVars,
          pagerVars
    <2>2. Flying' = Flying
      BY <1>8
      DEF Flush, FlushDone, OpenExisting, OpenNew, CheckpointBegin, vars,
          walVars, pagerVars, Flying
    <2>3. mode' = mode \/ (~Serving /\ ~Serving') \/ (Serving /\ Serving')
      BY <1>8
      DEF Flush, FlushDone, OpenExisting, OpenNew, Idle, vars, pagerVars, Serving
    <2> QED
      BY <2>1, <2>2, <2>3, ServingSame, StepStutters
  <1> QED
    BY <1>1, <1>2, <1>3, <1>4, <1>5, <1>6, <1>7, <1>8
    DEF Next, ClientStep, Recovery, Progress

\* Every behaviour of the pager is one of an atomic, durable page store: a write
\* it acknowledges stays, a write a crash interrupts is there entirely or not at
\* all, nothing else is ever seen to happen (README.md:63-64, 131-142).  This is
\* so as long as all crash windows stay closed; with "unsynced" open a page can be
\* torn with no write in flight (wal.rs:66-69, 115-121).
THEOREM PagerImplementsStore == CrashWindows = {} => (Spec => ImplementsStore)
  <1> SUFFICES ASSUME CrashWindows = {} PROVE Spec => ImplementsStore
    OBVIOUS
  <1>1. SafeInv /\ SafeInv' /\ [Next]_vars => [Durable!StoreNext]_(Durable!storeVars)
    BY StepRefines DEF Durable!storeVars, Stored, Flying, Serving
  <1> QED
    BY <1>1, InitRefines, SafeInvAlways, PTL DEF Spec, ImplementsStore, Durable!StoreSpec

-----------------------------------------------------------------------------

Top == Stored[0]

\* The header counts the pages and leads to a root page.
CountsPages == \A p \in PageId : Stored[p] # Blank => p < Top.pageCount
LeadsToRoot == Top \in Header /\ Top.root # 0 /\ Stored[Top.root] \in Data

\* The write in flight leaves it so.
CountedFrame ==
  op = "append" =>
    IF frame.page = 0
      THEN /\ frame.data \in Header
           /\ frame.data.pageCount >= Top.pageCount
           /\ frame.data.root # 0
           /\ Stored[frame.data.root] \in Data
      ELSE frame.data \in Data /\ frame.page < Top.pageCount

\* page_count and root_page_id are what the header will say once it is written.
FieldsOfHeader ==
  Serving =>
    LET header == IF op = "append" /\ frame.page = 0 THEN frame.data ELSE Top
    IN  pageCount = header.pageCount /\ rootPageId = header.root

CountInv == CountsPages /\ LeadsToRoot /\ CountedFrame /\ FieldsOfHeader

-----------------------------------------------------------------------------
LEMMA StoredTypes ==
  /\ PageId \subseteq Nat /\ 0 \in PageId /\ 1 \in PageId
  /\ DOMAIN Stored = PageId
  /\ \A h \in Header : h.pageCount \in Nat /\ h.root \in PageId
  /\ Blank \notin Data /\ Blank \notin Header /\ Garbage \notin Data
  /\ Header \intersect Data = {}
  BY ConstantFacts, DataAssumption DEF Stored, Header, PageCount, PageId

\* What a reader sees between two calls is what is stored.
LEMMA ReadsStored ==
  ASSUME SafeInv, Idle, NEW p \in PageId
  PROVE  ReadPage(p) = Stored[p] /\ Recovered(log, db, p) = Stored[p]
  <1>1. created
    BY DEF SafeInv, Complete, Creating, Idle
  <1>2. ReadsAreDurable /\ ~DamagedHead(log)
    BY Types
    DEF SafeInv, RecoveryInv, CacheInv, Coherent, ReadsAreDurable, AppendsWhole, AllWhole,
        DamagedHead, Idle
  <1> QED
    BY <1>1, <1>2 DEF ReadsAreDurable, Stored

\* The store changes by the write in flight, which is then no longer in flight.
LEMMA StepStored ==
  ASSUME CrashWindows = {}, SafeInv, SafeInv', [Next]_vars
  PROVE  \/ Stored' = Stored
         \/ /\ op = "append" /\ op' # "append"
            /\ Stored' = [Stored EXCEPT ![frame.page] = frame.data]
  <1>1. Durable!StoreNext \/ UNCHANGED <<Stored, Flying, Serving>>
    BY StepRefines
  <1>2. CASE UNCHANGED <<Stored, Flying, Serving>>
    BY <1>2
  <1>3. CASE Durable!Serve \/ Durable!Begin
    BY <1>3
    DEF Durable!Serve, Durable!Begin, Durable!BeginWrite, Stored, Flying, Serving
  <1>4. CASE Durable!Acknowledge \/ Durable!Fail
    <2>1. Flying' = {} /\ (Stored' = Stored \/ \E w \in Flying : Stored' = [Stored EXCEPT ![w.page] = w.data])
      BY <1>4
      DEF Durable!Acknowledge, Durable!Fail, Durable!Applied, Stored, Flying, Serving
    <2> QED
      BY <2>1 DEF Flying
  <1> QED
    BY <1>1, <1>2, <1>3, <1>4 DEF Durable!StoreNext

-----------------------------------------------------------------------------
\* Each step keeps the count.

LEMMA CountInvInit == Init => CountInv
  <1> SUFFICES ASSUME Init PROVE CountInv
    OBVIOUS
  <1>1. Stored = FreshDb
    BY DEF Init, Stored, FreshDb
  <1>2. NewHeader \in Header /\ NewHeader.pageCount = 2 /\ NewHeader.root = 1
    BY ConstantFacts DEF NewHeader, Header
  <1>3. Top = NewHeader /\ Stored[1] = EmptyLeaf
    BY <1>1, StoredTypes DEF FreshDb, Top
  <1>4. CountsPages /\ LeadsToRoot
    BY <1>1, <1>2, <1>3, StoredTypes, ConstantFacts, DataAssumption
    DEF FreshDb, CountsPages, LeadsToRoot
  <1> QED
    BY <1>4 DEF Init, CountInv, CountedFrame, FieldsOfHeader, Serving

\* A write starts: the store is as before.
LEMMA CountInvWritePage ==
  ASSUME SafeInv, CountInv, Stored' = Stored, NEW p \in PageId, NEW c \in Data, WritePage(p, c)
  PROVE  CountInv'
  <1>1. /\ frame' = [page |-> p, data |-> c] /\ op' = "append" /\ op = "none" /\ Serving
        /\ p \in 1..pageCount-1 /\ pageCount' = pageCount /\ rootPageId' = rootPageId
    BY DEF WritePage, AppendPage, Idle, pagerVars, Serving
  <1>2. pageCount = Top.pageCount /\ rootPageId = Top.root
    BY <1>1 DEF CountInv, FieldsOfHeader
  <1>3. p # 0 /\ p < Top.pageCount
    BY <1>1, <1>2, StoredTypes DEF CountInv, LeadsToRoot
  <1> QED
    BY <1>1, <1>2, <1>3
    DEF CountInv, CountsPages, LeadsToRoot, CountedFrame, FieldsOfHeader, Top

LEMMA CountInvAllocatePage ==
  ASSUME SafeInv, CountInv, Stored' = Stored, AllocatePage, TypeInv'
  PROVE  CountInv'
  <1>1. /\ frame' = [page |-> 0, data |-> [ReadPage(0) EXCEPT !.pageCount = pageCount + 1]]
        /\ op' = "append" /\ op = "none" /\ Serving /\ Idle
        /\ pageCount' = pageCount + 1 /\ rootPageId' = rootPageId
    BY DEF AllocatePage, AppendPage, Idle, Serving
  <1>2. pageCount = Top.pageCount /\ rootPageId = Top.root
    BY <1>1 DEF CountInv, FieldsOfHeader
  <1>3. ReadPage(0) = Top /\ Top \in Header
    BY <1>1, ReadsStored, StoredTypes DEF Top, CountInv, LeadsToRoot
  <1>4. /\ frame'.data \in Header
        /\ frame'.data.pageCount = pageCount + 1 /\ frame'.data.root = Top.root
    <2>1. pageCount \in PageCount /\ pageCount <= MaxPageId
      BY <1>2, <1>3 DEF Header, AllocatePage
    <2>2. pageCount + 1 \in PageCount
      BY <2>1, MaxPageIdAssumption DEF PageCount
    <2> QED
      BY <1>1, <1>3, <2>2 DEF Header
  <1> QED
    BY <1>1, <1>2, <1>3, <1>4, StoredTypes
    DEF CountInv, CountsPages, LeadsToRoot, CountedFrame, FieldsOfHeader, Top

LEMMA CountInvSetRootPageId ==
  ASSUME SafeInv, CountInv, Stored' = Stored, NEW r \in PageId, ReadPage(r) \in Data,
         SetRootPageId(r)
  PROVE  CountInv'
  <1>1. /\ frame' = [page |-> 0, data |-> [ReadPage(0) EXCEPT !.root = r]]
        /\ op' = "append" /\ op = "none" /\ Serving /\ Idle
        /\ pageCount' = pageCount /\ rootPageId' = r /\ r \in 1..pageCount-1
    BY DEF SetRootPageId, AppendPage, Idle, Serving
  <1>2. pageCount = Top.pageCount
    BY <1>1 DEF CountInv, FieldsOfHeader
  <1>3. ReadPage(0) = Top /\ Top \in Header /\ Stored[r] \in Data
    BY <1>1, ReadsStored, StoredTypes DEF Top, CountInv, LeadsToRoot
  <1>4. /\ frame'.data \in Header /\ r # 0
        /\ frame'.data.pageCount = pageCount /\ frame'.data.root = r
    BY <1>1, <1>2, <1>3, StoredTypes DEF Header
  <1> QED
    BY <1>1, <1>2, <1>3, <1>4, StoredTypes
    DEF CountInv, CountsPages, LeadsToRoot, CountedFrame, FieldsOfHeader, Top

\* The write in flight arrives, acknowledged or left behind by a crash.
LEMMA CountInvArrives ==
  ASSUME SafeInv, CountInv, op = "append", op' # "append",
         Stored' = [Stored EXCEPT ![frame.page] = frame.data],
         \/ ~Serving'
         \/ Serving /\ UNCHANGED <<pageCount, rootPageId>>
  PROVE  CountInv'
  <1>1. frame.page \in PageId
    BY Types DEF SafeInv, RecoveryInv, Frame
  <1>2. CASE frame.page = 0
    <2>1. Top' = frame.data /\ \A p \in PageId \ {0} : Stored'[p] = Stored[p]
      BY <1>2, StoredTypes DEF Top
    <2>2. /\ frame.data \in Header /\ frame.data.pageCount >= Top.pageCount
          /\ frame.data.root # 0 /\ Stored[frame.data.root] \in Data
      BY <1>2 DEF CountInv, CountedFrame
    <2>3. Top.pageCount \in Nat /\ frame.data.pageCount \in Nat /\ Stored[0] # Blank
          /\ frame.data.root \in PageId
      BY <2>2, StoredTypes DEF CountInv, LeadsToRoot, Top
    <2>4. CountsPages'
      BY <2>1, <2>2, <2>3, StoredTypes DEF CountInv, CountsPages, Top
    <2>5. LeadsToRoot'
      BY <2>1, <2>2, <2>3 DEF LeadsToRoot
    <2> QED
      BY <1>2, <2>1, <2>4, <2>5 DEF CountInv, CountedFrame, FieldsOfHeader
  <1>3. CASE frame.page # 0
    <2>1. /\ frame.data \in Data /\ frame.page < Top.pageCount /\ Top' = Top
          /\ \A p \in PageId : Stored'[p] = IF p = frame.page THEN frame.data ELSE Stored[p]
      BY <1>1, <1>3, StoredTypes DEF CountInv, CountedFrame, Top
    <2>2. Top \in Header /\ Top.root \in PageId
      BY StoredTypes DEF CountInv, LeadsToRoot
    <2>3. CountsPages'
      BY <2>1 DEF CountInv, CountsPages
    <2>4. LeadsToRoot'
      BY <2>1, <2>2 DEF CountInv, LeadsToRoot
    <2> QED
      BY <1>3, <2>1, <2>3, <2>4 DEF CountInv, CountedFrame, FieldsOfHeader
  <1> QED
    BY <1>2, <1>3

\* Steps that change neither the store nor the write in flight.
LEMMA CountInvSame ==
  ASSUME CountInv, Stored' = Stored,
         op' # "append" \/ (op' = op /\ frame' = frame),
         \/ ~Serving'
         \/ Serving /\ UNCHANGED <<pageCount, rootPageId>> /\ (op = "append" <=> op' = "append")
  PROVE  CountInv'
  BY DEF CountInv, CountsPages, LeadsToRoot, CountedFrame, FieldsOfHeader, Top

\* The process has read the header, or written it.
LEMMA CountInvServe ==
  ASSUME CrashWindows = {}, SafeInv, SafeInv', CountInv, ReadHeader \/ CreateSync
  PROVE  CountInv'
  <1> USE Types DEF SafeInv, RecoveryInv
  <1>1. op # "append" /\ op' # "append"
    BY DEF ReadHeader, CreateSync, walVars, CacheInv, TypeInv, OpInMode, Creating
  <1>2. [Next]_vars
    BY DEF Next, Recovery
  <1>3. Stored' = Stored
    BY <1>1, <1>2, StepStored
  <1>4. /\ pageCount' = Top.pageCount /\ rootPageId' = Top.root
    <2>1. CASE ReadHeader
      <3>1. created /\ log = <<>>
        BY <2>1 DEF ReadHeader, Complete, Creating, SettledEmpty
      <3>2. Top = db[0] /\ db[0] \in Header
        BY <3>1, RecoveredFromEmpty, StoredTypes DEF Top, Stored, Restorable
      <3> QED
        BY <2>1, <3>2 DEF ReadHeader
    <2>2. CASE CreateSync
      <3>1. ~created /\ pageCount = 2 /\ rootPageId = 1
        BY <2>2 DEF CreateSync, NewFields, Creating
      <3>2. Top = NewHeader
        BY <3>1, StoredTypes DEF Top, Stored, FreshDb
      <3> QED
        BY <2>2, <3>1, <3>2 DEF CreateSync, NewHeader
    <2> QED
      BY <2>1, <2>2
  <1> QED
    BY <1>1, <1>3, <1>4
    DEF CountInv, CountsPages, LeadsToRoot, CountedFrame, FieldsOfHeader, Top

LEMMA CountInvNext ==
  ASSUME CrashWindows = {}, SafeInv, SafeInv', CountInv, [Next]_vars
  PROVE  CountInv'
  <1> USE Types DEF SafeInv, RecoveryInv
  <1>1. TypeInv /\ TypeInv'
    BY DEF CacheInv
  <1>2. CASE \/ \E p \in PageId, c \in Data : WritePage(p, c)
             \/ AllocatePage
             \/ \E r \in PageId : ReadPage(r) \in Data /\ SetRootPageId(r)
    <2>1. Stored' = Stored
      BY <1>2
      DEF WritePage, AllocatePage, SetRootPageId, AppendPage, pagerVars, Stored
    <2> QED
      BY <1>1, <1>2, <2>1, CountInvWritePage, CountInvAllocatePage, CountInvSetRootPageId
  <1>3. CASE WriteDone
    <2>1. op = "append" /\ op' = "none" /\ Serving /\ UNCHANGED <<pageCount, rootPageId>>
      BY <1>3 DEF WriteDone, AppendDone, Serving
    <2>2. Durable!Acknowledge
      BY <1>3, AcknowledgeRefines
    <2>3. Stored' = [Stored EXCEPT ![frame.page] = frame.data]
      BY <2>1, <2>2 DEF Durable!Acknowledge, Durable!Applied, Stored
    <2> QED
      BY <2>1, <2>3, CountInvArrives
  <1>4. CASE Crash
    <2>1. op' # "append" /\ ~Serving'
      BY <1>4
      DEF Crash, Kill, PowerLoss, WalKill, WalPowerLoss, ProcessGone, Serving
    <2> QED
      BY <2>1, StepStored, CountInvArrives, CountInvSame
  <1>5. CASE CheckpointStep \/ Flush \/ FlushDone \/ UNCHANGED vars
    <2>1. /\ op' # "append" \/ (op' = op /\ frame' = frame)
          /\ op = "append" <=> op' = "append"
          /\ UNCHANGED <<pageCount, rootPageId>>
      BY <1>5
      DEF CheckpointStep, ReplayFrame, ReplayStop, SyncDb, TruncateLog, Flush, FlushDone,
          CheckpointBegin, Idle, vars, walVars, pagerVars
    <2>2. ~Serving' \/ Serving
      BY <1>5
      DEF CheckpointStep, Flush, FlushDone, Idle, vars, pagerVars, Serving
    <2>3. Stored' = Stored
      BY <2>1, StepStored
    <2> QED
      BY <2>1, <2>2, <2>3, CountInvSame
  <1>6. CASE OpenExisting \/ OpenNew \/ CreatePage0 \/ CreatePage1
    <2>1. op # "append" /\ op' # "append" /\ ~Serving'
      BY <1>1, <1>6
      DEF OpenExisting, CheckpointBegin, OpenNew, CreatePage0, CreatePage1, walVars, Serving,
          TypeInv, OpInMode
    <2>2. Stored' = Stored
      BY <2>1, StepStored
    <2> QED
      BY <2>1, <2>2, CountInvSame
  <1>7. CASE ReadHeader \/ CreateSync
    BY <1>7, CountInvServe
  <1> QED
    BY <1>2, <1>3, <1>4, <1>5, <1>6, <1>7
    DEF Next, ClientStep, Recovery, Progress

LEMMA CountInvAlways == CrashWindows = {} => (Spec => []CountInv)
  <1> SUFFICES ASSUME CrashWindows = {} PROVE Spec => []CountInv
    OBVIOUS
  <1>1. SafeInv /\ SafeInv' /\ CountInv /\ [Next]_vars => CountInv'
    BY CountInvNext
  <1> QED
    BY <1>1, SafeInvAlways, CountInvInit, PTL DEF Spec

-----------------------------------------------------------------------------
\* allocate_page never hands out the number of a page that holds something
\* (pager.rs:131-138), whatever crashes came before, as long as none leaves a
\* fragment in an empty log or a file half created, and power does not fail on
\* what only a killed process has written.
THEOREM PageIdsNotReused == CrashWindows = {} => (Spec => []NoPageIdReuse)
  <1> SUFFICES ASSUME CrashWindows = {} PROVE Spec => []NoPageIdReuse
    OBVIOUS
  <1>1. SafeInv /\ CountInv => NoPageIdReuse
    <2> SUFFICES ASSUME SafeInv, CountInv, Idle, NEW p \in PageId, Stored[p] # Blank
                 PROVE  p < pageCount
      BY ReadsStored DEF NoPageIdReuse
    <2> QED
      BY DEF CountInv, CountsPages, FieldsOfHeader, Serving, Idle
  <1> QED
    BY <1>1, SafeInvAlways, CountInvAlways, PTL

\* A running database can read its root page (pager.rs:107-119), under the
\* same condition: set_root_page_id and open agree on where it is.
THEOREM RootReadable == CrashWindows = {} => (Spec => []RootIsReadable)
  <1> SUFFICES ASSUME CrashWindows = {} PROVE Spec => []RootIsReadable
    OBVIOUS
  <1>1. SafeInv /\ CountInv => RootIsReadable
    <2> SUFFICES ASSUME SafeInv, CountInv, Idle
                 PROVE  ReadPage(rootPageId) \in Data
      BY StoredTypes DEF RootIsReadable
    <2>1. rootPageId = Top.root /\ Top.root \in PageId /\ Stored[Top.root] \in Data
      BY StoredTypes DEF CountInv, LeadsToRoot, FieldsOfHeader, Serving, Idle
    <2> QED
      BY <2>1, ReadsStored
  <1> QED
    BY <1>1, SafeInvAlways, CountInvAlways, PTL
================================================================================
