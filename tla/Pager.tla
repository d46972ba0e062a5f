-------------------------------- MODULE Pager --------------------------------
(***************************************************************************)
(* The pager (src/src/storage/pager.rs) on top of the write-ahead log: it  *)
(* creates or recovers the database file, reads pages through its cache,   *)
(* logs every page it writes, allocates page numbers and checkpoints.  The *)
(* process may be killed, and the machine may lose power, at any moment.   *)
(*                                                                         *)
(* Page 0 is the database header; the other pages hold data the pager does *)
(* not look at.  A page the file does not reach and a zero page are Blank. *)
(***************************************************************************)
EXTENDS Wal

CONSTANTS
  Data,      \* what the tree stores in a page
  EmptyLeaf, \* the empty root leaf of a new database, one of Data
  NoPage,    \* the cache has no copy of the page
  NoValue,   \* page_count and root_page_id while no process runs
  MaxFrames  \* bound: the chunks the log may hold when a write starts

\* The header fields the pager reads: page_count and root_page_id.
PageCount == 2..MaxPageId + 1
Header == [pageCount : PageCount, root : PageId]
NewHeader == [pageCount |-> 2, root |-> 1]

ASSUME DataAssumption ==
  /\ Content = Header \union Data \union {Blank, Garbage}
  /\ EmptyLeaf \in Data
  /\ Blank # Garbage
  /\ {Blank, Garbage} \intersect (Header \union Data) = {}
  /\ Header \intersect Data = {}
  /\ NoPage \notin Content
  /\ NoValue \notin Int
  /\ MaxFrames \in Nat

VARIABLES
  mode,        \* where the process is: down, or the part of open or flush it runs
  pageCache,   \* page_cache
  pageCount,   \* page_count
  rootPageId,  \* root_page_id
  created      \* history: a creation of the database file once completed

pagerVars == <<mode, pageCache, pageCount, rootPageId, created>>
vars == <<walVars, pagerVars>>

Creating == {"createPage0", "createPage1", "createSync"}
Mode == {"down", "rejected", "opening", "running", "flushing"} \union Creating

EmptyCache == [p \in PageId |-> NoPage]

\* One type invariant for the pager and the log under it.
TypeOK ==
  /\ WalTypeOK
  /\ mode \in Mode
  /\ pageCache \in [PageId -> Content \union {NoPage}]
  /\ pageCount \in PageCount \union {NoValue}
  /\ rootPageId \in PageId \union {NoValue}
  /\ mode \in {"running", "flushing"} \union Creating =>
       pageCount \in PageCount /\ rootPageId \in PageId
  /\ created \in BOOLEAN

\* No file exists yet.
Init ==
  /\ log = <<>> /\ logSynced = <<>>
  /\ db = [p \in PageId |-> Blank] /\ dbSynced = db
  /\ op = "none" /\ frame = NoFrame /\ cursor = 1
  /\ mode = "down"
  /\ pageCache = EmptyCache
  /\ pageCount = NoValue /\ rootPageId = NoValue
  /\ created = FALSE

-----------------------------------------------------------------------------
\* Pager::open.

\* path.exists() && metadata().len() > 0
DbExists == db[0] # Blank

\* Mutant: open discards the log instead of replaying it.
OpenDiscardingLog ==
  /\ mode \in {"down", "rejected"}
  /\ DbExists
  /\ op' = "truncate"
  /\ mode' = "opening"
  /\ UNCHANGED <<log, logSynced, db, dbSynced, frame, cursor,
                 pageCache, pageCount, rootPageId, created>>

OpenExisting ==
  /\ mode \in {"down", "rejected"}
  /\ DbExists
  /\ CheckpointBegin
  /\ mode' = "opening"
  /\ UNCHANGED <<pageCache, pageCount, rootPageId, created>>

\* The fields after recovery; a file without a header is an error of open.
ReadHeader ==
  /\ mode = "opening"
  /\ op = "none"
  /\ IF db[0] \in Header
       THEN /\ mode' = "running"
            /\ pageCount' = db[0].pageCount
            /\ rootPageId' = db[0].root
       ELSE /\ mode' = "rejected"
            /\ UNCHANGED <<pageCount, rootPageId>>
  /\ UNCHANGED <<walVars, pageCache, created>>

\* Mutant: a new database counts its header page only.
OpenNewOnePage ==
  /\ mode = "down"
  /\ ~DbExists
  /\ mode' = "createPage0"
  /\ pageCount' = 1
  /\ rootPageId' = NewHeader.root
  /\ UNCHANGED <<walVars, pageCache, created>>

OpenNew ==
  /\ mode = "down"
  /\ ~DbExists
  /\ mode' = "createPage0"
  /\ pageCount' = NewHeader.pageCount
  /\ rootPageId' = NewHeader.root
  /\ UNCHANGED <<walVars, pageCache, created>>

\* init_new_database writes past the log: page 0, page 1, sync_all.
CreatePage0 ==
  /\ mode = "createPage0"
  /\ db' = [db EXCEPT ![0] = [pageCount |-> pageCount, root |-> rootPageId]]
  /\ mode' = "createPage1"
  /\ UNCHANGED <<log, logSynced, dbSynced, op, frame, cursor,
                 pageCache, pageCount, rootPageId, created>>

\* Mutant: init_new_database forgets the root leaf.
CreateNoPage1 ==
  /\ mode = "createPage1"
  /\ mode' = "createSync"
  /\ UNCHANGED <<walVars, pageCache, pageCount, rootPageId, created>>

CreatePage1 ==
  /\ mode = "createPage1"
  /\ db' = [db EXCEPT ![1] = EmptyLeaf]
  /\ mode' = "createSync"
  /\ UNCHANGED <<log, logSynced, dbSynced, op, frame, cursor,
                 pageCache, pageCount, rootPageId, created>>

\* Mutant: the new database is in use before it is on the disk.
CreateUnsynced ==
  /\ mode = "createSync"
  /\ mode' = "running"
  /\ created' = TRUE
  /\ UNCHANGED <<walVars, pageCache, pageCount, rootPageId>>

CreateSync ==
  /\ mode = "createSync"
  /\ dbSynced' = db
  /\ mode' = "running"
  /\ created' = TRUE
  /\ UNCHANGED <<log, logSynced, db, op, frame, cursor,
                 pageCache, pageCount, rootPageId>>

-----------------------------------------------------------------------------
\* A running pager.  Idle: no call is in progress.

Idle == mode = "running" /\ op = "none"
RoomInLog == Len(log) < MaxFrames

\* read_page: the cache first, then the file.
ReadPage(p) == IF pageCache[p] # NoPage THEN pageCache[p] ELSE db[p]

\* write_page logs the page first; WriteDone is its return.
WritePage(p, c) ==
  /\ Idle /\ RoomInLog
  /\ p \in 1..pageCount-1
  /\ AppendPage(p, c)
  /\ UNCHANGED pagerVars

\* Mutant: the header is logged before page_count is bumped.
AllocatePageStaleHeader ==
  /\ Idle /\ RoomInLog
  /\ pageCount <= MaxPageId
  /\ pageCount' = pageCount + 1
  /\ AppendPage(0, [ReadPage(0) EXCEPT !.pageCount = pageCount])
  /\ UNCHANGED <<mode, pageCache, rootPageId, created>>

\* allocate_page: page_count is bumped in memory, then page 0 is rewritten.
AllocatePage ==
  /\ Idle /\ RoomInLog
  /\ pageCount <= MaxPageId
  /\ pageCount' = pageCount + 1
  /\ AppendPage(0, [ReadPage(0) EXCEPT !.pageCount = pageCount + 1])
  /\ UNCHANGED <<mode, pageCache, rootPageId, created>>

SetRootPageId(r) ==
  /\ Idle /\ RoomInLog
  /\ r \in 1..pageCount-1
  /\ rootPageId' = r
  /\ AppendPage(0, [ReadPage(0) EXCEPT !.root = r])
  /\ UNCHANGED <<mode, pageCache, pageCount, created>>

\* Mutant: the cache keeps its old copy of the page.
WriteDoneStaleCache ==
  /\ mode = "running"
  /\ AppendDone
  /\ UNCHANGED pagerVars

\* The append is durable: only now does the cache see the page.
WriteDone ==
  /\ mode = "running"
  /\ AppendDone
  /\ pageCache' = [pageCache EXCEPT ![frame.page] = frame.data]
  /\ UNCHANGED <<mode, pageCount, rootPageId, created>>

Flush ==
  /\ Idle
  /\ CheckpointBegin
  /\ mode' = "flushing"
  /\ UNCHANGED <<pageCache, pageCount, rootPageId, created>>

FlushDone ==
  /\ mode = "flushing"
  /\ op = "none"
  /\ mode' = "running"
  /\ pageCache' = EmptyCache
  /\ UNCHANGED <<walVars, pageCount, rootPageId, created>>

\* The steps of a checkpoint, under open as under flush.
CheckpointStep ==
  /\ ReplayFrame \/ ReplayStop \/ SyncDb \/ TruncateLog
  /\ UNCHANGED pagerVars

-----------------------------------------------------------------------------
\* The process stops at any point of a call, or the machine does, at any point.

ProcessGone ==
  /\ mode' = "down"
  /\ pageCache' = EmptyCache
  /\ pageCount' = NoValue
  /\ rootPageId' = NoValue
  /\ UNCHANGED created

\* With the window "create" closed no crash leaves part of init_new_database's
\* work behind: the file is then as empty as it was.
Kill ==
  /\ mode \notin {"down", "rejected"}
  /\ WalKill
  /\ mode \in Creating /\ "create" \notin CrashWindows => db[0] = Blank
  /\ ProcessGone

\* What a killed process left and nobody has synced since: a truncation, a whole
\* frame of the log, which open replays as it is, a file it was creating.
LeftUnsynced ==
  \/ ~IsPrefix(logSynced, log)
  \/ \E i \in Len(logSynced)+1..Len(log) : Readable(log, i)
  \/ ~created /\ mode \notin Creating /\ dbSynced[0] = Blank /\ db[0] # Blank

\* A database file that is there but has lost its page 0 is not a missing one:
\* its header is Garbage.  Of two headers no mixture is a torn page: they differ
\* in one sector.
PowerLoss ==
  /\ "unsynced" \in CrashWindows \/ ~LeftUnsynced
  /\ WalPowerLoss
  /\ db'[0] = Blank => db' = [p \in PageId |-> Blank]
  /\ {db[0], dbSynced[0]} \subseteq Header => db'[0] # Garbage
  /\ mode \in Creating /\ "create" \notin CrashWindows => db'[0] = Blank
  /\ ProcessGone

Crash == Kill \/ PowerLoss

-----------------------------------------------------------------------------
\* What the tree asks for.  It has no caller for set_root_page_id; one would
\* name a page it has written.
ClientStep ==
  \/ \E p \in PageId, c \in Data : WritePage(p, c)
  \/ AllocatePage
  \/ \E r \in PageId : ReadPage(r) \in Data /\ SetRootPageId(r)
  \/ Flush

Recovery ==
  \/ OpenExisting \/ OpenNew \/ ReadHeader
  \/ CreatePage0 \/ CreatePage1 \/ CreateSync

Progress == WriteDone \/ CheckpointStep \/ FlushDone

Next == ClientStep \/ Recovery \/ Progress \/ Crash

Spec == Init /\ [][Next]_vars

\* One thread runs open, a call or a flush to its end, and a stopped process is
\* started again.  Nobody is obliged to call anything.
LiveSpec == Spec /\ WF_vars(Recovery) /\ WF_vars(Progress)

-----------------------------------------------------------------------------
\* The abstract store the pager implements, as long as the windows of
\* CrashWindows stay closed: its pages are what recovery would restore, and it
\* serves while the process runs.

FreshDb == [p \in PageId |-> IF p = 0 THEN NewHeader
                             ELSE IF p = 1 THEN EmptyLeaf ELSE Blank]

Durable == INSTANCE DurableStore WITH
  Page <- PageId,
  Value <- Content,
  Fresh <- FreshDb,
  store <- [p \in PageId |-> IF created THEN Recovered(log, db, p) ELSE FreshDb[p]],
  inFlight <- IF op = "append" THEN {frame} ELSE {},
  serving <- mode \in {"running", "flushing"}

\* Every behaviour of the pager is one of an atomic, durable page store.
ImplementsStore == Durable!StoreSpec

-----------------------------------------------------------------------------
\* Properties.

\* What a reader sees between two calls, through the cache or from the file,
\* is page for page what a crash at that moment and the next open would give
\* back: the cache never runs ahead of the log, a flush never drops a page,
\* replay applies the latest frame of each page.  A log that opens with a
\* fragment is the exception (AckedIsRecoverable), and a power failure on what
\* only a killed process wrote (LeftUnsynced).
ReadsAreDurable ==
  Idle /\ ~DamagedHead(log) => \A p \in PageId : ReadPage(p) = Recovered(log, db, p)

\* The same without the exception: the promise of the README that replaying
\* the log restores every acknowledged write.  The code breaks it: open leaves
\* a lone fragment in the log, and what is appended behind it is never read.
AckedIsRecoverable ==
  Idle => \A p \in PageId : ReadPage(p) = Recovered(log, db, p)

\* allocate_page never hands out the number of a page that holds something:
\* page 0 reaches the log before any page numbered from it, so the count that
\* recovery reads back lies above every page recovery brings back.
NoPageIdReuse ==
  Idle => \A p \in PageId :
            ReadPage(p) # Blank \/ Recovered(log, db, p) # Blank => p < pageCount

\* Once the database file has been created, no crash, not even one that tears
\* pages in the middle of a checkpoint, leaves a torn page behind for the next
\* open, or takes the header or the root page away.  With the window "unsynced"
\* open the code breaks it, against "restoring ACID durability even across hard
\* `SIGKILL` or power failures": open copies a frame into the file that no fsync
\* has followed, and a power failure then takes the frame and tears the page.
CrashLeavesUsable ==
  created => /\ mode # "rejected"
             /\ Recovered(log, db, 0) \in Header
             /\ Recovered(log, db, 1) \notin {Blank, Garbage}
             /\ \A p \in PageId : Recovered(log, db, p) # Garbage

\* The state recovery would restore changes only by the write in flight: no
\* step of a checkpoint, no crash and no reopening loses, reorders or brings
\* back a page, and a write a crash cut short is there entirely or not at all.
\* Excepted is a power failure on what only a killed process wrote (LeftUnsynced).
OnlyWritesChangeRecovered ==
  [][created => \A p \in PageId :
       LET now == Recovered(log, db, p)
           next == Recovered(log', db', p)
       IN  next # now => op = "append" /\ frame = [page |-> p, data |-> next]]_vars

\* open accepts the file it finds.  The code breaks it: a crash between the
\* first write of init_new_database and its sync_all leaves a file that is not
\* empty, so it is never initialised again and is rejected on every open.
OpenAccepts == mode # "rejected"

\* A running database can read its root page.  The code breaks it likewise:
\* the header may be there and page 1 not.
RootIsReadable == Idle => ReadPage(rootPageId) \notin {Blank, Garbage}

\* When crashes stop, a database that was once created is served again, and
\* every call on it returns: recovery ends whatever the log looks like.
ServiceResumes == <>created /\ <>[][~Crash]_vars => []<>Idle
=============================================================================
