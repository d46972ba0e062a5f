# LithosDB in TLA+

LithosDB is a single-process, single-threaded embedded key/value store in Rust:
a B+ tree of 4096-byte slotted pages, stored in one file through a pager with a
write-ahead log. This directory models its behaviour, checks the models with TLC
on small instances, and proves the main results about the storage layer, the
page layout and the tree with TLAPS for every instance. Paths such as `wal.rs:80` are relative to the
directories `src/src/storage`, `src/src/btree` and `src/src` of the repository;
`README.md:64` is the repository's own README.

## 1. Inventory

| part | state | operations | model |
|---|---|---|---|
| write-ahead log, `wal.rs` | the `.wal` file | `open`, `append_page`, `checkpoint` | `Wal` |
| pager, `pager.rs` | database file, `page_cache`, `page_count`, `root_page_id` | `open` (create or recover), `read_page`, `write_page`, `allocate_page`, `set_root_page_id`, `flush` | `Pager` |
| B+ tree, `tree.rs` | none but the pager | `search`, `insert` with its two splits, `range_scan`, `print_tree`, `flush` | `BTree`, with crashes `CrashTree` |
| slotted page, `page.rs` | 4096 bytes: header, sorted cell pointers, cells | find, insert or update, delete, defragment; interior cells | leaves `SlottedPage`, interior pages in `BTree` |
| checksum, `wal.rs:17-24` | none | FNV-1a over a page, 32 bits | a verdict in `Wal` |
| command loop, `main.rs` | none | one call at a time; any error, `.crash` and `.exit` end the process | client steps and crashes |
| benchmark, `bench.rs` | none | the same calls | not modelled |

How they interact: everything is a synchronous call of one thread. The command
loop calls the tree; the tree reads and writes whole pages through the pager and
keeps no page between two calls of its own; the pager appends every page it
writes to the log, then caches it; `flush` replays the log into the database
file and drops the cache. Only the creation of a database writes the database
file without the log. All errors travel by `?` up to `main`, so an I/O error, a
full parent page or a panic ends the process, and the next start opens the files
as they are.

What is hard in this code is therefore not concurrency but **what is on disk
when the process stops** (in an append, a checkpoint, a creation, a recovery, a
split), **the order of the writes** that recovery relies on, **the agreement of
three copies of a page** (cache, log, file), **sequences of inserts** that take
the tree through splits of every kind, and **the limits of a page** (a split by
count that does not fit by bytes, a full parent). `PROJECT.json` lists these as
hazards, each at its line.

What makes each part correct:

- *log*: the replay yields the latest whole frame of each page, stops at the
  first fragment, and may itself be interrupted and repeated;
- *pager*: a reader sees what a restart would restore; an acknowledged write
  stays; page numbers are not reused; `open` succeeds on what a crash left;
- *tree*: it is a map: a lookup returns the latest record, a scan exactly the
  records of its range, a key is stored once;
- *page*: cells do not overlap, keys are sorted and unique, a cell is accepted
  exactly if it fits after compaction.

## 2. Modules

`Wal` - the log file and the database file a checkpoint writes. The log is a
sequence of *chunks*, each what one `append_page` left: where it starts, a length
(1 to `FrameSize`) and whether magic and checksum match. Both files are there
twice, as the operating system shows them (`log`, `db`) and as their last
`sync_all` left them on the disk (`logSynced`, `dbSynced`). `Recovered(l, d, p)` is
what a complete replay of log `l` over file `d` leaves in page `p`. `append_page` is
`AppendPage` (the call starts) and `AppendDone` (its fsync has returned);
`checkpoint` is `CheckpointBegin`, one `ReplayFrame` for each frame,
`ReplayStop`, `SyncDb` and `TruncateLog`, because a crash between any two of them
leaves something different. `WalKill` is the end of the process: an append in
flight leaves nothing, a part of its frame, or the frame, and the files stay as
the system shows them, synced or not. `WalPowerLoss` is the end of the machine: of
what the log has got since its last sync, by this process or by one killed before
it, there is nothing, any part, a frame that fails its checksum, or all, or it
becomes what was last synced; each page written since the last sync of the
database file is the old one, the new one or torn (`Garbage`).

`Pager` - `EXTENDS Wal`; one thread whose place is `mode` (and `op` in the log).
`open` is `OpenNew`, `CreatePage0`, `CreatePage1`, `CreateSync`, or
`OpenExisting`, the steps of a checkpoint, `ReadHeader`; `write_page`,
`allocate_page`, `set_root_page_id` are one action each up to the append and
share `WriteDone`; `flush` is `Flush`, the steps of a checkpoint, `FlushDone`.
`read_page` is the operator `ReadPage`.

`DurableStore` - the abstract store: a function from pages to contents, changed
by one write at a time; a failure makes the write in flight happen or not.
`Pager!ImplementsStore` is the refinement, with
`store <- what recovery would restore`.

`LeafCells` - what a leaf page is to the tree: a map from keys to payloads and the
bytes its records take. `Fits` says which record the page accepts.

`SlottedPage` - `EXTENDS LeafCells`; the leaf page itself: the pointers in key
order, `cell_content_offset`, and the cells at their offsets. Bytes are seen as
the cells that can be read from them: a write destroys every cell it overlaps
(`Spared`), and so does the pointer array when it grows (`Added`). One action per
call: `InsertOrUpdateLeafCell` (in place, relocated or added, compacting first if
contiguous bytes are short), `Overflow`, `DeleteLeafCell`, `Defragment`.
`AcceptsWhatFits` and `ActsAsMap` connect the page to `LeafCells`, that is, to the
leaf of `BTree`.

`BTree` - `EXTENDS LeafCells`; the tree over pages that are read and written one
whole insert at a time. A leaf page is the map its sorted cells encode together
with its links; an interior page is the sequence of its cells and the rightmost
child. Each case of `insert` has the sequence of its page writes (`StoreWrites`,
`RootWrites`, `LeafWrites`, `ParentWrite`), and each outcome is an action that
performs them: `StoreInLeaf`, `SplitRoot`, `SplitRootPanics`, `SplitLeaf`,
`ParentIsFull`, `SplitLeafPanics`. `expected` (what a reader may take each record
to be) and `orphaned` (a split or an error has left a leaf without a route) are
history variables that no action reads.

`KeyValueMap` - the abstract map `BTree` implements while every leaf has a route.

`CrashTree` - the composition of tree and pager: the page writes of `BTree`
(`Tree == INSTANCE BTree`), preceded by the header write of each allocation, go
one by one to the store the pager implements (`Store == INSTANCE DurableStore`).
An insert is *started* by an action of its case, goes on by `WritePage` and
`WriteDone`, and ends by `Return` or `Abort`; `Crash` strikes anywhere, also in
the middle of a write, and `Open` goes on with the same store. What insert decides
it decides from pages it has not written itself, as in the code. `call.moved` is the
records of the upper half, those a split takes to the new leaf. The pager promises
this store only when no crash hits its three windows (below), so a crash in
`CrashTree` is one outside them.

`MCPager`, `MCBTree`, `MCSlottedPage`, `MCCrashTree` - constants for TLC.
`PagerProofs`, `PagerRecovery`, `PagerRefinement`, `LeafCellsProofs`,
`SlottedPageProofs`, `BTreeProofs`, `BTreeChain`, `CrashTreeProofs` - theorems and
proofs.

How the modules stand on each other: `Wal` < `Pager`, which implements
`DurableStore`; `CrashTree` puts the page writes of `BTree` on `DurableStore`;
`BTree` takes a leaf for the `LeafCells` that `SlottedPage` is shown to be, and
implements `KeyValueMap`.

Definitions marked "Mutant" are faulty variants of the definition that follows
them. Each is paired with a property in `PROJECT.json`: with the faulty variant
in place TLC finds that property violated, which shows that the property can
tell.

### Abstractions

- A page goes to the database file in one write call, which a kill does not cut; a
  frame takes four (`wal.rs:61-66`), between and in which it does. A power failure
  may tear either.
- What a fragment says is left out (`Fragment`): no reader gets past it. A frame
  behind a fragment is never read as a frame: frames are read at multiples of the
  frame size, and the fragment shifts what follows it. A collision of the 32-bit
  checksum is not modelled.
- The header fields are in the first sector of page 0, which the disk writes whole:
  of two headers a power failure leaves one or the other, no mixture.
- If a page was written twice since the last sync, a crash may leave the first
  of the two; `Garbage` stands for that and for every torn page. Directory
  entries are taken to be durable.
- `Blank` is a page that is all zero or that the file does not reach.
- `uncheckpointed_frames` is left out: no decision reads it.
- `set_root_page_id` has no caller in the repository. A client is assumed to
  name a page it has written.
- A `.wal` file next to a database file that somebody removed is left out.
- `CrashWindows` names the three circumstances in which a crash leaves files that
  the code does not recover from: `"create"`, a crash in the creation of the
  database; `"logHead"`, one that leaves a fragment shorter than a frame at the start
  of an empty log; and `"unsynced"`, a power failure on what only a killed process
  has left (`LeftUnsynced`): a whole frame that no fsync followed, which `open` copies
  into the database file all the same, a truncation of the log, or a database file
  that was being created. A run or theorem with `CrashWindows = {}` says what holds
  if no crash strikes so; all other kills and power failures remain, those on a
  fragment that a killed process left and those in a recovery among them.
- In `BTree` a leaf's contiguous free space does not appear: `Fits` counts the
  bytes of the records only. `SlottedPage!AcceptsWhatFits` is the reason that is
  faithful: the page compacts before it refuses (`page.rs:359-366, 381-391`).
- `SlottedPage` leaves the byte layout of header and cells away, and dead cells
  below a compacted page with it: no pointer leads to them again. An interior page
  has cells of one size that are never deleted, so it has no dead space, and the
  sequence of its cells is all `BTree` keeps of it. `defragment` of an interior
  page has no caller.
- Within `BTree` no crash falls between the page writes of an insert; a panic or
  an error stops the process, and the pages it wrote are there when it starts
  again. `CrashTree` has the crashes, and no history of orphaned leaves.
- After a crash a leaf's `next_leaf` can lead to a page that was never written.
  A split of that leaf reads it: past the end of the file the read fails, within
  it the page is zeros, whose back link is then written. `SiblingIsRead` allows
  both.

## 3. Runs

| run | configuration | checks | result |
|---|---|---|---|
| `pager` | `MCPager` | `TypeOK`, `ReadsAreDurable`, `CrashLeavesUsable`, `OnlyWritesChangeRecovered`, `ServiceResumes` | hold, with crashes everywhere, `"unsynced"` excepted |
| `pager_promises` | `MCPagerPromises` | `AckedIsRecoverable`, `NoPageIdReuse`, `OpenAccepts`, `RootIsReadable`, `ImplementsStore` | hold with the three windows closed |
| `pager_lost_writes` | `MCPagerLostWrites` | `AckedIsRecoverable` | violated |
| `pager_unsynced` | `MCPagerUnsynced` | `CrashLeavesUsable` | violated |
| `pager_half_created` | `MCPagerHalfCreated` | `RootIsReadable` | violated |
| `btree` | `MCBTree` | `TypeOK`, `NoStaleRead`, `LatestInChain`, `ChainIsComplete`, `BackLinks`, `ScanAgreesWithSearch`, `ImplementsMap` | hold; the last two while every leaf has a route |
| `btree_lengths` | `MCBTreeLengths` | `NoStaleRead`, `LatestInChain`, `ChainIsComplete`, `SpoiledLinksAreDead`, `PagesFit` | hold, panics included |
| `btree_search` | `MCBTreeSearch` | `SearchFinds` | violated |
| `btree_update_panics` | `MCBTreeUpdatePanics` | `UpdatesDoNotPanic` | violated |
| `slotted_page` | `MCSlottedPage` | `TypeOK`, `CellsAreIntact`, `KeysAreSorted`, `FindIsExact`, `AcceptsWhatFits`, `ActsAsMap` | hold |
| `tree_crash` | `MCCrashTree` | `SearchReachesLeaf`, `AllocatedFirst`, `NoStaleRead`, `LostOnlyInCut`, `SearchChangesByInsert` | hold, with a crash anywhere |
| `tree_crash_loses` | `MCCrashTreeLoses` | `AckedIsKept` | violated |

Run one with `tlc -config MCPager.cfg MCPager.tla`.

### What the violations show

- **Lost writes.** A crash leaves part of a frame in an empty log. `open` sees
  zero complete frames and returns from `checkpoint` without truncating
  (`wal.rs:80-82`). Every later frame is appended behind the fragment. After the
  next crash the replay stops at the fragment and truncates: all of them are
  gone. A `flush` in between does the same, as it reads the same log.
- **Unsynced frame replayed.** A process is killed behind the last write of a frame
  (`wal.rs:66`) and before its fsync (`:69`). The frame is whole in the page cache of
  the system, so the next `open` takes it for a committed one and copies it into the
  database file, without an fsync of the log. If power fails before `:121`, the disk
  may have part of the page, and the frame that could repair it is gone with the
  page cache: a torn page and an empty log, against "must be committed and synced to
  the append-only `.wal` file before being checkpointed" (`wal.rs:4-5`). One
  `sync_all` of the log in front of the replay would close this window.
- **Half-created database.** A crash between the two writes of
  `init_new_database` leaves a file that is not empty, which `open` takes for a
  database (`pager.rs:28`). The root page cannot be read, or, if page 0 is torn,
  every `open` fails.
- **Records out of reach.** When a leaf that is not the rightmost one splits, the
  parent gets a cell for the lower half, but its old cell keeps pointing to the
  lower half too; nothing points to the upper half. Loads in key order split the
  rightmost leaf only, which is why the tests pass. Search then misses
  acknowledged records, and an insert of such a key stores it a second time, in
  another leaf: `scan` then shows both.
- **Panics.** A split is by count; a half that does not fit its page, or an empty
  left half, panics.
- **Records lost in a split.** A split of a leaf other than the root writes the
  shortened lower half, over the old page, before the upper half
  (`tree.rs:187-197`). A crash between the two restores the first without the
  second: the upper records were acknowledged long ago and are in no page any
  more. The pager is not at fault, each page write is durable and atomic; the
  insert as a whole is not, against "restoring ACID durability even across hard
  `SIGKILL` or power failures" (`README.md:64`).

What survives even so. `NoStaleRead` and `LatestInChain` say that an unreachable
record is lost to `search` but not overwritten by an older one and still in the
leaf chain. With crashes between page writes, `SearchReachesLeaf` says that the
tree can always be descended (the root becomes an interior page last),
`AllocatedFirst` that no page number is handed out twice (the header is logged
before the page), `LostOnlyInCut` that the window above is the only one that takes
acknowledged records away, and `SearchChangesByInsert` that a crash or a reopening
by itself changes no answer, and a split none but those for the records of its
upper half: they go, and come back with the payload they had, if they come back.

One disagreement with a comment has no run: `insert` answers `Ok(false)` after every
split (`tree.rs:93-94`), also for an update, where `tree.rs:57` says "`Ok(true)` if an
existing record was updated".

### Bounds

- Pager: pages 0, 1 and 2 (header, root, one allocated page), two data contents,
  so that old and new can be told apart; a write starts while the log holds fewer
  than 2 (`MCPager`) or 3 chunks: two frames of one page, or a fragment before a
  frame, are the shortest logs in which the order of the replay matters. A frame
  is 2 or 3 units, so that a fragment may have some of its bytes, and two
  fragments may add up to a frame. Crashes are not bounded: a kill in a recovery and a
  power failure in the next one happen.
- Tree: a page has 42 bytes for pointers and cells, so that three short records
  fill a leaf and three cells an interior page; six keys and seven page numbers
  give six leaves, two more than the parent can hold, so the full parent, splits
  of first, middle and last leaves and repeated splits of one leaf all happen.
  `btree_lengths` has four keys and records of 14, 16 and 34 bytes: a leaf has records
  of two lengths, a record grows beside another one to the last byte of the page, is
  refused because its old copy counts, or splits its leaf, and both kinds of panic
  and a full parent happen. `MaxPageId` stops splits only; updates go on.
- Slotted page: 47 bytes for pointers and cells, three keys, payloads of 0, 2 and
  5 bytes: three short records fit, three long ones do not, holes of every size
  arise, and a record can need compaction to fit, or fit by its last byte. The
  state space is finite without a bound on the calls.
- Tree with crashes: 28 bytes a page, four keys, a record of 26 bytes with its
  cell beside short ones, pages up to 5, one crash in a behaviour and any number
  of inserts and aborts around it (an abort stops the process as a crash does).
  That is enough for a split of the root, of the last leaf and of a leaf in the
  middle, a full parent, both panics, and inserts on what the crash left, the split
  of a leaf that was cut off included.

### Fairness

`LiveSpec` is weakly fair to `Recovery` (a stopped process is started again, and
`open` runs to its end) and to `Progress` (a call in progress runs to its end):
one thread that nothing blocks. No fairness is assumed of the client or of
crashes; `ServiceResumes` supposes that crashes stop and that the creation of the
database has once been completed, since a half-created one is never served.

## 4. Proofs

Proved with tlapm, for the log and the pager for every `MaxPageId`, `Content`,
`FrameSize` and `MaxFrames` that satisfy the named assumptions of `Wal` and
`Pager`, for the page for every `Key`, `Payload`, `Length` and `PageSpace` that
satisfy those of `LeafCells`, and for the tree, with and without crashes, for every such
choice, every `MaxPageId` and every `MaxCrashes`. The assumptions are what the
types of the code say (a length is a natural, a page holds at least its header),
but for two: `LeastKeyAssumption`, that one key is below or equal to every other
(keys are `i64`, so there is `i64::MIN`; the scan starts from it), and
`IdleAssumption`, that the value which stands for "no call" is not a call.

| theorem | module | says |
|---|---|---|
| `TypeCorrect` | `PagerProofs` | `Spec => []TypeOK` |
| `RecoveredAfterWhole` | `PagerProofs` | for every page `p`: `Recovered(Append(l, c), d, p)` is `c.data` if `c.page = p`, else `Recovered(l, d, p)`, for logs `l` of whole frames and a whole `c` |
| `ReadsDurable` | `PagerProofs` | `"unsynced" \notin CrashWindows => (Spec => []ReadsAreDurable)` |
| `CrashUsable` | `PagerRecovery` | `"unsynced" \notin CrashWindows => (Spec => []CrashLeavesUsable)` |
| `RecoveredByWrites` | `PagerRecovery` | `"unsynced" \notin CrashWindows => (Spec => OnlyWritesChangeRecovered)` |
| `AckedRecoverable` | `PagerRefinement` | `CrashWindows = {} => (Spec => []AckedIsRecoverable)` |
| `OpenSucceeds` | `PagerRefinement` | `CrashWindows = {} => (Spec => []OpenAccepts)` |
| `PagerImplementsStore` | `PagerRefinement` | `CrashWindows = {} => (Spec => ImplementsStore)` |
| `PageIdsNotReused` | `PagerRefinement` | `CrashWindows = {} => (Spec => []NoPageIdReuse)` |
| `RootReadable` | `PagerRefinement` | `CrashWindows = {} => (Spec => []RootIsReadable)` |
| `PageTypeCorrect` | `SlottedPageProofs` | `Spec => []TypeOK` |
| `CellsStayIntact` | `SlottedPageProofs` | `Spec => []CellsAreIntact` |
| `KeysStaySorted` | `SlottedPageProofs` | `Spec => []KeysAreSorted` |
| `FindStaysExact` | `SlottedPageProofs` | `Spec => []FindIsExact` |
| `PageActsAsMap` | `SlottedPageProofs` | `Spec => []ActsAsMap` |
| `PageAcceptsWhatFits` | `SlottedPageProofs` | `Spec => []AcceptsWhatFits` |
| `TreeTypeCorrect` | `BTreeProofs` | `Spec => []TypeOK` |
| `TreeReadsLatest` | `BTreeProofs` | `Spec => []NoStaleRead` |
| `TreeImplementsMap` | `BTreeProofs` | `Spec => ImplementsMap` |
| `PagesAlwaysFit` | `BTreeProofs` | `Spec => []PagesFit` |
| `ChainAlwaysComplete` | `BTreeChain` | `Spec => []ChainIsComplete` |
| `LatestAlwaysInChain` | `BTreeChain` | `Spec => []LatestInChain` |
| `LinksSpoiledByPanicOnly` | `BTreeChain` | `Spec => []SpoiledLinksAreDead` |
| `BackLinksKept` | `BTreeChain` | `GrowthLeavesRoom => (Spec => []BackLinks)` |
| `ScanAlwaysAgrees` | `BTreeChain` | `Spec => []ScanAgreesWithSearch` |
| `FindsUntilOrphaned` | `BTreeChain` | `Spec => [](~orphaned => SearchFinds)` |
| `SearchAlwaysReachesLeaf` | `CrashTreeProofs` | `Spec => []SearchReachesLeaf` |
| `PagesAreAllocatedFirst` | `CrashTreeProofs` | `Spec => []AllocatedFirst` |
| `NoStaleReadAfterCrash` | `CrashTreeProofs` | `Spec => []NoStaleRead` |
| `CrashChangesByInsert` | `CrashTreeProofs` | `Spec => SearchChangesByInsert` |
| `LossesOnlyInCut` | `CrashTreeProofs` | `Spec => []LostOnlyInCut` |

The invariants of the pager, each an extension of the one before:

1. `TypeInv`: types, and which steps of the log each mode admits. The length of
   the log is not needed beyond being a number.
2. `CacheInv`: the page header is a header whenever the pager would read it; a
   finished checkpoint leaves nothing to replay unless the log opens with a
   fragment; and the cache is *coherent*: the cached copy of a page, if there is
   one, or else the file, is what the log would recover. Coherence alone is not
   inductive: dropping the cache after a flush needs the empty log. For the power
   failure it takes two facts more: chunks stand where the file ended when they were
   written (`HeadCounted`), so that a log without a complete frame is empty or opens
   with a fragment, and a file that was created has its header on the disk
   (`OldFile`), so that it is not created a second time beside an old log.
3. `RecoveryInv`: in a checkpoint, the frames before the cursor are whole and each
   page holds the latest of its frames before the cursor; every page whose content
   a power failure may tear is one the log can restore (`TornIsLogged`), and the
   database file is synced before the log is truncated (`SyncedFirst`). `TornIsLogged`
   is what makes a second crash during recovery harmless, and it is what fails if
   the frame that restores the page is not on the disk itself: hence the hypothesis
   on `"unsynced"`.
4. `SafeInv` (all windows closed): a log that is not empty, as the system shows it or
   as it was last synced, starts with a chunk of a frame's length (`HeadFull`), a
   settled log is empty, a running pager's log has whole frames only, and a file
   that is there was created to the end (`Complete`).
5. `CountInv` (all windows closed): the `page_count` of the header that recovery
   would read exceeds every page that is not blank; its root page holds something;
   the frame in flight is one that keeps it so; and the pager's own fields are those
   of that header, or of the header in flight. The proof reads `StepStored` off the
   refinement: what recovery would restore changes only by the write in flight.

`PagerProofs` begins with lemmas about `Recovered`: an appended whole frame changes its
page and no other, a fragment changes nothing. That a finite log has a latest
frame (`MaxOfPositions`) comes from the well-foundedness of the naturals.

The invariant of the page is `Sound`: pointers lead to cells (`Placed`), `Intact`,
`Sorted`, and `LiveFits`, that the bytes of the live cells fit between
`cell_content_offset` and the end of the page. `Intact` says that as well, but
only by an argument about disjoint intervals, for which the prover has no
induction; as a sum it is easy to keep, step by step, and it is what makes
compaction safe: the packed cells start no lower than `content` did, so the
free bytes it makes are the ones `total_free_space` counted. `SlottedPageProofs`
begins with the reads and the writes of a page (`Used`, the binary search,
`Written`, `Spared`, compaction, growing and shrinking the pointer array) and goes
on to the calls. `AcceptsWhatFits` asks for one fact more, that the bytes the page
counts as used are those of the records it holds (`BytesOfRecords`): then the
free space an insert compares with is the room `LeafCells` would compute.

The invariant of the tree is `TreeInv`. `Tree`: the root is a leaf, or an interior
page whose children are leaves; pages from `pageCount` on are untouched. As
`insert_into_parent` never splits the parent, there is no third level, and the
descent, a recursive function in the model, is one step (`DescentFacts`).
`HoldsOwn`: a leaf with a route holds only keys that are routed to it. That is what
keeps an older copy of a record from ever being found: it can only be in a leaf to
which its key is not routed, and no split gives such a leaf a route. `NoStaleRead`
alone is not inductive, since it says nothing of the records a split moves. The
rightmost child has no other cell (in `RootNode`): so the new right half gets a
route exactly if the rightmost leaf splits, and then all its keys are routed to
it. `Linked`: the next leaf in the chain is a leaf other than this one, so that
writing its back link touches neither half. `WithChildFacts` is the heart of the
proof, what one more cell does to every search; the order of the root's keys is
not needed for it. Then there is a lemma for the writes of each case
(`StoreKeeps`, `RootSplitKeeps`, `LeafSplitKeeps`, `PanicKeeps`) and one for each
action.

Five invariants extend it:

- `Fit`: the records of every page fit on it. A split keeps this because a half is
  a part of what fitted, and the cell that goes to the parent is checked first; the
  lemmas about `Bytes` it needs are in `LeafCellsProofs`.
- `ChainInv`: some sequence of distinct leaves starts at the first leaf, follows
  `next` to its end (`Line`) and has every leaf on it (`Whole`), but for the leaf
  that a split whose parent was full wrote and could not announce. Once a panic
  has cut the chain (`Lone`: a right half that was never written) nothing is
  claimed of leaves beyond the cut, but `Kept` still says where the latest record
  of each key is. That the function `Chain` of the code's scan visits exactly such
  a sequence follows by walking it (`StepsFacts`), and `LineIsShort`, that distinct
  leaves are no more than there are pages, bounds the walk.
- `LinkInv`: on top of `ChainInv`, `Backs(pages, Dead(...))`: the next leaf of a leaf
  leads back to it, or to a page that was allocated and never written, and the same
  for the leaf before it. A split whose left half is empty panics behind its first
  write (`tree.rs:178-185`), the sibling's back link, which then leads to such a dead
  page; a later split of the leaf in between repairs the link. That no two leaves
  have the same next one, which `ChainInv` knows, is what shows that a split touches
  no third leaf's links. Without dead pages (`BackInv`) the same proof gives
  `BackLinks`, for payloads that satisfy `GrowthLeavesRoom`: a record that grows,
  and would fit a page, fits one together with its old copy. Payloads below half a
  page satisfy it, and so do those of `MCBTree`, all of one length. The hypothesis is
  needed: for a leaf that holds nothing but the growing record, `BackLinks` is false.
- `ScanInv`: as long as every leaf has a route, each leaf has its keys to itself
  (`Owned`, so that `HoldsOwn` holds of every leaf) and greater keys are routed no
  less far along the chain (`InOrder`). Only the rightmost leaf can then have split,
  and its upper half went behind it (`OrderGrows`). From there it is about the
  operators: `Ascending` ranks a set (`AscendingFacts`), and of a union of a set
  and a greater one it is the concatenation (`AscendingJoin`); a leaf's share of a
  range is in front of what is ahead (`AheadStep`); the recursion of `RangeScan`,
  over the leaves, has a solution, since each leaf has its place in the chain
  (`ScanExists`), and every solution returns from each leaf on what is ahead
  (`ScanFrom`). The same invariant shows that search finds every acknowledged key
  while every leaf has a route: the violation of `SearchFinds` has no other cause.
- `CrashInv`, for the tree with crashes. What a crash leaves is the store after
  some of the writes still to come, so `Plan` says of *every* store those writes
  lead to that it is `Safe`: it has the shape of a tree with nothing beyond its
  `page_count`, and a search finds of each key what was acknowledged, what the call
  in progress inserts, or nothing where a split has taken the key. Each of the
  writes changes what a search finds for the key of the call, to its new value, or
  takes a record of the upper half away or brings it back as it was (`MayChange`), and
  after the last one an answer of success
  is true (`Ends`). Writing a page takes the first write off a plan (`PlanFirst`),
  a crash drops the rest. The chain has a conjunct of its own, `Threaded`: distinct
  leaves start at the leaf of the least key and follow `next`, and either they end
  and have every record a reader was promised (`Wanted`), or the last of them leads
  to a page that is no leaf. The second case is what a crash between the halves of
  a leaf leaves. That page was counted before it was linked (`Follows`), so no
  later insert allocates it: a cut is never closed, and no allocated page is
  already linked (`Unlinked`) when its leaf is written.

Each of them was checked with TLC on the bounds of the runs before it was proved.

Induction over data is out of the prover's reach, as its theorems take an operator
as a parameter. Two recursive functions were proved about nevertheless: `Used` and
the binary search are functions on numbers, and `SetInduction`, that a set of
naturals with 0 and the successors of its members has them all, follows from the
well-foundedness of the naturals, a theorem about sets.

The fold `Bytes` and the walk along the chain needed the same: an induction on the
number of records, or of steps, as a set of naturals.

Only model-checked: `ServiceResumes`, because liveness under fairness and `ENABLED`
cannot be proved with these provers. Every other property of a run that holds is
the subject of a theorem, with three hypotheses: the pager's promises hold if no
crash hits its windows (`CrashWindows = {}`), what it says of reads and of recovered
pages if power does not fail on what only a killed process wrote (`"unsynced"`), and
the back links if a growing record has room beside its old copy
(`GrowthLeavesRoom`).

## 5. Plan

Done: every module above, with the proofs listed; no proof is left open.

Not modelled, and why:

- `print_tree`, the benchmark, parsing and printing of commands: they read and
  print, and decide nothing about the store.
- The byte layout of headers, cells and keys, and the checksum's arithmetic: no
  property needs more than that a page read is the page written.
- Offsets of interior pages: see the abstractions. The status of the slotted page
  is "partly" for this reason.
- A `.wal` file beside a database file that somebody else removed; an I/O error
  after which a caller of the library goes on. `PROJECT.json` lists them as hazards
  without a property, with the reasons.
