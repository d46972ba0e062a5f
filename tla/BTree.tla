-------------------------------- MODULE BTree --------------------------------
(***************************************************************************)
(* The B+ tree (src/src/btree/tree.rs) over pages that are read and        *)
(* written one insert at a time: search, insert with its leaf and root     *)
(* splits, and the range scan along the leaf chain.                        *)
(*                                                                         *)
(* A leaf page is the map from keys to payloads its sorted cells encode,   *)
(* with the bytes the cells take; an interior page is the sequence of its  *)
(* cells.  An insert is one step here: a panic or an error stops the       *)
(* process, which opens the same pages again.  CrashTree stops it between  *)
(* two of the page writes.                                                 *)
(***************************************************************************)
EXTENDS LeafCells, Sequences, FiniteSets, SequencesExt

CONSTANT MaxPageId   \* bound: the largest page number

ASSUME PagesAssumption == MaxPageId \in Nat /\ MaxPageId > 0

Root == 1
PageId == 1..MaxPageId
NoLeaf == 0                \* next_leaf and prev_leaf at the ends of the chain
InteriorCellBytes == 12    \* child and key

VARIABLES
  pages,      \* every page but the header, as read_page returns it
  pageCount,  \* page_count: the number allocate_page hands out next
  reply,      \* what the last insert returned
  expected,   \* history: what a reader may take the record of each key to be
  orphaned    \* history: a split or an error has left a leaf without a route

vars == <<pages, pageCount, reply, expected, orphaned>>

Leaf(cells, next, prev) == [type |-> "leaf", cells |-> cells, next |-> next, prev |-> prev]
Interior(cells, right) == [type |-> "interior", cells |-> cells, right |-> right]

\* A page nothing was written to: all zero.
Unwritten == [type |-> "free", cells |-> <<>>, next |-> NoLeaf, prev |-> NoLeaf]

TypeOK ==
  /\ DOMAIN pages = PageId
  /\ \A p \in PageId :
       \/ pages[p] = Unwritten
       \/ /\ pages[p].type = "leaf"
          /\ DOMAIN pages[p].cells \subseteq Key
          /\ Range(pages[p].cells) \subseteq Payload
          /\ pages[p].next \in PageId \union {NoLeaf}
          /\ pages[p].prev \in PageId \union {NoLeaf}
       \/ /\ pages[p].type = "interior"
          /\ pages[p].cells \in Seq([child : PageId, key : Key])
          /\ pages[p].right \in PageId
  /\ pageCount \in 2..MaxPageId + 1
  /\ reply \in {"none", "new", "updated", "error", "panic"}
  /\ expected \in [Key -> SUBSET (Payload \union {Absent})]
  /\ orphaned \in BOOLEAN

Init ==
  /\ pages = [p \in PageId |-> IF p = Root THEN Leaf(<<>>, NoLeaf, NoLeaf) ELSE Unwritten]
  /\ pageCount = 2
  /\ reply = "none"
  /\ expected = [k \in Key |-> {Absent}]
  /\ orphaned = FALSE

-----------------------------------------------------------------------------
\* Leaf pages: the split.

\* The split by count: the lower half of the keys, rounded down, stays left.
LowKeys(S) == {k \in S : Cardinality({x \in S : x < k}) < Cardinality(S) \div 2}
Low(cells) == Restrict(cells, LowKeys(DOMAIN cells))

\* Mutant: the upper half starts one cell late.
HighPastMiddle(cells) ==
  LET keys == DOMAIN cells \ LowKeys(DOMAIN cells)
  IN  Restrict(cells, keys \ {Min(keys)})
High(cells) == Restrict(cells, DOMAIN cells \ LowKeys(DOMAIN cells))
Separator(cells) == Max(LowKeys(DOMAIN cells))

\* Each half must fit a page, or insert_leaf_cell(..).unwrap() panics; the left
\* one must have a last key, or get_leaf_key(count - 1) does.
HalvesFit(cells) == Bytes(Low(cells)) <= PageSpace /\ Bytes(High(cells)) <= PageSpace
LeftHasKey(cells) == LowKeys(DOMAIN cells) # {}
CanSplit(cells) == HalvesFit(cells) /\ LeftHasKey(cells)

-----------------------------------------------------------------------------
\* Interior pages.

\* Mutant: the separator key is taken for the first of the upper half.
ChildBelow(node, k) ==
  LET hits == {i \in 1..Len(node.cells) : k < node.cells[i].key}
  IN  IF hits = {} THEN node.right ELSE node.cells[Min(hits)].child

\* find_interior_child: the first cell whose key is not smaller.
Child(node, k) ==
  LET hits == {i \in 1..Len(node.cells) : k <= node.cells[i].key}
  IN  IF hits = {} THEN node.right ELSE node.cells[Min(hits)].child

\* insert_interior_cell: in front of the first cell with a key not smaller.
WithCell(cells, cell) ==
  LET notSmaller == {i \in 1..Len(cells) : cells[i].key >= cell.key}
      slot == IF notSmaller = {} THEN Len(cells) + 1 ELSE Min(notSmaller)
  IN  InsertAt(cells, slot, cell)

RoomInParent(node) == (Len(node.cells) + 1) * (PointerBytes + InteriorCellBytes) <= PageSpace

-----------------------------------------------------------------------------
\* Reading the tree.

\* The leaf the descent for k ends in.
LeafOf(k) ==
  LET from[p \in PageId] ==
        IF pages[p].type = "interior" THEN from[Child(pages[p], k)] ELSE p
  IN  from[Root]

\* The interior pages on the way, and the last of them.
PathTo(k) ==
  LET from[p \in PageId] ==
        IF pages[p].type = "interior" THEN <<p>> \o from[Child(pages[p], k)] ELSE <<>>
  IN  from[Root]
ParentOf(k) == Last(PathTo(k))

Search(k) ==
  LET cells == pages[LeafOf(k)].cells
  IN  IF k \in DOMAIN cells THEN cells[k] ELSE Absent

\* The pages next_leaf leads to.
Leaves == {p \in PageId : pages[p].type = "leaf"}

\* The keys of a set in ascending order.
Ascending(S) ==
  [i \in 1..Cardinality(S) |-> CHOOSE k \in S : Cardinality({x \in S : x < k}) = i - 1]

\* range_scan: from the leaf for low along next_leaf, until a key exceeds high.
RangeScan(low, high) ==
  LET from[p \in Leaves] ==
        LET cells == pages[p].cells
            keys == Ascending({k \in DOMAIN cells : low <= k /\ k <= high})
            here == [i \in DOMAIN keys |-> <<keys[i], cells[keys[i]]>>]
        IN  IF (\E k \in DOMAIN cells : k > high) \/ pages[p].next = NoLeaf
              THEN here
              ELSE here \o from[pages[p].next]
  IN  from[LeafOf(low)]

-----------------------------------------------------------------------------
\* insert: the page writes of each case, in the order of the code.  Each goes to
\* a page of its own.

To(p, content) == [page |-> p, data |-> content]

\* The pages after some writes.
After(writes) ==
  [p \in PageId |->
     IF \E w \in Range(writes) : w.page = p
       THEN (CHOOSE w \in Range(writes) : w.page = p).data ELSE pages[p]]

\* all_cells: the leaf for k with the record added or replaced.
AllCells(k, v) == WithRecord(pages[LeafOf(k)].cells, k, v)

StoreWrites(k, v) ==
  <<To(LeafOf(k), [pages[LeafOf(k)] EXCEPT !.cells = WithRecord(@, k, v)])>>

\* Mutant: the new root has no rightmost child.
RootWritesNoRight(all, left, right) ==
  <<To(left, Leaf(Low(all), right, NoLeaf)),
    To(right, Leaf(High(all), NoLeaf, left)),
    To(Root, Interior(<<[child |-> left, key |-> Separator(all)]>>, NoLeaf))>>

\* Mutant: the root becomes an interior page before its children are there.
RootWritesTopDown(all, left, right) ==
  <<To(Root, Interior(<<[child |-> left, key |-> Separator(all)]>>, right)),
    To(left, Leaf(Low(all), right, NoLeaf)),
    To(right, Leaf(High(all), NoLeaf, left))>>

\* The root is a full leaf: its halves go to two new leaves below it.
RootWrites(all, left, right) ==
  <<To(left, Leaf(Low(all), right, NoLeaf)),
    To(right, Leaf(High(all), NoLeaf, left)),
    To(Root, Interior(<<[child |-> left, key |-> Separator(all)]>>, right))>>

\* Mutant: the next sibling keeps its back link.
NoRelink(id, new) == <<>>

\* The next sibling's back link comes first.
Relink(id, new) ==
  LET next == pages[id].next
  IN  IF next = NoLeaf THEN <<>> ELSE <<To(next, [pages[next] EXCEPT !.prev = new])>>

\* Mutant: the new leaf is taken for the last of the chain.
HalvesEndingChain(id, new, all) ==
  <<To(id, Leaf(Low(all), new, pages[id].prev)), To(new, Leaf(High(all), NoLeaf, id))>>

\* Another leaf keeps its lower half; the upper half goes to a new leaf behind
\* it in the chain.
Halves(id, new, all) ==
  <<To(id, Leaf(Low(all), new, pages[id].prev)),
    To(new, Leaf(High(all), pages[id].next, id))>>

LeafWrites(id, new, all) == Relink(id, new) \o Halves(id, new, all)

\* Mutant: the rightmost pointer stays at the lower half.
WithChildRightKept(parent, left, key, right) ==
  Interior(WithCell(parent.cells, [child |-> left, key |-> key]), parent.right)

\* insert_into_parent: the new leaf takes over the rightmost pointer only.
WithChild(parent, left, key, right) ==
  Interior(WithCell(parent.cells, [child |-> left, key |-> key]),
           IF parent.right = left THEN right ELSE parent.right)

ParentWrite(k, all, new) ==
  <<To(ParentOf(k), WithChild(pages[ParentOf(k)], LeafOf(k), Separator(all), new))>>

-----------------------------------------------------------------------------
\* insert: which case it is.

RecordFits(k, v) == Fits(pages[LeafOf(k)].cells, k, v)
RootIsFull(k, v) == LeafOf(k) = Root /\ ~RecordFits(k, v) /\ pageCount + 1 <= MaxPageId
LeafIsFull(k, v) == LeafOf(k) # Root /\ ~RecordFits(k, v) /\ pageCount <= MaxPageId

Perform(writes, allocated, answer) ==
  /\ pages' = After(writes)
  /\ pageCount' = pageCount + allocated
  /\ reply' = answer

Acknowledged(k, v) == expected' = [expected EXCEPT ![k] = {v}]
Doubtful(k, v) == expected' = [expected EXCEPT ![k] = @ \union {v}]

StoreInLeaf(k, v) ==
  /\ RecordFits(k, v)
  /\ Perform(StoreWrites(k, v), 0, IF k \in DOMAIN pages[LeafOf(k)].cells THEN "updated" ELSE "new")
  /\ Acknowledged(k, v)
  /\ UNCHANGED orphaned

SplitRoot(k, v) ==
  /\ RootIsFull(k, v)
  /\ CanSplit(AllCells(k, v))
  /\ Perform(RootWrites(AllCells(k, v), pageCount, pageCount + 1), 2, "new")
  /\ Acknowledged(k, v)
  /\ UNCHANGED orphaned

\* Both pages are allocated by then; nothing else is written.
SplitRootPanics(k, v) ==
  /\ RootIsFull(k, v)
  /\ ~CanSplit(AllCells(k, v))
  /\ Perform(<<>>, 2, "panic")
  /\ Doubtful(k, v)
  /\ UNCHANGED orphaned

SplitLeaf(k, v) ==
  LET all == AllCells(k, v)
  IN  /\ LeafIsFull(k, v)
      /\ CanSplit(all)
      /\ RoomInParent(pages[ParentOf(k)])
      /\ Perform(LeafWrites(LeafOf(k), pageCount, all) \o ParentWrite(k, all, pageCount), 1, "new")
      /\ orphaned' = (orphaned \/ pages[ParentOf(k)].right # LeafOf(k))
      /\ Acknowledged(k, v)

\* The parent is full: an error, with the two leaves already written.
ParentIsFull(k, v) ==
  LET all == AllCells(k, v)
  IN  /\ LeafIsFull(k, v)
      /\ CanSplit(all)
      /\ ~RoomInParent(pages[ParentOf(k)])
      /\ Perform(LeafWrites(LeafOf(k), pageCount, all), 1, "error")
      /\ orphaned' = TRUE
      /\ Doubtful(k, v)

\* A half that overflows panics before any write, an empty one behind the first.
WritesBeforePanic(k, v) ==
  IF HalvesFit(AllCells(k, v)) THEN Relink(LeafOf(k), pageCount) ELSE <<>>

SplitLeafPanics(k, v) ==
  /\ LeafIsFull(k, v)
  /\ ~CanSplit(AllCells(k, v))
  /\ Perform(WritesBeforePanic(k, v), 1, "panic")
  /\ Doubtful(k, v)
  /\ UNCHANGED orphaned

Insert(k, v) ==
  \/ StoreInLeaf(k, v)
  \/ SplitRoot(k, v) \/ SplitRootPanics(k, v)
  \/ SplitLeaf(k, v) \/ ParentIsFull(k, v) \/ SplitLeafPanics(k, v)

Next == \E k \in Key, v \in Payload : Insert(k, v)

Spec == Init /\ [][Next]_vars

-----------------------------------------------------------------------------
\* What the properties are about.

\* The leaf chain, from the leaf the smallest key leads to.
ChainStep ==
  LET leaf[i \in 0..MaxPageId] ==
        IF i = 0 THEN LeafOf(Min(Key))
        ELSE LET before == leaf[i-1]
             IN  IF before = NoLeaf THEN NoLeaf ELSE pages[before].next
  IN  leaf
Chain == {ChainStep[i] : i \in 0..MaxPageId} \ {NoLeaf}

\* The tree is the map it promises, as long as every leaf has a route.
Map == INSTANCE KeyValueMap WITH
  Keys <- Key,
  Payloads <- Payload,
  Nothing <- Absent,
  map <- [k \in Key |-> Search(k)]

-----------------------------------------------------------------------------
\* Properties.

\* A search returns the latest payload an insert acknowledged for the key, or
\* nothing: whatever splits and failed inserts came between, it never comes
\* upon an older copy that a split left in another leaf.
NoStaleRead == \A k \in Key : Search(k) \in expected[k] \union {Absent}

\* No acknowledged record leaves the leaf chain: the one a split may take out
\* of the reach of search is still in some leaf of it.
LatestInChain ==
  \A k \in Key :
    Absent \notin expected[k] =>
      \E p \in Chain : k \in DOMAIN pages[p].cells /\ pages[p].cells[k] \in expected[k]

\* next_leaf leads from the first leaf through every leaf, and ends.
ChainIsComplete == ChainStep[MaxPageId] = NoLeaf /\ Chain = Leaves

\* prev_leaf is the way back.
BackLinks ==
  \A p \in Leaves :
    /\ pages[p].next # NoLeaf => pages[pages[p].next].prev = p
    /\ pages[p].prev # NoLeaf => pages[pages[p].prev].next = p

\* A link that is not returned leads to, or comes from, a page that no leaf ever
\* was written to: only a split that panics after it has written the sibling's
\* back link spoils one, and it spoils no other.
SpoiledLinksAreDead ==
  \A p \in Leaves :
    /\ pages[p].next # NoLeaf =>
         LET back == pages[pages[p].next].prev
         IN  back = p \/ (back \in PageId /\ back < pageCount /\ pages[back] = Unwritten)
    /\ pages[p].prev # NoLeaf =>
         LET before == pages[pages[p].prev]
         IN  (before.type = "leaf" /\ before.next = p)
             \/ (pages[p].prev < pageCount /\ before = Unwritten)

\* While every leaf has a route, a range scan returns exactly the records a
\* search for each key of the range finds, in key order.
ScanAgreesWithSearch ==
  ~orphaned =>
    \A low, high \in Key :
      LET found == {k \in Key : low <= k /\ k <= high /\ Search(k) # Absent}
          keys == Ascending(found)
      IN  RangeScan(low, high) = [i \in DOMAIN keys |-> <<keys[i], Search(keys[i])>>]

\* While every leaf has a route, each insert that returns is one step of the map,
\* and an insert that fails is none.
ImplementsMap ==
  /\ Map!MapInit
  /\ [][~orphaned' => IF reply' \in {"new", "updated"}
                       THEN Map!MapNext
                       ELSE UNCHANGED [k \in Key |-> Search(k)]]_vars

\* A page holds no more than its space, whatever mix of payloads it got.
PagesFit ==
  \A p \in PageId :
    IF pages[p].type = "interior"
      THEN Len(pages[p].cells) * (PointerBytes + InteriorCellBytes) <= PageSpace
      ELSE Bytes(pages[p].cells) <= PageSpace

\* "Retrieves all records": the code loses those a split of a leaf that is not
\* the rightmost one moves, because the old cell of the parent still leads to
\* the left half.
SearchFinds == \A k \in Key : Absent \notin expected[k] => Search(k) # Absent

\* "In-place update if payload fits, reallocation [..] if length expands": the
\* code panics when the halves of the split by count do not fit their pages, or
\* the leaf holds the growing record alone.
UpdatesDoNotPanic ==
  [][\A k \in Key, v \in Payload :
       Insert(k, v) /\ Search(k) # Absent
         /\ PointerBytes + LeafCellBytes + Length[v] <= PageSpace
         => reply' # "panic"]_vars
=============================================================================
