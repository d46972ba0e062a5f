------------------------------ MODULE SlottedPage ------------------------------
(***************************************************************************)
(* A leaf page (src/src/storage/page.rs): an array of 2-byte pointers that *)
(* grows upwards from the header, in the order of the keys, and cells of   *)
(* different lengths that grow downwards from the end of the page.         *)
(*                                                                         *)
(* The bytes are seen as the cells that can be read from them: writing any *)
(* bytes destroys every cell they overlap, so that what a pointer leads to *)
(* has to be there still, whole, to be read.                               *)
(***************************************************************************)
EXTENDS LeafCells, Sequences, SequencesExt

HeaderSize == 20
PageSize == HeaderSize + PageSpace
Address == HeaderSize..PageSize-1
Cell == [key : Key, payload : Payload]

VARIABLE page   \* slots: the pointers; content: cell_content_offset;
                \* cells: the whole cells of the page, by their first byte

TypeOK ==
  /\ page.slots \in Seq(Address)
  /\ page.content \in HeaderSize..PageSize
  /\ DOMAIN page.cells \subseteq Address
  /\ \A o \in DOMAIN page.cells : page.cells[o] \in Cell

-----------------------------------------------------------------------------
\* Reading a page p.

Slots(p) == 1..Len(p.slots)
KeyAt(p, i) == p.cells[p.slots[i]].key
PayloadAt(p, i) == p.cells[p.slots[i]].payload
SizeAt(p, i) == CellSize(PayloadAt(p, i))
EndAt(p, i) == p.slots[i] + SizeAt(p, i)

\* The bytes of the first i cells.
Used(p) ==
  LET used[i \in 0..Len(p.slots)] == IF i = 0 THEN 0 ELSE used[i - 1] + SizeAt(p, i)
  IN  used

PointersEnd(p) == HeaderSize + PointerBytes * Len(p.slots)
FreeSpace(p) == IF p.content >= PointersEnd(p) THEN p.content - PointersEnd(p) ELSE 0
TotalFreeSpace(p) ==
  LET taken == PointersEnd(p) + Used(p)[Len(p.slots)]
  IN  IF taken <= PageSize THEN PageSize - taken ELSE 0

\* Mutant: the loop gives up when one slot is left.
ProbeShort(p, k, low, high, rest) ==
  LET mid == (low + high) \div 2
  IN  IF low >= high THEN [slot |-> low, found |-> FALSE]
      ELSE IF KeyAt(p, mid) = k THEN [slot |-> mid, found |-> TRUE]
      ELSE IF KeyAt(p, mid) < k THEN rest[<<mid + 1, high>>]
      ELSE rest[<<low, mid - 1>>]

\* One turn of the loop of find_leaf_cell; rest is what the next turn finds.
Probe(p, k, low, high, rest) ==
  LET mid == (low + high) \div 2
  IN  IF low > high THEN [slot |-> low, found |-> FALSE]
      ELSE IF KeyAt(p, mid) = k THEN [slot |-> mid, found |-> TRUE]
      ELSE IF KeyAt(p, mid) < k THEN rest[<<mid + 1, high>>]
      ELSE rest[<<low, mid - 1>>]

\* find_leaf_cell: the slot of the key, or the one it would take.
FindLeafCell(p, k) ==
  LET search[r \in (1..Len(p.slots) + 1) \X (0..Len(p.slots))] ==
        Probe(p, k, r[1], r[2], search)
  IN  search[<<1, Len(p.slots)>>]

-----------------------------------------------------------------------------
\* Writing.

\* Bytes low..high-1 are written over: the cells that are whole after that.
Spared(cells, low, high) ==
  Restrict(cells, {o \in DOMAIN cells : o + CellSize(cells[o].payload) <= low \/ high <= o})

Written(cells, o, k, v) ==
  LET spared == Spared(cells, o, o + CellSize(v))
  IN  [a \in DOMAIN spared \union {o} |->
         IF a = o THEN [key |-> k, payload |-> v] ELSE cells[a]]

\* Mutant: the pointers keep their offsets.
DefragmentedLosingPointers(p) ==
  LET start == [i \in Slots(p) |-> PageSize - Used(p)[i]]
      owner(o) == CHOOSE i \in Slots(p) : start[i] = o
  IN  [slots |-> p.slots,
       content |-> PageSize - Used(p)[Len(p.slots)],
       cells |-> [o \in Range(start) |-> p.cells[p.slots[owner(o)]]]]

\* defragment: the cells, in key order, side by side from the end of the page.
\* A dead cell below them is not kept: no pointer leads there again.
Defragmented(p) ==
  LET start == [i \in Slots(p) |-> PageSize - Used(p)[i]]
      owner(o) == CHOOSE i \in Slots(p) : start[i] = o
  IN  [slots |-> start,
       content |-> PageSize - Used(p)[Len(p.slots)],
       cells |-> [o \in Range(start) |-> p.cells[p.slots[owner(o)]]]]

\* Mutant: scattered free bytes do not count.
HasRoomContiguous(p, n) == FreeSpace(p) >= n

\* A cell needs n bytes: those above the pointers, or, compacting, all free ones.
HasRoom(p, n) == FreeSpace(p) >= n \/ TotalFreeSpace(p) >= n

\* Mutant: the space is checked, the page not compacted.
MadeRoomUncompacted(p, n) == p
MadeRoom(p, n) == IF FreeSpace(p) >= n THEN p ELSE Defragmented(p)

\* The new cell takes the bytes below the lowest one.
Allocated(p, k, v) ==
  LET o == p.content - CellSize(v)
  IN  [slots |-> p.slots, content |-> o, cells |-> Written(p.cells, o, k, v)]

-----------------------------------------------------------------------------
\* insert_or_update_leaf_cell of (k, v): what the page p becomes.

\* The key is there and the new cell no larger than the old one: in its place.
Overwritten(p, slot, k, v) == [p EXCEPT !.cells = Written(@, p.slots[slot], k, v)]

\* Mutant: the pointer is left at the old cell.
RelocatedKeepingSlot(p, slot, k, v) == Allocated(MadeRoom(p, CellSize(v)), k, v)

\* It is larger: the old cell becomes dead space.
Relocated(p, slot, k, v) ==
  LET new == Allocated(MadeRoom(p, CellSize(v)), k, v)
  IN  [new EXCEPT !.slots[slot] = new.content]

\* A new key: the pointers from its slot on move up, over the bytes behind them.
Added(p, slot, k, v) ==
  LET new == Allocated(MadeRoom(p, CellSize(v) + PointerBytes), k, v)
      end == PointersEnd(p)
  IN  [slots |-> InsertAt(new.slots, slot, new.content),
       content |-> new.content,
       cells |-> Spared(new.cells, end, end + PointerBytes)]

FitsInPlace(p, at, v) == at.found /\ CellSize(v) <= SizeAt(p, at.slot)
Needed(at, v) == CellSize(v) + IF at.found THEN 0 ELSE PointerBytes

Accepts(p, k, v) ==
  LET at == FindLeafCell(p, k)
  IN  FitsInPlace(p, at, v) \/ HasRoom(p, Needed(at, v))

Stored(p, k, v) ==
  LET at == FindLeafCell(p, k)
  IN  IF FitsInPlace(p, at, v) THEN Overwritten(p, at.slot, k, v)
      ELSE IF at.found THEN Relocated(p, at.slot, k, v)
      ELSE Added(p, at.slot, k, v)

\* delete_leaf_cell of k: the cell becomes dead space.
Deleted(p, k) ==
  LET at == FindLeafCell(p, k)
  IN  IF at.found THEN [p EXCEPT !.slots = RemoveAt(@, at.slot)] ELSE p

-----------------------------------------------------------------------------
\* The calls.

InsertOrUpdateLeafCell(k, v) == Accepts(page, k, v) /\ page' = Stored(page, k, v)

\* The error that makes the tree split the page.
Overflow(k, v) == ~Accepts(page, k, v) /\ UNCHANGED page

DeleteLeafCell(k) == page' = Deleted(page, k)

Defragment == page' = Defragmented(page)

\* new_leaf
Init == page = [slots |-> <<>>, content |-> PageSize, cells |-> <<>>]

Next ==
  \/ \E k \in Key, v \in Payload : InsertOrUpdateLeafCell(k, v) \/ Overflow(k, v)
  \/ \E k \in Key : DeleteLeafCell(k)
  \/ Defragment

Spec == Init /\ [][Next]_page

-----------------------------------------------------------------------------
\* Properties.

\* The map the page stores.
Records(p) ==
  [k \in {KeyAt(p, i) : i \in Slots(p)} |->
     PayloadAt(p, CHOOSE i \in Slots(p) : KeyAt(p, i) = k)]

\* A page whose live cells are all whole, and one whose keys ascend.
Intact(p) ==
  /\ PointersEnd(p) <= p.content
  /\ \A i \in Slots(p) :
       /\ p.slots[i] \in DOMAIN p.cells
       /\ p.content <= p.slots[i] /\ EndAt(p, i) <= PageSize
       /\ \A j \in Slots(p) \ {i} : EndAt(p, i) <= p.slots[j] \/ EndAt(p, j) <= p.slots[i]
Sorted(p) == \A i, j \in Slots(p) : i < j => KeyAt(p, i) < KeyAt(p, j)

\* Every pointer leads to a whole cell, the live cells keep clear of each other
\* and of the pointers, whatever inserts, growing and shrinking updates,
\* deletions and compactions came before.
CellsAreIntact == Intact(page)

\* The pointers stay in the order of the keys, and no key has two.
KeysAreSorted == Sorted(page)

\* The binary search finds a key exactly if the page has it, and otherwise the
\* slot in front of the first larger key.
FindIsExact ==
  \A k \in Key :
    LET at == FindLeafCell(page, k)
    IN  /\ at.found <=> k \in DOMAIN Records(page)
        /\ at.slot = Cardinality({i \in Slots(page) : KeyAt(page, i) < k}) + 1

\* The page is the leaf the tree takes it for.  It accepts a record exactly if
\* the bytes of its records leave room, however scattered the free bytes are
\* ("preventing premature B+Tree page splits") ..
AcceptsWhatFits ==
  \A k \in Key, v \in Payload : Accepts(page, k, v) <=> Fits(Records(page), k, v)

\* .. and whatever bytes move, an insert or update changes the payload of one
\* key to the new one, a deletion takes one key away, compaction changes none.
ActsAsMap ==
  /\ \A k \in Key :
       /\ Records(Deleted(page, k)) = Restrict(Records(page), DOMAIN Records(page) \ {k})
       /\ \A v \in Payload :
            Accepts(page, k, v) =>
              Records(Stored(page, k, v)) = WithRecord(Records(page), k, v)
  /\ Records(Defragmented(page)) = Records(page)
================================================================================
