------------------------------- MODULE LeafCells -------------------------------
(***************************************************************************)
(* What a leaf page is to the tree: a map from keys to payloads, and the   *)
(* bytes its records take of the page.  SlottedPage is the page itself.    *)
(***************************************************************************)
EXTENDS Integers, FiniteSetsExt

CONSTANTS
  Key,        \* primary keys, an i64 in the code
  Payload,    \* what a record can hold
  Length,     \* the bytes of each payload
  Absent,     \* no record
  PageSpace   \* PAGE_SIZE - HEADER_SIZE: the bytes for pointers and cells

HasLeast(S) == \E k \in S : \A x \in S : k <= x

ASSUME KeyAssumption == Key \subseteq Int
ASSUME LeastKeyAssumption == HasLeast(Key)   \* i64::MIN
ASSUME LengthAssumption == Length \in [Payload -> Nat]
ASSUME SpaceAssumption == PageSpace \in Nat
ASSUME AbsentAssumption == Absent \notin Payload

PointerBytes == 2
LeafCellBytes == 12        \* key and payload length
CellSize(v) == LeafCellBytes + Length[v]

Bytes(cells) == MapThenSumSet(LAMBDA k : PointerBytes + CellSize(cells[k]), DOMAIN cells)

\* Mutant: an update never checks the space.
FitsAnyUpdate(cells, k, v) ==
  k \in DOMAIN cells \/ Bytes(cells) + PointerBytes + CellSize(v) <= PageSpace

\* insert_or_update_leaf_cell: a payload no longer than the old one overwrites
\* it; a longer one is stored beside it, compacting the page if need be; a new
\* key takes a pointer as well.
Fits(cells, k, v) ==
  IF k \in DOMAIN cells
    THEN Length[v] <= Length[cells[k]] \/ Bytes(cells) + CellSize(v) <= PageSpace
    ELSE Bytes(cells) + PointerBytes + CellSize(v) <= PageSpace

\* Mutant: an existing record keeps its payload.
WithRecordKept(cells, k, v) ==
  [x \in DOMAIN cells \union {k} |-> IF x \in DOMAIN cells THEN cells[x] ELSE v]

\* The cells of the leaf with the record added or replaced.
WithRecord(cells, k, v) ==
  [x \in DOMAIN cells \union {k} |-> IF x = k THEN v ELSE cells[x]]
================================================================================
