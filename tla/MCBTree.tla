------------------------------- MODULE MCBTree -------------------------------
(***************************************************************************)
(* Small trees: pages of a few dozen bytes, so that three short records    *)
(* fill a leaf and three cells an interior page.                           *)
(***************************************************************************)
EXTENDS BTree

\* Two records of the same length, so that a stale one can be told.
MCSameLength == [p \in Payload |-> 0]
\* One of them fills more than half a page.
MCHuge == [p \in Payload |-> IF p = "huge" THEN 20 ELSE 0]
\* A short record grows to a longer one beside another short record, to the last
\* byte of the page; a huge one fits a page alone, but not beside an old copy.
MCMixed == [p \in Payload |-> IF p = "huge" THEN 20 ELSE IF p = "long" THEN 2 ELSE 0]
=============================================================================
