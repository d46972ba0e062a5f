----------------------------- MODULE MCCrashTree -----------------------------
(***************************************************************************)
(* Two short records or a long one fill a page, so that four keys give a   *)
(* tree with splits of its root, its last leaf and a leaf in the middle,   *)
(* and halves that do not fit.                                             *)
(***************************************************************************)
EXTENDS CrashTree

MCLength == [p \in Payload |-> IF p = "long" THEN 14 ELSE 0]
==============================================================================
