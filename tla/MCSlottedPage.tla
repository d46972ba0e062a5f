---------------------------- MODULE MCSlottedPage ----------------------------
(***************************************************************************)
(* A small page: room for two or three records, so that it fills up, gets  *)
(* holes and has to be compacted.                                          *)
(***************************************************************************)
EXTENDS SlottedPage

MCLength == [p \in Payload |-> IF p = "long" THEN 5 ELSE IF p = "mid" THEN 2 ELSE 0]
===============================================================================
