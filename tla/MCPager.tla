------------------------------- MODULE MCPager -------------------------------
(***************************************************************************)
(* Small instances of Pager: four pages (header, root and two more), two   *)
(* page contents, frames of three units of which a crash may keep some.    *)
(***************************************************************************)
EXTENDS Pager, TLC

MCContent == Header \union Data \union {Blank, Garbage}
=============================================================================
