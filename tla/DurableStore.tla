----------------------------- MODULE DurableStore -----------------------------
(***************************************************************************)
(* What the pager promises the tree: a store of pages in which a write is  *)
(* atomic and, once acknowledged, permanent.  One write is in flight at a  *)
(* time.  A crash loses nothing but, perhaps, the write it interrupts: of  *)
(* that one either everything happens or nothing.                          *)
(***************************************************************************)
CONSTANTS
  Page,     \* page numbers
  Value,    \* what a page can hold
  Fresh     \* the pages of a newly created store

VARIABLES
  store,    \* the durable content of every page
  inFlight, \* the write in progress: no element, or one
  serving   \* a process is there to take and to acknowledge writes

storeVars == <<store, inFlight, serving>>

Write == [page : Page, data : Value]

Applied(w) == [store EXCEPT ![w.page] = w.data]

StoreInit == store = Fresh /\ inFlight = {} /\ serving = FALSE

Serve ==
  /\ ~serving
  /\ serving' = TRUE
  /\ UNCHANGED <<store, inFlight>>

BeginWrite(w) ==
  /\ serving
  /\ inFlight = {}
  /\ inFlight' = {w}
  /\ UNCHANGED <<store, serving>>

Begin == \E w \in Write : BeginWrite(w)

\* The write is acknowledged: it is in the store, for good.
Acknowledge ==
  /\ serving
  /\ \E w \in inFlight : store' = Applied(w)
  /\ inFlight' = {}
  /\ UNCHANGED serving

\* The process is gone; the write it had in flight may have made it.
Fail ==
  /\ serving
  /\ serving' = FALSE
  /\ inFlight' = {}
  /\ store' = store \/ \E w \in inFlight : store' = Applied(w)

StoreNext == Serve \/ Begin \/ Acknowledge \/ Fail

StoreSpec == StoreInit /\ [][StoreNext]_storeVars
===============================================================================
