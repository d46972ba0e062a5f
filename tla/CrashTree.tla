------------------------------- MODULE CrashTree -------------------------------
(***************************************************************************)
(* The tree on the pager: an insert is the sequence of page writes BTree   *)
(* gives it, one after the other, to the durable store the pager           *)
(* implements (DurableStore, see Pager!ImplementsStore).  The process may  *)
(* be killed between any two of them, or in the middle of one, and opens   *)
(* the same store again.                                                   *)
(*                                                                         *)
(* The header page is in the store as page 0: an allocated page number is  *)
(* one write of it.                                                        *)
(***************************************************************************)
EXTENDS LeafCells, Sequences, SequencesExt

CONSTANTS
  MaxPageId,  \* bound: the largest page number
  MaxCrashes, \* bound: the crashes of a behaviour
  Idle        \* no insert is in progress

ASSUME BoundsAssumption == MaxPageId \in Nat \ {0} /\ MaxCrashes \in Nat

Answer == {"ok", "error", "panic"}
Records == UNION {[S -> Payload] : S \in SUBSET Key}
NoRecords == [k \in {} |-> Absent]
Call == [key : Key, payload : Payload, answer : Answer, moved : Records]
ASSUME IdleAssumption == Idle \notin Call

VARIABLES
  store, inFlight, serving,  \* the pager, see DurableStore
  pending,   \* the writes of the insert in progress that are still to come
  call,      \* that insert: its record, its answer, and the records its split moves
  expected,  \* history: what a reader may take the record of each key to be
  crashes    \* history: how many crashes there were

vars == <<store, inFlight, serving, pending, call, expected, crashes>>

Tree == INSTANCE BTree WITH
  pages <- [p \in 1..MaxPageId |-> store[p]],
  pageCount <- store[0],
  reply <- call,
  orphaned <- FALSE

Store == INSTANCE DurableStore WITH
  Page <- 0..MaxPageId,
  Value <- {},
  Fresh <- [p \in 0..MaxPageId |->
              IF p = 0 THEN 2
              ELSE IF p = Tree!Root THEN Tree!Leaf(<<>>, Tree!NoLeaf, Tree!NoLeaf)
              ELSE Tree!Unwritten]

Init ==
  /\ Store!StoreInit
  /\ pending = <<>>
  /\ call = Idle
  /\ expected = [k \in Key |-> {Absent}]
  /\ crashes = 0

-----------------------------------------------------------------------------
\* insert: the same cases as in BTree, started.

Count == store[0]
All(k, v) == Tree!AllCells(k, v)
Id(k) == Tree!LeafOf(k)

\* Mutant: the header is written last.
StartCountingLate(k, v, allocated, writes, answer, moved) ==
  /\ serving /\ call = Idle
  /\ pending' = writes \o [i \in 1..allocated |-> Tree!To(0, Count + i)]
  /\ call' = [key |-> k, payload |-> v, answer |-> answer, moved |-> moved]
  /\ UNCHANGED <<store, inFlight, serving, expected, crashes>>

\* allocate_page writes the header before any page of the insert is written.
Start(k, v, allocated, writes, answer, moved) ==
  /\ serving /\ call = Idle
  /\ pending' = [i \in 1..allocated |-> Tree!To(0, Count + i)] \o writes
  /\ call' = [key |-> k, payload |-> v, answer |-> answer, moved |-> moved]
  /\ UNCHANGED <<store, inFlight, serving, expected, crashes>>

StoreInLeaf(k, v) ==
  /\ Tree!RecordFits(k, v)
  /\ Start(k, v, 0, Tree!StoreWrites(k, v), "ok", NoRecords)

SplitRoot(k, v) ==
  /\ Tree!RootIsFull(k, v)
  /\ IF Tree!CanSplit(All(k, v))
       THEN Start(k, v, 2, Tree!RootWrites(All(k, v), Count, Count + 1), "ok", NoRecords)
       ELSE Start(k, v, 2, <<>>, "panic", NoRecords)

\* The next sibling can be a page a crash kept from being written: reading it
\* fails, or returns zeros.
SiblingIsRead(k) ==
  LET next == store[Id(k)].next
  IN  IF next = Tree!NoLeaf \/ store[next] # Tree!Unwritten THEN {TRUE} ELSE BOOLEAN

\* The records of the upper half lose their route, for a moment or for good.
SplitLeaf(k, v) ==
  /\ Tree!LeafIsFull(k, v)
  /\ Tree!CanSplit(All(k, v))
  /\ LET leaves == Tree!LeafWrites(Id(k), Count, All(k, v))
         parent == Tree!ParentWrite(k, All(k, v), Count)
         moved == Tree!High(All(k, v))
     IN  \E read \in SiblingIsRead(k) :
           IF ~read THEN Start(k, v, 1, <<>>, "error", NoRecords)
           ELSE IF Tree!RoomInParent(store[Tree!ParentOf(k)])
             THEN Start(k, v, 1, leaves \o parent, "ok", moved)
             ELSE Start(k, v, 1, leaves, "error", moved)

\* An empty left half is found out behind the read of the sibling.
SplitLeafPanics(k, v) ==
  /\ Tree!LeafIsFull(k, v)
  /\ ~Tree!CanSplit(All(k, v))
  /\ \E read \in SiblingIsRead(k) :
       IF Tree!HalvesFit(All(k, v)) /\ ~read
         THEN Start(k, v, 1, <<>>, "error", NoRecords)
         ELSE Start(k, v, 1, Tree!WritesBeforePanic(k, v), "panic", NoRecords)

Insert(k, v) ==
  StoreInLeaf(k, v) \/ SplitRoot(k, v) \/ SplitLeaf(k, v) \/ SplitLeafPanics(k, v)

-----------------------------------------------------------------------------
\* The insert under way.

WritePage ==
  /\ pending # <<>>
  /\ Store!BeginWrite(Head(pending))
  /\ pending' = Tail(pending)
  /\ UNCHANGED <<call, expected, crashes>>

WriteDone ==
  /\ Store!Acknowledge
  /\ UNCHANGED <<pending, call, expected, crashes>>

Written == call # Idle /\ pending = <<>> /\ inFlight = {}

Return ==
  /\ Written /\ call.answer = "ok"
  /\ call' = Idle
  /\ expected' = [expected EXCEPT ![call.key] = {call.payload}]
  /\ UNCHANGED <<store, inFlight, serving, pending, crashes>>

\* The process is gone; the record of its insert may have made it.
Stopped ==
  /\ Store!Fail
  /\ pending' = <<>>
  /\ call' = Idle
  /\ expected' = IF call = Idle THEN expected
                 ELSE [expected EXCEPT ![call.key] = @ \union {call.payload}]

\* An error of an insert ends the process, as a panic does.
Abort ==
  /\ Written /\ call.answer # "ok"
  /\ Stopped
  /\ UNCHANGED crashes

Crash ==
  /\ crashes < MaxCrashes
  /\ Stopped
  /\ crashes' = crashes + 1

Open ==
  /\ Store!Serve
  /\ UNCHANGED <<pending, call, expected, crashes>>

Next ==
  \/ \E k \in Key, v \in Payload : Insert(k, v)
  \/ WritePage \/ WriteDone \/ Return
  \/ Abort \/ Crash \/ Open

Spec == Init /\ [][Next]_vars

-----------------------------------------------------------------------------
\* Properties.

\* At any moment, also in the middle of a split, a search ends at a leaf: a page
\* gets its route only when it is there.
SearchReachesLeaf == \A k \in Key : store[Id(k)].type = "leaf"

\* A page that holds something is below the page_count recovery would read, at
\* any moment: no page is handed out twice.
AllocatedFirst ==
  \A p \in 1..MaxPageId : store[p] # Tree!Unwritten => p < Count

\* What one write of the insert c may do to what a search for k finds: it turns
\* up the record of the insert; or it takes away a record of the upper half a
\* split moves, as it was there; or it brings that record back from there.
Uncovers(c, k, next) == k = c.key /\ next = c.payload
Hides(c, k, now) == k \in DOMAIN c.moved /\ (k = c.key \/ now = c.moved[k])
Restores(c, k, now, next) == k \in DOMAIN c.moved /\ now = Absent /\ next = c.moved[k]

MayChange(c, k, now, next) ==
  \/ Uncovers(c, k, next)
  \/ next = Absent /\ Hides(c, k, now)
  \/ Restores(c, k, now, next)

\* What a search finds changes by the writes of the insert in progress alone,
\* never by a crash that hits no write or by a reopening; and of all the other
\* records by the coming and going of those a split moves to the new leaf: none
\* changes its payload, and none elsewhere in the tree changes at all.  An insert
\* that splits no leaf, or the root leaf, happens entirely or not at all.
SearchChangesByInsert ==
  [][\A k \in Key :
       Tree!Search(k)' # Tree!Search(k) =>
         call # Idle /\ MayChange(call, k, Tree!Search(k), Tree!Search(k)')]_vars

\* Between two inserts, crashed ones included, a search returns the latest
\* acknowledged payload, that of an insert a crash cut short, or nothing.
NoStaleRead ==
  call = Idle => \A k \in Key : Tree!Search(k) \in expected[k] \union {Absent}

\* The one window in which a crash takes acknowledged records away is that
\* between the two halves of a leaf: unless the chain leads to a page that was
\* never written, every acknowledged record is in a leaf of the chain.
ChainIsCut == ~(Tree!Chain \subseteq Tree!Leaves)

LostOnlyInCut == call = Idle /\ ~ChainIsCut => Tree!LatestInChain

\* "restoring ACID durability even across hard `SIGKILL` or power failures": the
\* code shortens the lower half in the log before the upper half is there.
AckedIsKept ==
  call = Idle =>
    \A k \in Key :
      Absent \notin expected[k] => \E p \in Tree!Leaves : k \in DOMAIN store[p].cells
================================================================================
