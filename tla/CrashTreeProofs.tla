---------------------------- MODULE CrashTreeProofs ----------------------------
(***************************************************************************)
(* Theorems about the tree that is killed between two page writes: for     *)
(* every page size, every number of pages and crashes and every set of     *)
(* keys, a search ends at a leaf, a page is counted before it is written,  *)
(* what a search finds changes by the insert in progress alone, and        *)
(* acknowledged records leave the chain of leaves only where it is cut.    *)
(*                                                                         *)
(* The lemmas about the tree and its chain are those of BTreeProofs and    *)
(* BTreeChain, taken for the pages of a store.                             *)
(***************************************************************************)
EXTENDS CrashTree, SequenceTheorems, TLAPS

Pages(s) == [p \in 1..MaxPageId |-> s[p]]

B == INSTANCE BTreeChain WITH
  pages <- Pages(store),
  pageCount <- store[0],
  reply <- call,
  orphaned <- FALSE

\* The least that is known of the constants, for those lemmas.
LEMMA PagesBound == MaxPageId \in Nat /\ MaxPageId > 0
  BY BoundsAssumption

LEMMA LeastKeyBound == B!HasLeast(Key)
  BY LeastKeyAssumption DEF HasLeast, B!HasLeast

USE PagesBound, KeyAssumption, LeastKeyBound, LengthAssumption, SpaceAssumption, AbsentAssumption

-----------------------------------------------------------------------------
\* The inductive invariant: whatever write of the insert in progress is the last
\* one, the store it leaves is a tree in which a search finds nothing but what a
\* reader may take the record to be.

Put(s, w) == [s EXCEPT ![w.page] = w.data]

\* What a search for x may find, given the insert c.
Vouched(x, found, c, e) ==
  \/ found \in e[x] \union {Absent}
  \/ c # Idle /\ x = c.key /\ found = c.payload

\* The records that are to be in the chain, given the insert c, and when it has
\* returned.
Wanted(c, e) == [x \in Key |-> IF c # Idle /\ x = c.key THEN e[x] \union {c.payload} ELSE e[x]]
Promised(c, e) == [x \in Key |-> IF x = c.key THEN {c.payload} ELSE e[x]]

IsStore(s) == s = [p \in 0..MaxPageId |-> s[p]]

\* A store the process can be stopped in.
Safe(s, c, e) ==
  /\ IsStore(s)
  /\ s[0] \in 2..MaxPageId + 1
  /\ B!Shape(Pages(s), s[0]) /\ B!HoldsOwn(Pages(s)) /\ B!Follows(Pages(s), s[0])
  /\ \A x \in Key : Vouched(x, B!Found(Pages(s), x), c, e)
  /\ B!Threaded(Pages(s), Wanted(c, e))

\* What one write of the insert c may change.
Changes(s, t, c) ==
  \A x \in Key :
    B!Found(Pages(t), x) # B!Found(Pages(s), x) =>
      MayChange(c, x, B!Found(Pages(s), x), B!Found(Pages(t), x))

\* What an insert that returns has done.
Ends(s, c, e) ==
  c.answer = "ok" => /\ B!Found(Pages(s), c.key) \in {c.payload, Absent}
                     /\ B!Threaded(Pages(s), Promised(c, e))

\* The writes ws, from the store s on, one after the other: path holds the stores
\* between them.
Follow(ws, path, s) ==
  /\ path[0] = s
  /\ \A n \in 1..Len(ws) : ws[n].page \in 0..MaxPageId /\ path[n] = Put(path[n-1], ws[n])

Plan(ws, s, c, e) ==
  \E T, path :
    /\ ws \in Seq(T) /\ Follow(ws, path, s)
    /\ \A n \in 0..Len(ws) : Safe(path[n], c, e)
    /\ \A n \in 1..Len(ws) : Changes(path[n-1], path[n], c)
    /\ Ends(path[Len(ws)], c, e)

\* One write that leads from a safe store to a safe one.
Good(s, w, c, e) ==
  w.page \in 0..MaxPageId /\ Safe(Put(s, w), c, e) /\ Changes(s, Put(s, w), c)

CrashInv ==
  /\ expected \in [Key -> SUBSET (Payload \union {Absent})]
  /\ Safe(store, call, expected)
  /\ IF call = Idle
       THEN pending = <<>> /\ inFlight = {}
       ELSE /\ serving /\ call \in Call
            /\ \/ inFlight = {} /\ Plan(pending, store, call, expected)
               \/ \E w : /\ inFlight = {w} /\ Good(store, w, call, expected)
                         /\ Plan(pending, Put(store, w), call, expected)

-----------------------------------------------------------------------------
\* Plans.

\* Nothing is left to be written.
LEMMA PlanEmpty ==
  ASSUME NEW s, NEW c, NEW e, Safe(s, c, e), Ends(s, c, e)
  PROVE  Plan(<<>>, s, c, e)
  <1> DEFINE path == [n \in {0} |-> s]
  <1>1. <<>> \in Seq({}) /\ Len(<<>>) = 0 /\ path[0] = s
    OBVIOUS
  <1> HIDE DEF path
  <1>2. Follow(<<>>, path, s)
    BY <1>1 DEF Follow
  <1>3. \A n \in 0..Len(<<>>) : Safe(path[n], c, e)
    BY <1>1
  <1>4. \A n \in 1..Len(<<>>) : Changes(path[n-1], path[n], c)
    BY <1>1
  <1>5. Ends(path[Len(<<>>)], c, e)
    BY <1>1
  <1> QED
    BY <1>1, <1>2, <1>3, <1>4, <1>5 DEF Plan

LEMMA ConcatFacts ==
  ASSUME NEW S, NEW s \in Seq(S), NEW t \in Seq(S)
  PROVE  /\ s \o t \in Seq(S) /\ Len(s \o t) = Len(s) + Len(t)
         /\ \A i \in 1..Len(s) + Len(t) :
              (s \o t)[i] = IF i <= Len(s) THEN s[i] ELSE t[i - Len(s)]
  <1>1. s \o t \in Seq(S)
    BY ConcatProperties, Zenon
  <1>2. /\ Len(s \o t) = Len(s) + Len(t)
        /\ \A i \in 1..Len(s) + Len(t) :
             (s \o t)[i] = IF i <= Len(s) THEN s[i] ELSE t[i - Len(s)]
    BY ConcatProperties, Zenon
  <1> QED
    BY <1>1, <1>2

\* One write comes before the others.
LEMMA PlanCons ==
  ASSUME NEW s, NEW c, NEW e, Safe(s, c, e), NEW w, Good(s, w, c, e),
         NEW ws, Plan(ws, Put(s, w), c, e)
  PROVE  Plan(<<w>> \o ws, s, c, e)
  <1>1. PICK T, path :
          /\ ws \in Seq(T) /\ Follow(ws, path, Put(s, w))
          /\ \A n \in 0..Len(ws) : Safe(path[n], c, e)
          /\ \A n \in 1..Len(ws) : Changes(path[n-1], path[n], c)
          /\ Ends(path[Len(ws)], c, e)
    BY DEF Plan
  <1> DEFINE U == T \union {w}
             vs == <<w>> \o ws
             long == [n \in 0..Len(ws) + 1 |-> IF n = 0 THEN s ELSE path[n-1]]
  <1>2. /\ Len(ws) \in Nat /\ vs \in Seq(U) /\ Len(vs) = Len(ws) + 1
        /\ vs[1] = w /\ \A n \in 1..Len(ws) : vs[n+1] = ws[n]
    <2> DEFINE a == <<w>>
    <2>1. ws \in Seq(U) /\ a \in Seq(U) /\ Len(a) = 1 /\ a[1] = w /\ vs = a \o ws /\ Len(ws) \in Nat
      BY <1>1, SeqMonotonic
    <2> HIDE DEF U, a, vs
    <2>2. a \o ws \in Seq(U) /\ Len(a \o ws) = Len(a) + Len(ws)
      BY <2>1, ConcatFacts
    <2>3. \A i \in 1..Len(a) + Len(ws) : (a \o ws)[i] = IF i <= Len(a) THEN a[i] ELSE ws[i - Len(a)]
      BY ONLY <2>1, ConcatFacts
    <2>4. ASSUME NEW n \in 1..Len(ws) PROVE vs[n+1] = ws[n]
      <3>1. n + 1 \in 1..Len(a) + Len(ws) /\ ~(n + 1 <= Len(a)) /\ (n + 1) - Len(a) = n
        BY <2>1
      <3>2. (a \o ws)[n+1] = ws[n]
        BY ONLY <2>3, <3>1
      <3> QED
        BY <2>1, <3>2
    <2> QED
      BY <2>1, <2>2, <2>3, <2>4
  <1> HIDE DEF vs
  <1>3. long[0] = s /\ \A n \in 0..Len(ws) : long[n+1] = path[n]
    BY <1>2
  <1> HIDE DEF long
  <1>4. path[0] = Put(s, w)
    BY <1>1 DEF Follow
  <1>5. \A n \in 1..Len(vs) : n = 1 \/ (n - 1 \in 1..Len(ws) /\ n - 1 \in 0..Len(ws) /\ n - 2 \in 0..Len(ws))
    BY <1>2
  <1>6. ASSUME NEW n \in 1..Len(vs)
        PROVE  /\ vs[n].page \in 0..MaxPageId /\ long[n] = Put(long[n-1], vs[n])
               /\ Changes(long[n-1], long[n], c)
    <2>1. CASE n = 1
      <3>1. long[1] = Put(s, w) /\ long[0] = s /\ vs[1] = w
        BY <1>2, <1>3, <1>4
      <3> QED
        BY <2>1, <3>1 DEF Good
    <2>2. CASE n - 1 \in 1..Len(ws) /\ n - 1 \in 0..Len(ws) /\ n - 2 \in 0..Len(ws)
      <3> DEFINE m == n - 1
      <3>1. m \in 1..Len(ws) /\ m - 1 \in 0..Len(ws) /\ m \in 0..Len(ws) /\ n = m + 1 /\ m = (m - 1) + 1
        BY <1>2, <2>2
      <3> HIDE DEF m
      <3>2. vs[n] = ws[m] /\ long[n] = path[m] /\ long[n-1] = path[m-1]
        <4>1. vs[m+1] = ws[m] /\ long[m+1] = path[m] /\ long[(m-1)+1] = path[m-1]
          BY <1>2, <1>3, <3>1
        <4>2. n - 1 = m
          BY DEF m
        <4> QED
          BY <3>1, <4>1, <4>2
      <3> QED
        BY <1>1, <3>1, <3>2 DEF Follow
    <2> QED
      BY <1>5, <2>1, <2>2
  <1>7. Follow(vs, long, s)
    BY <1>3, <1>6 DEF Follow
  <1>8. ASSUME NEW n \in 0..Len(vs) PROVE Safe(long[n], c, e)
    <2>1. CASE n = 0
      BY <1>3, <2>1
    <2>2. CASE n # 0
      <3>1. n - 1 \in 0..Len(ws) /\ n = (n - 1) + 1
        BY <1>2, <2>2
      <3> QED
        BY <1>1, <1>3, <3>1
    <2> QED
      BY <2>1, <2>2
  <1>9. Ends(long[Len(vs)], c, e)
    <2>1. Len(ws) \in 0..Len(ws)
      BY <1>2
    <2> QED
      BY <1>1, <1>2, <1>3, <2>1
  <1>10. Plan(vs, s, c, e)
    BY <1>2, <1>6, <1>7, <1>8, <1>9 DEF Plan
  <1> QED
    BY <1>10 DEF vs

\* The first write of a plan, and what is left of it.
LEMMA PlanFirst ==
  ASSUME NEW ws, NEW s, NEW c, NEW e, Plan(ws, s, c, e), ws # <<>>
  PROVE  Good(s, Head(ws), c, e) /\ Plan(Tail(ws), Put(s, Head(ws)), c, e)
  <1>1. PICK T, path :
          /\ ws \in Seq(T) /\ Follow(ws, path, s)
          /\ \A n \in 0..Len(ws) : Safe(path[n], c, e)
          /\ \A n \in 1..Len(ws) : Changes(path[n-1], path[n], c)
          /\ Ends(path[Len(ws)], c, e)
    BY DEF Plan
  <1> DEFINE vs == Tail(ws)
             rest == [n \in 0..Len(ws) - 1 |-> path[n+1]]
  <1>2. /\ Len(ws) \in Nat \ {0} /\ vs \in Seq(T) /\ Len(vs) = Len(ws) - 1
        /\ Head(ws) = ws[1] /\ \A n \in 1..Len(ws) - 1 : vs[n] = ws[n+1]
    BY <1>1
  <1> HIDE DEF vs
  <1>3. \A n \in 0..Len(ws) - 1 : rest[n] = path[n+1]
    OBVIOUS
  <1> HIDE DEF rest
  <1>4. /\ 0 \in 0..Len(ws) - 1 /\ 1 \in 1..Len(ws) /\ 1 \in 0..Len(ws)
        /\ \A n \in 0..Len(ws) - 1 : n + 1 \in 0..Len(ws)
        /\ \A n \in 1..Len(ws) - 1 :
             /\ n \in 0..Len(ws) - 1 /\ n - 1 \in 0..Len(ws) - 1 /\ n + 1 \in 1..Len(ws)
             /\ (n + 1) - 1 = n /\ (n - 1) + 1 = n
    BY <1>2
  <1>5. path[0] = s /\ path[1] = Put(s, Head(ws)) /\ ws[1].page \in 0..MaxPageId
    BY <1>1, <1>2, <1>4 DEF Follow
  <1>6. Good(s, Head(ws), c, e)
    <2>1. Safe(path[1], c, e) /\ Changes(path[0], path[1], c)
      BY <1>1, <1>4
    <2> QED
      BY <1>2, <1>5, <2>1 DEF Good
  <1>7. ASSUME NEW n \in 1..Len(vs)
        PROVE  /\ vs[n].page \in 0..MaxPageId /\ rest[n] = Put(rest[n-1], vs[n])
               /\ Changes(rest[n-1], rest[n], c)
    <2>1. n \in 1..Len(ws) - 1
      BY <1>2
    <2>2. vs[n] = ws[n+1] /\ rest[n] = path[n+1] /\ rest[n-1] = path[n]
      BY <1>2, <1>3, <1>4, <2>1
    <2>3. /\ ws[n+1].page \in 0..MaxPageId /\ path[n+1] = Put(path[n], ws[n+1])
          /\ Changes(path[n], path[n+1], c)
      BY <1>1, <1>4, <2>1 DEF Follow
    <2> QED
      BY <2>2, <2>3
  <1>8. rest[0] = Put(s, Head(ws))
    BY <1>3, <1>4, <1>5
  <1>9. \A n \in 0..Len(vs) : Safe(rest[n], c, e)
    BY <1>1, <1>2, <1>3, <1>4
  <1>10. Ends(rest[Len(vs)], c, e)
    <2>1. Len(vs) \in 0..Len(ws) - 1 /\ Len(vs) + 1 = Len(ws)
      BY <1>2
    <2> QED
      BY <1>1, <1>3, <2>1
  <1>11. Plan(vs, Put(s, Head(ws)), c, e)
    BY <1>2, <1>7, <1>8, <1>9, <1>10 DEF Plan, Follow
  <1> QED
    BY <1>6, <1>11 DEF vs

\* A plan starts in a safe store, and ends as the insert does.
LEMMA PlanSafe ==
  ASSUME NEW ws, NEW s, NEW c, NEW e, Plan(ws, s, c, e)
  PROVE  Safe(s, c, e) /\ (ws = <<>> => Ends(s, c, e))
  <1>1. PICK T, path :
          /\ ws \in Seq(T) /\ Follow(ws, path, s)
          /\ \A n \in 0..Len(ws) : Safe(path[n], c, e)
          /\ Ends(path[Len(ws)], c, e)
    BY DEF Plan
  <1>2. 0 \in 0..Len(ws) /\ path[0] = s /\ (ws = <<>> => Len(ws) = 0)
    BY <1>1 DEF Follow
  <1> QED
    BY <1>1, <1>2

-----------------------------------------------------------------------------
\* The operators of the tree the store is read with are those the lemmas of
\* BTreeProofs are about.

LEMMA SamePages ==
  /\ Tree!Root = B!Root /\ Tree!NoLeaf = B!NoLeaf /\ Tree!Unwritten = B!Unwritten
  /\ \A c, n, b : Tree!Leaf(c, n, b) = B!Leaf(c, n, b)
  /\ \A c, r : Tree!Interior(c, r) = B!Interior(c, r)
  /\ \A p, d : Tree!To(p, d) = B!To(p, d)
  BY DEF Tree!Root, B!Root, Tree!NoLeaf, B!NoLeaf, Tree!Unwritten, B!Unwritten,
         Tree!Leaf, B!Leaf, Tree!Interior, B!Interior, Tree!To, B!To

LEMMA SameCells ==
  /\ \A c : Tree!Low(c) = B!Low(c) /\ Tree!High(c) = B!High(c)
  /\ \A c : Tree!Separator(c) = B!Separator(c) /\ (Tree!LeftHasKey(c) <=> B!LeftHasKey(c))
  /\ \A c, k, v : Tree!WithRecord(c, k, v) = B!WithRecord(c, k, v)
  /\ \A n, l, sep, r : Tree!WithChild(n, l, sep, r) = B!WithChild(n, l, sep, r)
  <1>1. \A S : Tree!Cardinality(S) = B!Cardinality(S)
    BY DEF Tree!Cardinality, B!Cardinality
  <1>2. \A c : Tree!Low(c) = B!Low(c) /\ Tree!High(c) = B!High(c)
    BY <1>1 DEF Tree!Low, B!Low, Tree!High, B!High, Tree!LowKeys, B!LowKeys,
                Tree!Restrict, B!Restrict
  <1>3. \A c : Tree!Separator(c) = B!Separator(c)
    BY <1>1 DEF Tree!Separator, B!Separator, Tree!LowKeys, B!LowKeys, Tree!Max, B!Max
  <1>4. \A c : Tree!LeftHasKey(c) <=> B!LeftHasKey(c)
    BY <1>1 DEF Tree!LeftHasKey, B!LeftHasKey, Tree!LowKeys, B!LowKeys
  <1>5. \A c, k, v : Tree!WithRecord(c, k, v) = B!WithRecord(c, k, v)
    BY DEF Tree!WithRecord, B!WithRecord
  <1>6. \A n, l, sep, r : Tree!WithChild(n, l, sep, r) = B!WithChild(n, l, sep, r)
    BY DEF Tree!WithChild, B!WithChild, Tree!WithCell, B!WithCell, Tree!InsertAt, B!InsertAt,
           Tree!Min, B!Min, Tree!Interior, B!Interior
  <1> QED
    BY <1>2, <1>3, <1>4, <1>5, <1>6

LEMMA SameDescent ==
  \A k : /\ Tree!LeafOf(k) = B!LeafOf(k) /\ Tree!ParentOf(k) = B!ParentOf(k)
         /\ Tree!Search(k) = B!Search(k)
  <1>1. \A k : Tree!LeafOf(k) = B!LeafOf(k) /\ Tree!ParentOf(k) = B!ParentOf(k)
    BY DEF Tree!LeafOf, B!LeafOf, Tree!ParentOf, B!ParentOf, Tree!PathTo, B!PathTo, Tree!Last,
           B!Last, Tree!Child, B!Child, Tree!Min, B!Min, Tree!PageId, B!PageId, Tree!Root, B!Root,
           Pages
  <1> QED
    BY <1>1 DEF Tree!Search, B!Search, Pages

\* In a safe store the descent and the search are those of the shape of the tree.
LEMMA SafeReads ==
  ASSUME NEW c, NEW e, Safe(store, c, e), NEW k \in Key
  PROVE  /\ Id(k) = B!Route(Pages(store), k)
         /\ Pages(store)[B!Root].type = "interior" => Tree!ParentOf(k) = B!Root
         /\ Tree!Search(k) = B!Found(Pages(store), k)
  <1>1. B!Shape(Pages(store), store[0])
    BY DEF Safe
  <1>2. /\ B!LeafOf(k) = B!Route(Pages(store), k)
        /\ Pages(store)[B!Root].type = "interior" => B!ParentOf(k) = B!Root
    BY <1>1, B!DescentFacts
  <1>3. B!Search(k) = B!Found(Pages(store), k)
    BY <1>1, B!SearchFacts
  <1> QED
    BY <1>2, <1>3, SameDescent DEF Id

-----------------------------------------------------------------------------
\* One write to a safe store.

LEMMA PageIds ==
  /\ B!PageId = 1..MaxPageId /\ B!Root = 1 /\ B!Root \in B!PageId
  /\ \A p, d : B!To(p, d).page = p /\ B!To(p, d).data = d
  /\ \A s : \A p \in B!PageId : Pages(s)[p] = s[p]
  BY DEF B!PageId, B!Root, B!To, Pages

\* A write changes one page, and the header is none of the tree's pages.
LEMMA PutFacts ==
  ASSUME NEW s, IsStore(s), NEW p \in 0..MaxPageId, NEW d,
         NEW t, t = Put(s, B!To(p, d))
  PROVE  /\ IsStore(t)
         /\ t[p] = d /\ \A q \in 0..MaxPageId : q # p => t[q] = s[q]
  <1> DEFINE w == B!To(p, d)
  <1>1. w.page = p /\ w.data = d
    BY PageIds
  <1> HIDE DEF w
  <1>2. t = [s EXCEPT ![p] = d]
    BY <1>1 DEF Put, w
  <1>3. DOMAIN s = 0..MaxPageId /\ s = [q \in 0..MaxPageId |-> s[q]]
    BY DEF IsStore
  <1> QED
    BY <1>2, <1>3 DEF IsStore

LEMMA PutPage ==
  ASSUME NEW s, IsStore(s), NEW p \in B!PageId, NEW d,
         NEW t, t = Put(s, B!To(p, d))
  PROVE  /\ IsStore(t) /\ t[0] = s[0]
         /\ t[p] = d /\ \A q \in B!PageId \ {p} : t[q] = s[q]
         /\ Pages(t) = B!Replaced(Pages(s), p, d)
  <1>1. p \in 0..MaxPageId /\ p # 0 /\ 0 \in 0..MaxPageId /\ B!PageId \subseteq 0..MaxPageId
    BY PageIds
  <1>2. /\ IsStore(t) /\ t[0] = s[0]
        /\ t[p] = d /\ \A q \in B!PageId \ {p} : t[q] = s[q]
    BY <1>1, PutFacts
  <1>3. Pages(t) = [q \in B!PageId |-> t[q]] /\ Pages(s) = [q \in B!PageId |-> s[q]]
    BY PageIds DEF Pages
  <1>4. [Pages(s) EXCEPT ![p] = d] = [q \in B!PageId |-> IF q = p THEN d ELSE s[q]]
    BY <1>3
  <1>5. \A q \in B!PageId : t[q] = IF q = p THEN d ELSE s[q]
    BY <1>2
  <1>6. Pages(t) = [q \in B!PageId |-> IF q = p THEN d ELSE s[q]]
    BY <1>3, <1>5, Zenon
  <1> QED
    BY <1>2, <1>4, <1>6 DEF B!Replaced

\* A page number is allocated.
LEMMA HeaderGood ==
  ASSUME NEW s, NEW c, NEW e, Safe(s, c, e), NEW d \in 2..MaxPageId + 1, s[0] <= d,
         NEW t, t = Put(s, B!To(0, d))
  PROVE  /\ Good(s, B!To(0, d), c, e) /\ Safe(t, c, e)
         /\ t[0] = d /\ Pages(t) = Pages(s) /\ \A p \in B!PageId : t[p] = s[p]
  <1>1. IsStore(s)
    BY DEF Safe
  <1>2. IsStore(t) /\ t[0] = d /\ \A p \in B!PageId : t[p] = s[p]
    <2>1. 0 \in 0..MaxPageId /\ \A p \in B!PageId : p \in 0..MaxPageId /\ p # 0
      BY PageIds
    <2> QED
      BY <1>1, <2>1, PutFacts
  <1>3. Pages(t) = Pages(s)
    <2>1. \A p \in 1..MaxPageId : t[p] = s[p]
      BY <1>2, PageIds
    <2> QED
      BY <2>1, Zenon DEF Pages
  <1>4. B!Shape(Pages(s), d) /\ B!Follows(Pages(s), d)
    <2>1. /\ B!Shape(Pages(s), s[0]) /\ B!Follows(Pages(s), s[0])
          /\ s[0] \in Int /\ d \in Int /\ s[0] <= d
      BY DEF Safe
    <2> QED
      BY <2>1, B!HeaderPut
  <1>5. Safe(t, c, e)
    BY <1>2, <1>3, <1>4 DEF Safe
  <1>6. Changes(s, t, c)
    BY <1>3 DEF Changes
  <1> QED
    BY <1>2, <1>3, <1>5, <1>6, PageIds DEF Good

\* A leaf is written, or a page no key leads to.
LEMMA LeafGood ==
  ASSUME NEW s, NEW c, NEW e, Safe(s, c, e), c # Idle,
         NEW p \in B!PageId, ~(s[0] <= p), s[p].type # "interior",
         NEW n, B!LeafPage(n) \/ (B!Blank(n) /\ s[p].type # "leaf"),
         (n.type = "leaf" /\ n.next # B!NoLeaf) => n.next \notin {p, B!Root} /\ ~(s[0] <= n.next),
         \A x \in Key : B!Route(Pages(s), x) = p =>
            /\ \A y \in DOMAIN n.cells : B!Route(Pages(s), y) = p
            /\ \/ B!Record(n.cells, x) = B!Found(Pages(s), x)
               \/ x = c.key /\ B!Record(n.cells, x) = c.payload
               \/ B!Record(n.cells, x) = Absent /\ Hides(c, x, B!Found(Pages(s), x)),
         NEW t, t = Put(s, B!To(p, n)), B!Threaded(Pages(t), Wanted(c, e))
  PROVE  /\ Good(s, B!To(p, n), c, e) /\ Safe(t, c, e)
         /\ \A x \in Key : B!Route(Pages(t), x) = B!Route(Pages(s), x)
         /\ \A x \in Key :
              B!Found(Pages(t), x) = IF B!Route(Pages(s), x) = p THEN B!Record(n.cells, x)
                                     ELSE B!Found(Pages(s), x)
  <1>1. /\ IsStore(t) /\ t[0] = s[0]
        /\ Pages(t) = B!Replaced(Pages(s), p, n) /\ Pages(s)[p] = s[p]
    <2>1. IsStore(s)
      BY DEF Safe
    <2> QED
      BY <2>1, PutPage, PageIds
  <1>2. /\ B!Shape(Pages(t), s[0]) /\ B!HoldsOwn(Pages(t)) /\ B!Follows(Pages(t), s[0])
        /\ \A x \in Key : B!Route(Pages(t), x) = B!Route(Pages(s), x)
        /\ \A x \in Key :
             B!Found(Pages(t), x) = IF B!Route(Pages(s), x) = p THEN B!Record(n.cells, x)
                                    ELSE B!Found(Pages(s), x)
    <2>1. B!Shape(Pages(s), s[0]) /\ B!HoldsOwn(Pages(s)) /\ B!Follows(Pages(s), s[0])
      BY DEF Safe
    <2>2. Pages(s)[p].type # "interior" /\ (s[p].type # "leaf" => Pages(s)[p].type # "leaf")
      BY <1>1
    <2> DEFINE pg == Pages(s)
               pq == Pages(t)
    <2>3. /\ B!Shape(pg, s[0]) /\ B!HoldsOwn(pg) /\ B!Follows(pg, s[0])
          /\ ~(s[0] <= p) /\ pg[p].type # "interior"
          /\ B!LeafPage(n) \/ (B!Blank(n) /\ pg[p].type # "leaf")
          /\ pq = B!Replaced(pg, p, n)
          /\ \A x \in Key : B!Route(pg, x) = p => \A y \in DOMAIN n.cells : B!Route(pg, y) = p
      BY <1>1, <2>1, <2>2
    <2> HIDE DEF pg, pq
    <2>4. /\ B!Shape(pq, s[0]) /\ B!HoldsOwn(pq) /\ B!Follows(pq, s[0])
          /\ \A x \in Key : B!Route(pq, x) = B!Route(pg, x)
          /\ \A x \in Key :
               B!Found(pq, x) = IF B!Route(pg, x) = p THEN B!Record(n.cells, x) ELSE B!Found(pg, x)
      BY <2>3, B!PagePut
    <2> QED
      BY <2>4 DEF pg, pq
  <1>3. \A x \in Key : Vouched(x, B!Found(Pages(t), x), c, e)
    BY <1>2 DEF Safe, Vouched
  <1>4. Safe(t, c, e)
    BY <1>1, <1>2, <1>3 DEF Safe
  <1>5. Changes(s, t, c)
    BY <1>2 DEF Changes, MayChange, Uncovers
  <1> QED
    BY <1>2, <1>4, <1>5, PageIds DEF Good

LEMMA SafeThread ==
  ASSUME NEW s, NEW c, NEW e, Safe(s, c, e)
  PROVE  /\ B!Threaded(Pages(s), Wanted(c, e)) /\ B!Links(Pages(s)) /\ IsStore(s)
         /\ \A x \in Key : /\ B!Route(Pages(s), x) \in B!PageId
                            /\ s[B!Route(Pages(s), x)].type = "leaf"
         /\ \A x \in Key :
              Wanted(c, e)[x] = IF c # Idle /\ x = c.key THEN e[x] \union {c.payload} ELSE e[x]
         /\ \A x \in Key : Promised(c, e)[x] = IF x = c.key THEN {c.payload} ELSE e[x]
  <1>1. B!Shape(Pages(s), s[0]) /\ B!Threaded(Pages(s), Wanted(c, e)) /\ IsStore(s)
    BY DEF Safe
  <1>2. B!Links(Pages(s))
    BY <1>1, B!ShapeLinks
  <1>3. \A x \in Key : B!Route(Pages(s), x) \in B!PageId /\ s[B!Route(Pages(s), x)].type = "leaf"
    BY <1>1, B!RouteFacts, PageIds
  <1> QED
    BY <1>1, <1>2, <1>3 DEF Wanted, Promised

\* The page n in the place of p keeps the records wanted, and has those that are
\* wanted more.
Keeps(s, p, n, c, e, more) ==
  \A x \in Key : Absent \notin more[x] =>
    \/ B!Route(Pages(s), x) = p /\ x \in DOMAIN n.cells /\ n.cells[x] \in more[x]
    \/ /\ Absent \notin Wanted(c, e)[x] /\ Wanted(c, e)[x] \subseteq more[x]
       /\ s[p].type = "leaf" /\ x \in DOMAIN s[p].cells =>
            x \in DOMAIN n.cells /\ (n.cells[x] = s[p].cells[x] \/ n.cells[x] \in more[x])

\* A page that is no interior one takes no part in the routes.
LEMMA RouteSame ==
  ASSUME NEW pg, NEW pq, NEW p \in B!PageId, pg[p].type # "interior", pq[p].type # "interior",
         \A q \in B!PageId \ {p} : pq[q] = pg[q]
  PROVE  \A x \in Key : B!Route(pq, x) = B!Route(pg, x)
  BY B!RouteKept

\* A page is written that stays a leaf, with its link, or stays none.
LEMMA LinksStay ==
  ASSUME NEW s, NEW c, NEW e, Safe(s, c, e),
         NEW p \in B!PageId, s[p].type # "interior",
         NEW n, n.type = s[p].type, s[p].type = "leaf" => n.next = s[p].next,
         NEW t, t = Put(s, B!To(p, n)), NEW more, Keeps(s, p, n, c, e, more)
  PROVE  B!Threaded(Pages(t), more)
  <1> DEFINE pg == Pages(s)
             pq == Pages(t)
             want == Wanted(c, e)
  <1>1. /\ B!Threaded(pg, want) /\ B!Links(pg) /\ IsStore(s)
        /\ \A x \in Key : B!Route(pg, x) \in B!PageId
    BY SafeThread
  <1>2. /\ pg[p] = s[p] /\ pq[p] = n /\ \A q \in B!PageId \ {p} : pq[q] = pg[q]
    BY <1>1, PutPage, PageIds
  <1> HIDE DEF pg, pq, want
  <1>3. \A x \in Key : B!Route(pq, x) = B!Route(pg, x)
    BY <1>2, RouteSame
  <1>4. /\ \A q \in B!PageId : B!LeafAt(pq, q) <=> B!LeafAt(pg, q)
        /\ \A q \in B!PageId : B!LeafAt(pg, q) => pq[q].next = pg[q].next
    BY <1>2 DEF B!LeafAt
  <1>5. ASSUME NEW x \in Key, Absent \notin more[x]
        PROVE  \/ B!Has(pq, B!Route(pg, x), x, more[x])
               \/ /\ Absent \notin want[x]
                  /\ \A q \in B!PageId :
                       B!LeafAt(pg, q) /\ B!Has(pg, q, x, want[x]) => B!Has(pq, q, x, more[x])
    <2>1. CASE B!Route(pg, x) = p /\ x \in DOMAIN n.cells /\ n.cells[x] \in more[x]
      BY <1>2, <2>1 DEF B!Has
    <2>2. CASE /\ Absent \notin want[x] /\ want[x] \subseteq more[x]
               /\ s[p].type = "leaf" /\ x \in DOMAIN s[p].cells =>
                    x \in DOMAIN n.cells /\ (n.cells[x] = s[p].cells[x] \/ n.cells[x] \in more[x])
      <3>1. ASSUME NEW q \in B!PageId, B!LeafAt(pg, q), B!Has(pg, q, x, want[x])
            PROVE  B!Has(pq, q, x, more[x])
        <4>1. CASE q = p
          BY <1>2, <2>2, <3>1, <4>1 DEF B!Has, B!LeafAt
        <4>2. CASE q # p
          BY <1>2, <2>2, <3>1, <4>2 DEF B!Has
        <4> QED
          BY <4>1, <4>2
      <3> QED
        BY <2>2, <3>1
    <2> QED
      BY <1>5, <2>1, <2>2 DEF Keeps, pg, want
  <1>6. B!Threaded(pq, more)
    BY <1>1, <1>3, <1>4, <1>5, B!ThreadPut
  <1> QED
    BY <1>6 DEF pq

\* As long as the root is a leaf, it is all of the chain.
LEMMA RootIsChain ==
  ASSUME NEW s, NEW c, NEW e, Safe(s, c, e), s[B!Root].type = "leaf"
  PROVE  /\ \A x \in Key :
              Absent \notin Wanted(c, e)[x] => B!Found(Pages(s), x) \in Wanted(c, e)[x]
         /\ \A t : t[B!Root] = s[B!Root] => B!Threaded(Pages(t), Wanted(c, e))
  <1> DEFINE pg == Pages(s)
             want == Wanted(c, e)
  <1>1. B!Threaded(pg, want) /\ pg[B!Root] = s[B!Root] /\ B!LeafAt(pg, B!Root)
    <2>1. B!Threaded(pg, want)
      BY SafeThread
    <2>2. pg[B!Root] = s[B!Root]
      BY PageIds
    <2> HIDE DEF pg, want
    <2> QED
      BY <2>1, <2>2 DEF B!LeafAt
  <1> HIDE DEF pg, want
  <1>2. /\ pg[B!Root].next = B!NoLeaf
        /\ \A x \in Key : Absent \notin want[x] => B!Has(pg, B!Root, x, want[x])
    BY <1>1, B!RootHolds
  <1>3. \A x \in Key : B!Route(pg, x) = B!Root
    BY <1>1 DEF B!Route, B!LeafAt
  <1>4. \A x \in Key : Absent \notin want[x] => B!Found(pg, x) \in want[x]
    BY <1>2, <1>3 DEF B!Has, B!Found
  <1>5. ASSUME NEW t, t[B!Root] = s[B!Root] PROVE B!Threaded(Pages(t), want)
    <2> DEFINE pq == Pages(t)
    <2>1. pq[B!Root] = pg[B!Root]
      BY <1>1, <1>5, PageIds
    <2> HIDE DEF pq
    <2>2. /\ B!LeafAt(pq, B!Root) /\ pq[B!Root].next = B!NoLeaf
          /\ \A x \in Key : Absent \notin want[x] => B!Has(pq, B!Root, x, want[x])
      BY <1>1, <1>2, <2>1 DEF B!LeafAt, B!Has
    <2>3. B!Threaded(pq, want)
      BY <2>2, B!ThreadOfOne
    <2> QED
      BY <2>3 DEF pq
  <1> QED
    BY <1>4, <1>5 DEF pg, want

-----------------------------------------------------------------------------
\* Sequences of writes.

LEMMA ConcatIs ==
  ASSUME NEW S, NEW s \in Seq(S), NEW t \in Seq(S), NEW u \in Seq(S), Len(u) = Len(s) + Len(t),
         \A i \in 1..Len(s) : u[i] = s[i], \A i \in 1..Len(t) : u[Len(s) + i] = t[i]
  PROVE  s \o t = u
  <1> DEFINE v == s \o t
  <1>1. v \in Seq(S)
    BY ConcatFacts
  <1>2. /\ Len(v) = Len(s) + Len(t)
        /\ \A i \in 1..Len(s) + Len(t) : v[i] = IF i <= Len(s) THEN s[i] ELSE t[i - Len(s)]
    BY ConcatFacts
  <1>3. Len(s) \in Nat /\ Len(t) \in Nat
    OBVIOUS
  <1> HIDE DEF v
  <1>4. ASSUME NEW i \in 1..Len(v) PROVE v[i] = u[i]
    <2>1. CASE i <= Len(s)
      BY <1>2, <1>3, <2>1
    <2>2. CASE Len(s) < i
      <3>1. i - Len(s) \in 1..Len(t) /\ Len(s) + (i - Len(s)) = i
        BY <1>2, <1>3, <2>2
      <3> QED
        BY <1>2, <1>3, <2>2, <3>1
    <2> QED
      BY <1>2, <1>3, <2>1, <2>2
  <1>5. v = u
    BY <1>1, <1>2, <1>4, SeqEqual
  <1> QED
    BY <1>5 DEF v

LEMMA Pairs == \A a, b : <<a>> \o <<b>> = <<a, b>>
  <1> SUFFICES ASSUME NEW x, NEW y PROVE <<x>> \o <<y>> = <<x, y>>
    OBVIOUS
  <1>1. /\ <<x>> \in Seq({x, y}) /\ <<y>> \in Seq({x, y}) /\ <<x, y>> \in Seq({x, y})
        /\ Len(<<x, y>>) = Len(<<x>>) + Len(<<y>>)
        /\ <<x, y>>[1] = x /\ <<x, y>>[1 + 1] = y /\ Len(<<x>>) = 1 /\ Len(<<y>>) = 1
        /\ <<x>>[1] = x /\ <<y>>[1] = y /\ \A i \in 1..1 : i = 1
    OBVIOUS
  <1>2. /\ \A i \in 1..Len(<<x>>) : <<x, y>>[i] = <<x>>[i]
        /\ \A i \in 1..Len(<<y>>) : <<x, y>>[Len(<<x>>) + i] = <<y>>[i]
    BY <1>1, Zenon
  <1> QED
    BY <1>1, <1>2, ConcatIs, Zenon

LEMMA Triples == \A a, b, c : <<a>> \o <<b, c>> = <<a, b, c>>
  <1> SUFFICES ASSUME NEW x, NEW y, NEW z PROVE <<x>> \o <<y, z>> = <<x, y, z>>
    OBVIOUS
  <1> DEFINE S == {x, y, z}
  <1>1. /\ <<x>> \in Seq(S) /\ <<y, z>> \in Seq(S) /\ <<x, y, z>> \in Seq(S)
        /\ Len(<<x, y, z>>) = Len(<<x>>) + Len(<<y, z>>)
        /\ \A i \in 1..Len(<<x>>) : <<x, y, z>>[i] = <<x>>[i]
        /\ \A i \in 1..Len(<<y, z>>) : <<x, y, z>>[Len(<<x>>) + i] = <<y, z>>[i]
    OBVIOUS
  <1> QED
    BY <1>1, ConcatIs, Zenon

LEMMA Concat3 ==
  ASSUME NEW x, NEW y, NEW z
  PROVE  (<<x>> \o <<y>>) \o <<z>> = <<x>> \o (<<y>> \o <<z>>)
  <1> DEFINE S == {x, y, z}
             a == <<x>>
             b == <<y>>
             c == <<z>>
  <1>1. a \in Seq(S) /\ b \in Seq(S) /\ c \in Seq(S)
    OBVIOUS
  <1> HIDE DEF S, a, b, c
  <1>2. (a \o b) \o c = a \o (b \o c)
    BY <1>1, ConcatAssociative
  <1> QED
    BY <1>2 DEF a, b, c

LEMMA Concat4 ==
  ASSUME NEW x, NEW y, NEW z, NEW u
  PROVE  (<<x>> \o (<<y>> \o <<z>>)) \o <<u>> = <<x>> \o (<<y>> \o (<<z>> \o <<u>>))
  <1> DEFINE S == {x, y, z, u}
             a == <<x>>
             b == <<y>> \o <<z>>
             c == <<u>>
  <1>1. a \in Seq(S) /\ c \in Seq(S)
    OBVIOUS
  <1>2. b \in Seq(S)
    <2>1. <<y>> \in Seq(S) /\ <<z>> \in Seq(S)
      OBVIOUS
    <2> QED
      BY <2>1, ConcatProperties
  <1>3. b \o c = <<y>> \o (<<z>> \o <<u>>)
    BY Concat3
  <1> HIDE DEF S, a, b, c
  <1>4. (a \o b) \o c = a \o (b \o c)
    BY <1>1, <1>2, ConcatAssociative
  <1>5. (a \o b) \o c = a \o (<<y>> \o (<<z>> \o <<u>>))
    BY <1>3, <1>4
  <1> QED
    BY <1>5 DEF a, b, c

LEMMA Headers ==
  ASSUME NEW n \in Int
  PROVE  /\ [i \in 1..0 |-> B!To(0, n + i)] = <<>>
         /\ [i \in 1..1 |-> B!To(0, n + i)] = <<B!To(0, n + 1)>>
         /\ [i \in 1..2 |-> B!To(0, n + i)] = <<B!To(0, n + 1), B!To(0, n + 2)>>
  <1> DEFINE F(i) == B!To(0, n + i)
  <1> HIDE DEF F
  <1>1. [i \in 1..0 |-> F(i)] = <<>>
    OBVIOUS
  <1>2. [i \in 1..1 |-> F(i)] = <<F(1)>>
    OBVIOUS
  <1>3. [i \in 1..2 |-> F(i)] = <<F(1), F(2)>>
    OBVIOUS
  <1> QED
    BY <1>1, <1>2, <1>3 DEF F

\* The last write.
LEMMA PlanLast ==
  ASSUME NEW s, NEW c, NEW e, Safe(s, c, e), NEW w, Good(s, w, c, e), Ends(Put(s, w), c, e)
  PROVE  Plan(<<w>>, s, c, e)
  <1>1. Plan(<<>>, Put(s, w), c, e)
    BY PlanEmpty DEF Good
  <1>2. Plan(<<w>> \o <<>>, s, c, e)
    BY <1>1, PlanCons
  <1>3. <<w>> \o <<>> = <<w>>
    OBVIOUS
  <1> QED
    BY <1>2, <1>3

\* The page numbers are allocated first; nothing else of the store changes.
Allocated(s, t, n) ==
  t[0] = s[0] + n /\ Pages(t) = Pages(s) /\ \A p \in B!PageId : t[p] = s[p]

LEMMA PlanHeaders ==
  ASSUME NEW s, NEW c, NEW e, Safe(s, c, e), NEW n \in {1, 2}, s[0] + n <= MaxPageId + 1,
         NEW ws, \A t : Safe(t, c, e) /\ Allocated(s, t, n) => Plan(ws, t, c, e)
  PROVE  Plan([i \in 1..n |-> B!To(0, s[0] + i)] \o ws, s, c, e)
  <1> DEFINE a == B!To(0, s[0] + 1)
             b == B!To(0, s[0] + 2)
  <1>1. s[0] \in Int /\ 2 <= s[0]
    BY DEF Safe
  <1>2. s[0] + 1 \in 2..MaxPageId + 1 /\ s[0] <= s[0] + 1
    BY <1>1
  <1>3. Good(s, a, c, e) /\ Safe(Put(s, a), c, e) /\ Allocated(s, Put(s, a), 1)
    BY <1>2, HeaderGood DEF Allocated
  <1>4. CASE n = 1
    <2>1. Plan(ws, Put(s, a), c, e)
      BY <1>3, <1>4
    <2>2. Plan(<<a>> \o ws, s, c, e)
      BY <1>3, <2>1, PlanCons
    <2> QED
      BY <1>1, <1>4, <2>2, Headers
  <1>5. CASE n = 2
    <2>1. s[0] + 2 \in 2..MaxPageId + 1 /\ Put(s, a)[0] <= s[0] + 2
      BY <1>1, <1>3, <1>5 DEF Allocated
    <2> DEFINE t == Put(s, a)
    <2>2. /\ Good(t, b, c, e) /\ Safe(Put(t, b), c, e)
          /\ Put(t, b)[0] = s[0] + 2 /\ Pages(Put(t, b)) = Pages(t)
          /\ \A p \in B!PageId : Put(t, b)[p] = t[p]
      <3> HIDE DEF t
      <3> QED
        BY <1>3, <2>1, HeaderGood DEF t
    <2>3. Plan(ws, Put(Put(s, a), b), c, e)
      BY <1>3, <1>5, <2>2 DEF Allocated
    <2>4. Plan(<<b>> \o ws, Put(s, a), c, e)
      BY <1>3, <2>2, <2>3, PlanCons
    <2>5. Plan(<<a>> \o (<<b>> \o ws), s, c, e)
      BY <1>3, <2>4, PlanCons
    <2>6. PICK T : ws \in Seq(T)
      BY <2>3 DEF Plan
    <2>7. <<a, b>> \o ws = <<a>> \o (<<b>> \o ws)
      <3> DEFINE S == T \union {a, b}
                 x == <<a>>
                 y == <<b>>
      <3>1. T \subseteq S /\ x \in Seq(S) /\ y \in Seq(S)
        OBVIOUS
      <3>2. x \o y = <<a, b>>
        BY Pairs
      <3> HIDE DEF S, x, y
      <3>3. ws \in Seq(S)
        BY <2>6, <3>1, SeqMonotonic
      <3>4. (x \o y) \o ws = x \o (y \o ws)
        BY ONLY <3>1, <3>3, ConcatAssociative
      <3>5. <<a, b>> \o ws = x \o (y \o ws)
        BY <3>2, <3>4
      <3> QED
        BY <3>5 DEF x, y
    <2>8. [i \in 1..n |-> B!To(0, s[0] + i)] = <<a, b>>
      BY <1>1, <1>5, Headers
    <2> QED
      BY <2>5, <2>7, <2>8
  <1> QED
    BY <1>4, <1>5

-----------------------------------------------------------------------------
\* The insert of a record, from a safe store on.

\* The leaf the record goes to, and its cells with the record.
Leaf(s, k) == B!Route(Pages(s), k)
Cells(s, k, v) == B!WithRecord(s[Leaf(s, k)].cells, k, v)

Goes(s, k, v, id, all) ==
  /\ id \in B!PageId /\ ~(s[0] <= id)
  /\ s[id].type = "leaf" /\ B!LeafPage(s[id])
  /\ id = B!Root <=> s[B!Root].type = "leaf"
  /\ B!Records(all) /\ DOMAIN all = DOMAIN s[id].cells \union {k}
  /\ \A x \in DOMAIN all : all[x] = IF x = k THEN v ELSE s[id].cells[x]
  /\ \A x \in DOMAIN all : B!Route(Pages(s), x) = id
  /\ \A x \in Key : B!Route(Pages(s), x) = id =>
       B!Record(all, x) = IF x = k THEN v ELSE B!Found(Pages(s), x)
  /\ B!Route(Pages(s), k) = id

LEMMA LeafIs ==
  ASSUME NEW s, NEW c, NEW e, Safe(s, c, e), NEW k \in Key, NEW v \in Payload
  PROVE  Goes(s, k, v, Leaf(s, k), Cells(s, k, v))
  <1> DEFINE id == Leaf(s, k)
             cells == s[id].cells
             all == Cells(s, k, v)
  <1>1. B!Shape(Pages(s), s[0]) /\ B!HoldsOwn(Pages(s))
    BY DEF Safe
  <1>2. /\ id \in B!PageId /\ Pages(s)[id].type = "leaf" /\ B!LeafPage(Pages(s)[id])
        /\ ~(s[0] <= id)
        /\ id = B!Root <=> Pages(s)[B!Root].type = "leaf"
    BY <1>1, B!RouteFacts DEF Leaf
  <1>3. Pages(s)[id] = s[id] /\ Pages(s)[B!Root] = s[B!Root]
    BY <1>2, PageIds
  <1>4. B!Records(cells)
    BY <1>2, <1>3, B!LeafFacts
  <1>5. /\ B!Records(all) /\ DOMAIN all = DOMAIN cells \union {k}
        /\ \A x \in DOMAIN cells \union {k} : all[x] = IF x = k THEN v ELSE cells[x]
    <2>1. all = B!WithRecord(cells, k, v) /\ k \in Key /\ v \in Payload
      BY DEF Cells
    <2> HIDE DEF cells, all
    <2>2. /\ B!Records(B!WithRecord(cells, k, v))
          /\ DOMAIN B!WithRecord(cells, k, v) = DOMAIN cells \union {k}
          /\ \A x \in DOMAIN cells \union {k} :
               B!WithRecord(cells, k, v)[x] = IF x = k THEN v ELSE cells[x]
      <3>1. B!Records(B!WithRecord(cells, k, v))
        BY <1>4, <2>1, B!WithRecordFacts
      <3>2. B!WithRecord(cells, k, v) =
              [x \in DOMAIN cells \union {k} |-> IF x = k THEN v ELSE cells[x]]
        BY DEF B!WithRecord
      <3> QED
        BY <3>1, <3>2
    <2> QED
      BY <2>1, <2>2
  <1>6. \A x \in DOMAIN all : B!Route(Pages(s), x) = id
    BY <1>1, <1>3, <1>4, <1>5 DEF B!HoldsOwn, B!Records, Leaf
  <1>7. ASSUME NEW x \in Key, B!Route(Pages(s), x) = id
        PROVE  B!Record(all, x) = IF x = k THEN v ELSE B!Found(Pages(s), x)
    <2>1. B!Found(Pages(s), x) = B!Record(cells, x)
      BY <1>3, <1>7, B!FoundRecord
    <2> QED
      BY <1>5, <2>1 DEF B!Record
  <1>8. /\ id \in B!PageId /\ ~(s[0] <= id)
        /\ s[id].type = "leaf" /\ B!LeafPage(s[id])
        /\ id = B!Root <=> s[B!Root].type = "leaf"
    BY <1>2, <1>3
  <1>9. /\ B!Records(all) /\ DOMAIN all = DOMAIN s[id].cells \union {k}
        /\ \A x \in DOMAIN all : all[x] = IF x = k THEN v ELSE s[id].cells[x]
    BY <1>5
  <1>10. B!Route(Pages(s), k) = id
    BY DEF Leaf
  <1> HIDE DEF id, cells, all
  <1>11. Goes(s, k, v, id, all)
    BY <1>6, <1>7, <1>8, <1>9, <1>10 DEF Goes
  <1> QED
    BY <1>11 DEF id, all

LEMMA LeafFacts ==
  ASSUME NEW s, NEW c, NEW e, Safe(s, c, e), NEW k \in Key, NEW v \in Payload
  PROVE  LET id == Leaf(s, k)
             all == Cells(s, k, v)
         IN  /\ id \in B!PageId /\ ~(s[0] <= id)
             /\ s[id].type = "leaf" /\ B!LeafPage(s[id])
             /\ id = B!Root <=> s[B!Root].type = "leaf"
             /\ B!Records(all) /\ DOMAIN all = DOMAIN s[id].cells \union {k}
             /\ \A x \in DOMAIN all : all[x] = IF x = k THEN v ELSE s[id].cells[x]
             /\ \A x \in DOMAIN all : B!Route(Pages(s), x) = id
             /\ \A x \in Key : B!Route(Pages(s), x) = id =>
                  B!Record(all, x) = IF x = k THEN v ELSE B!Found(Pages(s), x)
  BY LeafIs DEF Goes

\* The record fits its leaf.
LEMMA StoreGood ==
  ASSUME NEW s, NEW c, NEW e, Safe(s, c, e), c # Idle, NEW k \in Key, NEW v \in Payload,
         c.key = k, c.payload = v, NEW id, id = Leaf(s, k), NEW all, all = Cells(s, k, v),
         NEW n, n = B!Leaf(all, s[id].next, s[id].prev), NEW t, t = Put(s, B!To(id, n))
  PROVE  Good(s, B!To(id, n), c, e) /\ Ends(t, c, e)
  <1>1. /\ id \in B!PageId /\ ~(s[0] <= id)
        /\ s[id].type = "leaf" /\ B!LeafPage(s[id]) /\ B!Records(all)
        /\ DOMAIN all = DOMAIN s[id].cells \union {k}
        /\ \A x \in DOMAIN all : all[x] = IF x = k THEN v ELSE s[id].cells[x]
        /\ \A x \in DOMAIN all : B!Route(Pages(s), x) = id
        /\ \A x \in Key : B!Route(Pages(s), x) = id =>
             B!Record(all, x) = IF x = k THEN v ELSE B!Found(Pages(s), x)
        /\ B!Route(Pages(s), k) = id
    <2>1. Goes(s, k, v, id, all)
      BY LeafIs
    <2> QED
      BY <2>1 DEF Goes
  <1>2. /\ B!LeafPage(n) /\ n.cells = all /\ n.next = s[id].next /\ n.type = "leaf"
    BY <1>1, B!LeafFacts, B!TreeFacts
  <1>3. n.next # B!NoLeaf => n.next \notin {id, B!Root} /\ ~(s[0] <= n.next)
    <2>1. B!Follows(Pages(s), s[0]) /\ Pages(s)[id] = s[id]
      BY <1>1, PageIds DEF Safe
    <2> QED
      BY <1>1, <1>2, <2>1 DEF B!Follows
  <1>4. \A x \in Key : B!Route(Pages(s), x) = id =>
          /\ \A y \in DOMAIN n.cells : B!Route(Pages(s), y) = id
          /\ \/ B!Record(n.cells, x) = B!Found(Pages(s), x)
             \/ x = c.key /\ B!Record(n.cells, x) = c.payload
             \/ B!Record(n.cells, x) = Absent /\ Hides(c, x, B!Found(Pages(s), x))
    BY <1>1, <1>2
  <1>5. /\ \A x \in Key : Wanted(c, e)[x] = IF x = k THEN e[x] \union {v} ELSE e[x]
        /\ \A x \in Key : Promised(c, e)[x] = IF x = k THEN {v} ELSE e[x]
    BY DEF Wanted, Promised
  <1>6. /\ k \in DOMAIN n.cells /\ n.cells[k] = v
        /\ \A x \in DOMAIN s[id].cells :
             x # k => x \in DOMAIN n.cells /\ n.cells[x] = s[id].cells[x]
    BY <1>1, <1>2
  <1>7. Keeps(s, id, n, c, e, Wanted(c, e)) /\ Keeps(s, id, n, c, e, Promised(c, e))
    <2>1. ASSUME NEW more, v \in more[k], \A x \in Key : x # k => more[x] = Wanted(c, e)[x]
          PROVE  Keeps(s, id, n, c, e, more)
      <3> SUFFICES ASSUME NEW x \in Key, Absent \notin more[x]
                   PROVE  \/ B!Route(Pages(s), x) = id /\ x \in DOMAIN n.cells /\ n.cells[x] \in more[x]
                          \/ /\ Absent \notin Wanted(c, e)[x] /\ Wanted(c, e)[x] \subseteq more[x]
                             /\ s[id].type = "leaf" /\ x \in DOMAIN s[id].cells =>
                                  x \in DOMAIN n.cells /\ (n.cells[x] = s[id].cells[x] \/ n.cells[x] \in more[x])
        BY DEF Keeps
      <3>1. CASE x = k
        BY <1>1, <1>6, <2>1, <3>1
      <3>2. CASE x # k
        BY <1>6, <2>1, <3>2
      <3> QED
        BY <3>1, <3>2
    <2>2. v \in Wanted(c, e)[k] /\ v \in Promised(c, e)[k]
      BY <1>5
    <2>3. \A x \in Key : x # k => Promised(c, e)[x] = Wanted(c, e)[x]
      BY <1>5
    <2> QED
      BY <2>1, <2>2, <2>3
  <1>8. B!Threaded(Pages(t), Wanted(c, e)) /\ B!Threaded(Pages(t), Promised(c, e))
    BY <1>1, <1>2, <1>7, LinksStay
  <1>9. /\ Good(s, B!To(id, n), c, e)
        /\ \A x \in Key :
             B!Found(Pages(t), x) = IF B!Route(Pages(s), x) = id THEN B!Record(n.cells, x)
                                    ELSE B!Found(Pages(s), x)
    BY <1>1, <1>2, <1>3, <1>4, <1>8, LeafGood
  <1>10. Ends(t, c, e)
    <2>1. B!Found(Pages(t), k) = v
      BY <1>1, <1>6, <1>9 DEF B!Record
    <2> QED
      BY <1>8, <2>1 DEF Ends
  <1> QED
    BY <1>9, <1>10

LEMMA StorePlan ==
  ASSUME NEW c, NEW e, Safe(store, c, e), c # Idle, NEW k \in Key, NEW v \in Payload,
         c.key = k, c.payload = v
  PROVE  Plan(Tree!StoreWrites(k, v), store, c, e)
  <1> DEFINE id == Leaf(store, k)
             all == Cells(store, k, v)
             n == B!Leaf(all, store[id].next, store[id].prev)
             w == B!To(id, n)
  <1>1. /\ id \in B!PageId /\ B!LeafPage(store[id]) /\ B!Records(all)
    BY LeafFacts
  <1>2. Tree!StoreWrites(k, v) = <<w>>
    <2>1. Tree!LeafOf(k) = id
      BY SafeReads DEF Id, Leaf
    <2>2. [store[id] EXCEPT !.cells = B!WithRecord(store[id].cells, k, v)] = n
      BY <1>1, B!LeafFacts DEF Cells
    <2> QED
      BY <1>1, <2>1, <2>2, PageIds, SamePages, SameCells DEF Tree!StoreWrites, Pages
  <1>3. Good(store, w, c, e) /\ Ends(Put(store, w), c, e)
    <2> HIDE DEF id, all, n
    <2>1. id = Leaf(store, k) /\ all = Cells(store, k, v) /\ n = B!Leaf(all, store[id].next, store[id].prev)
      BY DEF id, all, n
    <2> QED
      BY <2>1, StoreGood
  <1>4. Plan(<<w>>, store, c, e)
    BY <1>3, PlanLast
  <1> QED
    BY <1>2, <1>4

-----------------------------------------------------------------------------
\* The root leaf is split.

\* The root becomes the parent of two leaves that are there.
LEMMA RootGood ==
  ASSUME NEW s, NEW c, NEW e, Safe(s, c, e), c # Idle, s[B!Root].type = "leaf",
         NEW left \in B!PageId \ {B!Root}, NEW right \in B!PageId \ {B!Root, left}, NEW sep \in Key,
         s[left].type = "leaf", s[right].type = "leaf", s[left].next = right, s[right].next = B!NoLeaf,
         \A x \in DOMAIN s[left].cells : x <= sep, \A x \in DOMAIN s[right].cells : sep < x,
         \A x \in Key :
           LET f == IF sep < x THEN B!Record(s[right].cells, x) ELSE B!Record(s[left].cells, x)
           IN  f = B!Found(Pages(s), x) \/ (x = c.key /\ f = c.payload),
         NEW w, w = B!To(B!Root, B!Interior(<<[child |-> left, key |-> sep]>>, right)),
         NEW t, t = Put(s, w)
  PROVE  /\ Good(s, w, c, e)
         /\ \A x \in Key :
              B!Found(Pages(t), x) = IF sep < x THEN B!Record(s[right].cells, x)
                                     ELSE B!Record(s[left].cells, x)
         /\ \A more :
              (\A x \in Key : Absent \notin more[x] => B!Found(Pages(t), x) \in more[x])
                => B!Threaded(Pages(t), more)
  <1> DEFINE node == B!Interior(<<[child |-> left, key |-> sep]>>, right)
             pg == Pages(s)
             pq == Pages(t)
  <1>1. B!Shape(pg, s[0]) /\ B!HoldsOwn(pg) /\ B!Follows(pg, s[0]) /\ IsStore(s) /\ ~(s[0] <= B!Root)
    BY PageIds DEF Safe
  <1>2. pg[B!Root] = s[B!Root] /\ pg[left] = s[left] /\ pg[right] = s[right]
    BY PageIds
  <1>3. IsStore(t) /\ t[0] = s[0] /\ pq = B!Replaced(pg, B!Root, node)
    <2> HIDE DEF node
    <2> QED
      BY <1>1, PutPage, PageIds DEF node
  <1>4. /\ B!Shape(pq, s[0]) /\ B!HoldsOwn(pq) /\ B!Follows(pq, s[0])
        /\ \A x \in Key :
             B!Found(pq, x) = IF sep < x THEN B!Record(pg[right].cells, x)
                              ELSE B!Record(pg[left].cells, x)
        /\ \A x \in Key : B!Route(pq, x) = IF sep < x THEN right ELSE left
    <2>1. /\ pg[B!Root].type = "leaf" /\ pg[left].type = "leaf" /\ pg[right].type = "leaf"
          /\ \A x \in DOMAIN pg[left].cells : x <= sep
          /\ \A x \in DOMAIN pg[right].cells : sep < x
      BY <1>2
    <2> HIDE DEF pg, pq
    <2> QED
      BY <1>1, <1>3, <2>1, B!RootPut
  <1>5. \A x \in Key :
          B!Found(pq, x) = IF sep < x THEN B!Record(s[right].cells, x) ELSE B!Record(s[left].cells, x)
    BY <1>2, <1>4
  <1>6. \A x \in Key : B!Found(pq, x) = B!Found(pg, x) \/ (x = c.key /\ B!Found(pq, x) = c.payload)
    BY <1>5
  <1>7. ASSUME NEW more, \A x \in Key : Absent \notin more[x] => B!Found(pq, x) \in more[x]
        PROVE  B!Threaded(pq, more)
    <2>1. /\ pq[left] = s[left] /\ pq[right] = s[right] /\ pq[B!Root] = node
      <3> HIDE DEF node
      <3> QED
        BY <1>1, PutPage, PageIds DEF node
    <2>2. node.type = "interior"
      BY B!TreeFacts
    <2>3. /\ \A x \in Key : B!Route(pq, x) \in {left, right}
          /\ B!Route(pq, B!LeastKey) = left
      <3> DEFINE least == B!LeastKey
      <3>1. least \in Key /\ least <= sep
        BY B!LeastKeyFacts
      <3> HIDE DEF least, node, pg, pq
      <3>2. ~(sep < least)
        <4>1. \A x, y \in Key : x <= y => ~(y < x)
          BY ONLY KeyAssumption
        <4> QED
          BY ONLY <3>1, <4>1, sep \in Key
      <3>3. B!Route(pq, least) = left
        BY <1>4, <3>1, <3>2
      <3> QED
        BY <1>4, <3>3 DEF least
    <2> HIDE DEF node, pg, pq
    <2>4. B!LeafAt(pq, left) /\ B!LeafAt(pq, right) /\ ~B!LeafAt(pq, B!Root)
      BY <2>1, <2>2 DEF B!LeafAt
    <2>5. pq[left].next = right /\ pq[right].next = B!NoLeaf
      BY <2>1
    <2>6. left \in B!PageId /\ right \in B!PageId /\ left # right
      OBVIOUS
    <2> QED
      BY <1>7, <2>3, <2>4, <2>5, <2>6, B!ThreadOfTwo
  <1>8. B!Threaded(pq, Wanted(c, e))
    <2>1. \A x \in Key : Absent \notin Wanted(c, e)[x] => B!Found(pg, x) \in Wanted(c, e)[x]
      BY RootIsChain
    <2>2. \A x \in Key : x = c.key => c.payload \in Wanted(c, e)[x]
      BY DEF Wanted
    <2>3. \A x \in Key : Absent \notin Wanted(c, e)[x] => B!Found(pq, x) \in Wanted(c, e)[x]
      BY <1>6, <2>1, <2>2
    <2> QED
      BY <1>7, <2>3
  <1>9. Safe(t, c, e)
    BY <1>3, <1>4, <1>6, <1>8 DEF Safe, Vouched
  <1>10. Changes(s, t, c)
    BY <1>6 DEF Changes, MayChange, Uncovers
  <1>11. w.page \in 0..MaxPageId
    BY PageIds
  <1> QED
    BY <1>5, <1>7, <1>9, <1>10, <1>11 DEF Good

\* The halves have all of the cells.
Halved(all, low, high) ==
  \A x \in DOMAIN all : \/ x \in DOMAIN low.cells /\ low.cells[x] = all[x]
                        \/ x \in DOMAIN high.cells /\ high.cells[x] = all[x]

\* The halves of the cells of a leaf, and the key between them.
LEMMA Split ==
  ASSUME NEW all, B!Records(all), B!LeftHasKey(all),
         NEW n \in B!PageId \union {B!NoLeaf}, NEW b \in B!PageId \union {B!NoLeaf},
         NEW m \in B!PageId \union {B!NoLeaf}, NEW d \in B!PageId \union {B!NoLeaf}
  PROVE  LET low == B!Leaf(B!Low(all), n, b)
             high == B!Leaf(B!High(all), m, d)
             sep == B!Separator(all)
         IN  /\ B!LeafPage(low) /\ low.type = "leaf" /\ low.next = n
             /\ B!LeafPage(high) /\ high.type = "leaf" /\ high.next = m
             /\ sep \in Key /\ sep \in DOMAIN all
             /\ DOMAIN low.cells \subseteq DOMAIN all /\ DOMAIN high.cells \subseteq DOMAIN all
             /\ \A x \in DOMAIN low.cells : x <= sep
             /\ \A x \in DOMAIN high.cells : sep < x
             /\ \A x \in Key :
                  /\ B!Record(low.cells, x) = IF sep < x THEN Absent ELSE B!Record(all, x)
                  /\ sep < x => B!Record(high.cells, x) = B!Record(all, x)
             /\ Halved(all, low, high)
  <1> DEFINE low == B!Leaf(B!Low(all), n, b)
             high == B!Leaf(B!High(all), m, d)
             sep == B!Separator(all)
  <1>1. /\ sep \in DOMAIN all /\ sep \in Key
        /\ B!Records(B!Low(all)) /\ B!Records(B!High(all))
        /\ DOMAIN B!Low(all) = {x \in DOMAIN all : x <= sep}
        /\ DOMAIN B!High(all) = {x \in DOMAIN all : sep < x}
        /\ \A x \in DOMAIN B!Low(all) : B!Low(all)[x] = all[x]
        /\ \A x \in DOMAIN B!High(all) : B!High(all)[x] = all[x]
    BY B!SplitFacts
  <1>2. /\ low.cells = B!Low(all) /\ low.next = n /\ low.type = "leaf" /\ B!LeafPage(low)
        /\ high.cells = B!High(all) /\ high.next = m /\ high.type = "leaf" /\ B!LeafPage(high)
    BY <1>1, B!LeafFacts, B!TreeFacts
  <1> HIDE DEF low, high, sep
  <1>3. \A x \in Key : ~(sep < x) <=> x <= sep
    <2>1. sep \in Int /\ \A x \in Key : x \in Int
      BY <1>1
    <2> QED
      BY <2>1
  <1>4. \A x \in Key :
          /\ B!Record(low.cells, x) = IF sep < x THEN Absent ELSE B!Record(all, x)
          /\ sep < x => B!Record(high.cells, x) = B!Record(all, x)
    BY <1>1, <1>2, <1>3 DEF B!Record
  <1>5. /\ DOMAIN low.cells \subseteq DOMAIN all /\ DOMAIN high.cells \subseteq DOMAIN all
        /\ \A x \in DOMAIN low.cells : x <= sep
        /\ \A x \in DOMAIN high.cells : sep < x
    BY <1>1, <1>2
  <1>6. Halved(all, low, high)
    BY <1>1, <1>2, <1>3 DEF Halved, B!Records
  <1> QED
    BY <1>1, <1>2, <1>4, <1>5, <1>6 DEF low, high, sep

\* Where both pages are allocated, the halves of the root and then their parent
\* are written.
LEMMA RootPlan ==
  ASSUME NEW s, NEW c, NEW e, Safe(s, c, e), c # Idle, s[B!Root].type = "leaf",
         NEW k \in Key, NEW v \in Payload, c.key = k, c.payload = v, B!LeftHasKey(Cells(s, k, v)),
         NEW left \in B!PageId \ {B!Root}, NEW right \in B!PageId \ {B!Root, left},
         ~(s[0] <= left), ~(s[0] <= right), s[left] = B!Unwritten, s[right] = B!Unwritten
  PROVE  LET all == Cells(s, k, v)
         IN  Plan(<<B!To(left, B!Leaf(B!Low(all), right, B!NoLeaf)),
                    B!To(right, B!Leaf(B!High(all), B!NoLeaf, left)),
                    B!To(B!Root, B!Interior(<<[child |-> left, key |-> B!Separator(all)]>>, right))>>,
                  s, c, e)
  <1> DEFINE all == Cells(s, k, v)
             sep == B!Separator(all)
             low == B!Leaf(B!Low(all), right, B!NoLeaf)
             high == B!Leaf(B!High(all), B!NoLeaf, left)
             wl == B!To(left, low)
             wr == B!To(right, high)
             wn == B!To(B!Root, B!Interior(<<[child |-> left, key |-> sep]>>, right))
             s1 == Put(s, wl)
             s2 == Put(s1, wr)
             s3 == Put(s2, wn)
  <1>1. /\ B!Records(all)
        /\ \A x \in Key : B!Route(Pages(s), x) = B!Root
        /\ \A x \in Key : B!Record(all, x) = IF x = k THEN v ELSE B!Found(Pages(s), x)
    <2>1. Pages(s)[B!Root].type # "interior"
      BY PageIds
    <2>2. \A x \in Key : B!Route(Pages(s), x) = B!Root
      BY <2>1 DEF B!Route
    <2>3. Leaf(s, k) = B!Root
      BY <2>2 DEF Leaf
    <2> DEFINE id == Leaf(s, k)
    <2>4. id = Leaf(s, k) /\ all = Cells(s, k, v)
      OBVIOUS
    <2> HIDE DEF all, id
    <2>5. /\ B!Records(all)
          /\ \A x \in Key : B!Route(Pages(s), x) = id =>
               B!Record(all, x) = IF x = k THEN v ELSE B!Found(Pages(s), x)
      <3>1. Goes(s, k, v, id, all)
        BY <2>4, LeafIs
      <3> QED
        BY <3>1 DEF Goes
    <2> QED
      BY <2>2, <2>3, <2>4, <2>5
  <1>2. /\ B!LeafPage(low) /\ low.type = "leaf" /\ low.next = right
        /\ B!LeafPage(high) /\ high.type = "leaf" /\ high.next = B!NoLeaf
        /\ sep \in Key
        /\ \A x \in DOMAIN low.cells : x <= sep
        /\ \A x \in DOMAIN high.cells : sep < x
        /\ \A x \in Key :
             /\ B!Record(low.cells, x) = IF sep < x THEN Absent ELSE B!Record(all, x)
             /\ sep < x => B!Record(high.cells, x) = B!Record(all, x)
    <2>1. B!NoLeaf \in B!PageId \union {B!NoLeaf} /\ B!LeftHasKey(all)
      OBVIOUS
    <2> HIDE DEF all
    <2> QED
      BY <1>1, <2>1, Split
  <1>3. IsStore(s) /\ B!Unwritten.type = "free"
    BY B!TreeFacts DEF Safe
  <1> HIDE DEF all, low, high, sep
  <1>4. /\ Good(s, wl, c, e) /\ Safe(s1, c, e) /\ s1[0] = s[0] /\ IsStore(s1)
        /\ s1[left] = low /\ s1[right] = B!Unwritten /\ s1[B!Root] = s[B!Root]
        /\ \A x \in Key : B!Route(Pages(s1), x) = B!Root
        /\ \A x \in Key : B!Found(Pages(s1), x) = B!Found(Pages(s), x)
    <2>1. s1[0] = s[0] /\ s1[left] = low /\ s1[right] = s[right] /\ s1[B!Root] = s[B!Root] /\ IsStore(s1)
      BY <1>3, PutPage, PageIds
    <2>2. /\ Good(s, B!To(left, low), c, e) /\ Safe(s1, c, e)
          /\ \A x \in Key : B!Route(Pages(s1), x) = B!Route(Pages(s), x)
          /\ \A x \in Key :
               B!Found(Pages(s1), x) = IF B!Route(Pages(s), x) = left THEN B!Record(low.cells, x)
                                       ELSE B!Found(Pages(s), x)
      <3>1. s[left].type # "interior" /\ low.next \notin {left, B!Root} /\ ~(s[0] <= low.next)
        BY <1>2, <1>3
      <3>2. B!Threaded(Pages(s1), Wanted(c, e))
        BY <2>1, RootIsChain
      <3> HIDE DEF s1
      <3>3. left \in B!PageId /\ s1 = Put(s, B!To(left, low))
        BY DEF s1
      <3>4. B!LeafPage(low) \/ (B!Blank(low) /\ s[left].type # "leaf")
        BY <1>2
      <3>5. (low.type = "leaf" /\ low.next # B!NoLeaf) =>
              low.next \notin {left, B!Root} /\ ~(s[0] <= low.next)
        BY <3>1
      <3>6. \A x \in Key : B!Route(Pages(s), x) # left
        BY <1>1
      <3> HIDE DEF wl
      <3> QED
        BY <3>1, <3>2, <3>3, <3>4, <3>5, <3>6, LeafGood
    <2> HIDE DEF s1
    <2> QED
      BY <1>1, <2>1, <2>2
  <1> HIDE DEF s1
  <1>5. /\ Good(s1, wr, c, e) /\ Safe(s2, c, e)
        /\ s2[left] = low /\ s2[right] = high /\ s2[B!Root] = s[B!Root]
        /\ \A x \in Key : B!Found(Pages(s2), x) = B!Found(Pages(s), x)
    <2>1. s2[left] = low /\ s2[right] = high /\ s2[B!Root] = s[B!Root]
      BY <1>4, PutPage, PageIds
    <2>2. /\ Good(s1, B!To(right, high), c, e) /\ Safe(s2, c, e)
          /\ \A x \in Key :
               B!Found(Pages(s2), x) = IF B!Route(Pages(s1), x) = right THEN B!Record(high.cells, x)
                                       ELSE B!Found(Pages(s1), x)
      <3>1. s1[right].type # "interior" /\ ~(s1[0] <= right)
        BY <1>3, <1>4
      <3>2. B!Threaded(Pages(s2), Wanted(c, e))
        BY <1>4, <2>1, RootIsChain
      <3> HIDE DEF s2
      <3>3. right \in B!PageId /\ s2 = Put(s1, B!To(right, high))
        BY DEF s2
      <3>4. B!LeafPage(high) \/ (B!Blank(high) /\ s1[right].type # "leaf")
        BY <1>2
      <3>5. (high.type = "leaf" /\ high.next # B!NoLeaf) =>
              high.next \notin {right, B!Root} /\ ~(s1[0] <= high.next)
        BY <1>2
      <3>6. Safe(s1, c, e) /\ \A x \in Key : B!Route(Pages(s1), x) # right
        BY <1>4
      <3> HIDE DEF wr
      <3> QED
        BY <3>1, <3>2, <3>3, <3>4, <3>5, <3>6, LeafGood
    <2> HIDE DEF s2
    <2> QED
      BY <1>4, <2>1, <2>2
  <1> HIDE DEF s2
  <1>6. /\ Good(s2, wn, c, e)
        /\ \A x \in Key :
             B!Found(Pages(s3), x) = IF sep < x THEN B!Record(high.cells, x) ELSE B!Record(low.cells, x)
        /\ \A more :
             (\A x \in Key : Absent \notin more[x] => B!Found(Pages(s3), x) \in more[x])
               => B!Threaded(Pages(s3), more)
    <2>1. \A x \in Key :
            LET f == IF sep < x THEN B!Record(s2[right].cells, x) ELSE B!Record(s2[left].cells, x)
            IN  f = B!Found(Pages(s2), x) \/ (x = c.key /\ f = c.payload)
      BY <1>1, <1>2, <1>5
    <2>2. /\ Good(s2, wn, c, e)
          /\ \A x \in Key :
               B!Found(Pages(s3), x) = IF sep < x THEN B!Record(s2[right].cells, x)
                                       ELSE B!Record(s2[left].cells, x)
          /\ \A more :
               (\A x \in Key : Absent \notin more[x] => B!Found(Pages(s3), x) \in more[x])
                 => B!Threaded(Pages(s3), more)
      <3>1. /\ s2[B!Root].type = "leaf" /\ s2[left].type = "leaf" /\ s2[right].type = "leaf"
            /\ s2[left].next = right /\ s2[right].next = B!NoLeaf
            /\ \A x \in DOMAIN s2[left].cells : x <= sep
            /\ \A x \in DOMAIN s2[right].cells : sep < x
        BY <1>2, <1>5
      <3> HIDE DEF s3
      <3> QED
        BY <1>2, <1>5, <2>1, <3>1, RootGood DEF s3
    <2> HIDE DEF s3, wn
    <2> QED
      BY <1>5, <2>2
  <1>7. Ends(s3, c, e)
    <2>1. \A x \in Key : B!Found(Pages(s3), x) = IF x = k THEN v ELSE B!Found(Pages(s), x)
      BY <1>1, <1>2, <1>6
    <2>2. \A x \in Key : Absent \notin Wanted(c, e)[x] => B!Found(Pages(s), x) \in Wanted(c, e)[x]
      BY RootIsChain
    <2>3. /\ v \in Promised(c, e)[k]
          /\ \A x \in Key : x # k => Promised(c, e)[x] = Wanted(c, e)[x]
      BY DEF Promised, Wanted
    <2>4. \A x \in Key : Absent \notin Promised(c, e)[x] => B!Found(Pages(s3), x) \in Promised(c, e)[x]
      BY <2>1, <2>2, <2>3
    <2>5. B!Threaded(Pages(s3), Promised(c, e))
      BY <1>6, <2>4
    <2> QED
      BY <2>1, <2>5 DEF Ends
  <1> HIDE DEF s3
  <1>8. Plan(<<wn>>, s2, c, e)
    BY <1>5, <1>6, <1>7, PlanLast DEF s3
  <1>9. Plan(<<wr>> \o <<wn>>, s1, c, e)
    BY <1>4, <1>5, <1>8, PlanCons DEF s2
  <1>10. Plan(<<wl>> \o <<wr, wn>>, s, c, e)
    <2>1. <<wr>> \o <<wn>> = <<wr, wn>>
      BY Pairs
    <2> QED
      BY <1>4, <1>9, <2>1, PlanCons DEF s1
  <1>11. Plan(<<wl, wr, wn>>, s, c, e)
    <2>1. <<wl>> \o <<wr, wn>> = <<wl, wr, wn>>
      BY Triples
    <2> QED
      BY <1>10, <2>1
  <1> QED
    BY <1>11 DEF all, low, high, sep

-----------------------------------------------------------------------------
\* Another leaf is split.

\* The back link of the next sibling, which a crash may have kept from being
\* written.
LEMMA RelinkGood ==
  ASSUME NEW s, NEW c, NEW e, Safe(s, c, e), c # Idle,
         NEW p \in B!PageId \ {B!Root}, ~(s[0] <= p), NEW new \in B!PageId,
         NEW w, w = B!To(p, [s[p] EXCEPT !.prev = new]),
         NEW t, t = Put(s, w)
  PROVE  /\ Good(s, w, c, e) /\ Safe(t, c, e) /\ t[0] = s[0]
         /\ \A q \in B!PageId \ {p} : t[q] = s[q]
         /\ \A x \in Key : B!Route(Pages(t), x) = B!Route(Pages(s), x)
         /\ \A x \in Key : B!Found(Pages(t), x) = B!Found(Pages(s), x)
         /\ t[p].type = s[p].type /\ t[p].next = s[p].next
  <1> DEFINE n == [s[p] EXCEPT !.prev = new]
             pg == Pages(s)
  <1>1. B!Shape(pg, s[0]) /\ B!HoldsOwn(pg) /\ B!Follows(pg, s[0]) /\ IsStore(s) /\ pg[p] = s[p]
    BY PageIds DEF Safe
  <1>2. B!Blank(s[p]) \/ B!LeafPage(s[p])
    BY <1>1 DEF B!Shape
  <1>3. /\ \A x : B!LeafPage(x) => x.type = "leaf"
        /\ \A x : B!Blank(x) => x.type = "free"
    BY B!TreeFacts DEF B!LeafPage, B!Blank
  <1>4. CASE B!LeafPage(s[p])
    <2>1. n = B!Leaf(s[p].cells, s[p].next, new) /\ B!Records(s[p].cells)
          /\ s[p].next \in B!PageId \union {B!NoLeaf}
      BY <1>4, B!LeafFacts
    <2>2. B!LeafPage(n) /\ n.cells = s[p].cells /\ n.next = s[p].next
      BY <2>1, B!LeafFacts
    <2>3. n.next # B!NoLeaf => n.next \notin {p, B!Root} /\ ~(s[0] <= n.next)
      BY <1>1, <1>3, <1>4, <2>2 DEF B!Follows
    <2>4. \A x \in Key : B!Route(Pages(s), x) = p =>
             /\ \A y \in DOMAIN n.cells : B!Route(Pages(s), y) = p
             /\ B!Record(n.cells, x) = B!Found(Pages(s), x)
      BY <1>1, <2>1, <2>2, B!FoundRecord DEF B!HoldsOwn, B!Records
    <2>5. /\ s[p].type # "interior" /\ w = B!To(p, n) /\ t = Put(s, B!To(p, n))
          /\ Safe(s, c, e) /\ c # Idle /\ p \in B!PageId /\ ~(s[0] <= p)
      BY <1>3, <1>4
    <2> HIDE DEF n, pg
    <2>8. \A x \in Key : B!Route(Pages(s), x) = p =>
             /\ \A y \in DOMAIN n.cells : B!Route(Pages(s), y) = p
             /\ \/ B!Record(n.cells, x) = B!Found(Pages(s), x)
                \/ x = c.key /\ B!Record(n.cells, x) = c.payload
                \/ B!Record(n.cells, x) = Absent /\ Hides(c, x, B!Found(Pages(s), x))
      BY <2>4
    <2>9. n.type = "leaf" /\ s[p].type = "leaf"
      BY <1>3, <1>4, <2>2
    <2>10. Keeps(s, p, n, c, e, Wanted(c, e))
      BY <2>2 DEF Keeps
    <2>11. B!Threaded(Pages(t), Wanted(c, e))
      BY <2>2, <2>5, <2>9, <2>10, LinksStay
    <2>6. /\ Good(s, B!To(p, n), c, e) /\ Safe(t, c, e)
          /\ \A x \in Key : B!Route(Pages(t), x) = B!Route(Pages(s), x)
          /\ \A x \in Key :
               B!Found(Pages(t), x) = IF B!Route(Pages(s), x) = p THEN B!Record(n.cells, x)
                                      ELSE B!Found(Pages(s), x)
      BY ONLY <2>2, <2>3, <2>5, <2>8, <2>11, LeafGood
    <2>7. t[0] = s[0] /\ t[p] = n /\ \A q \in B!PageId \ {p} : t[q] = s[q]
      BY <1>1, <2>5, PutPage
    <2> QED
      BY <2>2, <2>4, <2>5, <2>6, <2>7, <2>9
  <1>5. CASE B!Blank(s[p])
    <2>1. B!Blank(n)
      <3>1. s[p] = [type |-> "free", cells |-> <<>>, next |-> B!NoLeaf, prev |-> s[p].prev]
        BY <1>5 DEF B!Blank
      <3> DEFINE b == s[p].prev
      <3> HIDE DEF b
      <3>2. n = [[type |-> "free", cells |-> <<>>, next |-> B!NoLeaf, prev |-> b] EXCEPT !.prev = new]
        BY <3>1 DEF b
      <3>3. n = [type |-> "free", cells |-> <<>>, next |-> B!NoLeaf, prev |-> new]
        BY <3>2
      <3> QED
        BY <3>3 DEF B!Blank
    <2>2. /\ s[p].type = "free" /\ n.type = "free"
          /\ s[p].type # "leaf" /\ s[p].type # "interior"
          /\ s[p].next = B!NoLeaf /\ n.next = B!NoLeaf
          /\ w = B!To(p, n) /\ t = Put(s, B!To(p, n))
          /\ Safe(s, c, e) /\ c # Idle /\ p \in B!PageId /\ ~(s[0] <= p)
      BY <1>3, <1>5, <2>1 DEF B!Blank
    <2>3. \A x \in Key : B!Route(Pages(s), x) # p
      <3>1. \A x \in Key : pg[B!Route(pg, x)].type = "leaf"
        BY <1>1, B!RouteFacts
      <3> QED
        BY <1>1, <2>2, <3>1
    <2> HIDE DEF n, pg
    <2>6. /\ n.type = "leaf" /\ n.next # B!NoLeaf => n.next \notin {p, B!Root} /\ ~(s[0] <= n.next)
          /\ \A x \in Key : B!Route(Pages(s), x) = p =>
               /\ \A y \in DOMAIN n.cells : B!Route(Pages(s), y) = p
               /\ \/ B!Record(n.cells, x) = B!Found(Pages(s), x)
                  \/ x = c.key /\ B!Record(n.cells, x) = c.payload
                  \/ B!Record(n.cells, x) = Absent /\ Hides(c, x, B!Found(Pages(s), x))
      BY <2>2, <2>3
    <2>7. Keeps(s, p, n, c, e, Wanted(c, e))
      BY <2>2 DEF Keeps
    <2>8. B!Threaded(Pages(t), Wanted(c, e))
      BY <2>2, <2>7, LinksStay
    <2>4. /\ Good(s, B!To(p, n), c, e) /\ Safe(t, c, e)
          /\ \A x \in Key : B!Route(Pages(t), x) = B!Route(Pages(s), x)
          /\ \A x \in Key :
               B!Found(Pages(t), x) = IF B!Route(Pages(s), x) = p THEN B!Record(n.cells, x)
                                      ELSE B!Found(Pages(s), x)
      BY ONLY <2>1, <2>2, <2>6, <2>8, LeafGood
    <2>5. t[0] = s[0] /\ t[p] = n /\ \A q \in B!PageId \ {p} : t[q] = s[q]
      BY <1>1, <2>2, PutPage
    <2> QED
      BY <2>2, <2>3, <2>4, <2>5
  <1> QED
    BY <1>2, <1>4, <1>5

\* The record of x is not found now, and next is nothing or what the split moved.
Brings(c, x, now, next) == now = Absent /\ (next = Absent \/ Restores(c, x, now, next))

\* The parent gives the upper half its route.
LEMMA ParentGood ==
  ASSUME NEW s, NEW c, NEW e, Safe(s, c, e), c # Idle, s[B!Root].type = "interior",
         NEW l \in B!PageId \ {B!Root}, NEW new \in B!PageId \ {B!Root, l}, NEW sep \in Key,
         B!Route(Pages(s), sep) = l, \A x \in Key : B!Route(Pages(s), x) # new,
         new # s[B!Root].right, \A i \in 1..Len(s[B!Root].cells) : s[B!Root].cells[i].child # new,
         s[l].type = "leaf", s[new].type = "leaf", s[l].next = new,
         \A x \in DOMAIN s[l].cells : x <= sep,
         \A x \in DOMAIN s[new].cells : sep < x /\ B!Route(Pages(s), x) = l,
         \A x \in Key : sep < x /\ B!Route(Pages(s), x) = l =>
           /\ Vouched(x, B!Record(s[new].cells, x), c, e)
           /\ Brings(c, x, B!Found(Pages(s), x), B!Record(s[new].cells, x)),
         NEW w, w = B!To(B!Root, B!WithChild(s[B!Root], l, sep, new)),
         NEW t, t = Put(s, w)
  PROVE  /\ Good(s, w, c, e)
         /\ \A x \in Key :
              B!Found(Pages(t), x) = IF s[B!Root].right = l /\ sep < x /\ B!Route(Pages(s), x) = l
                                       THEN B!Record(s[new].cells, x)
                                     ELSE B!Found(Pages(s), x)
         /\ \A want : B!Threaded(Pages(s), want) => B!Threaded(Pages(t), want)
  <1> DEFINE node == B!WithChild(s[B!Root], l, sep, new)
             pg == Pages(s)
             pq == Pages(t)
  <1>1. B!Shape(pg, s[0]) /\ B!HoldsOwn(pg) /\ B!Follows(pg, s[0]) /\ IsStore(s) /\ ~(s[0] <= B!Root)
    BY PageIds DEF Safe
  <1>2. pg[B!Root] = s[B!Root] /\ pg[l] = s[l] /\ pg[new] = s[new]
    BY PageIds
  <1>3. IsStore(t) /\ t[0] = s[0] /\ pq = B!Replaced(pg, B!Root, node)
    <2> HIDE DEF node
    <2> QED
      BY <1>1, PutPage, PageIds DEF node
  <1>4. /\ B!Shape(pq, s[0]) /\ B!HoldsOwn(pq) /\ B!Follows(pq, s[0])
        /\ \A x \in Key :
             B!Found(pq, x) = IF pg[B!Root].right = l /\ sep < x /\ B!Route(pg, x) = l
                                THEN B!Record(pg[new].cells, x) ELSE B!Found(pg, x)
        /\ \A x \in Key :
             B!Route(pq, x) = IF pg[B!Root].right = l /\ sep < x /\ B!Route(pg, x) = l
                                THEN new ELSE B!Route(pg, x)
    <2>1. /\ pg[B!Root].type = "interior" /\ pg[l].type = "leaf" /\ pg[new].type = "leaf"
          /\ new # pg[B!Root].right
          /\ \A i \in 1..Len(pg[B!Root].cells) : pg[B!Root].cells[i].child # new
          /\ \A x \in DOMAIN pg[l].cells : x <= sep
          /\ \A x \in DOMAIN pg[new].cells : sep < x /\ B!Route(pg, x) = l
          /\ B!Route(pg, sep) = l /\ \A x \in Key : B!Route(pg, x) # new
          /\ pq = B!Replaced(pg, B!Root, B!WithChild(pg[B!Root], l, sep, new))
      BY <1>2, <1>3
    <2> DEFINE count == s[0]
    <2>2. /\ B!Shape(pg, count) /\ B!HoldsOwn(pg) /\ B!Follows(pg, count) /\ ~(count <= B!Root)
          /\ l \in B!PageId \ {B!Root} /\ new \in B!PageId \ {B!Root, l} /\ sep \in Key
      BY <1>1
    <2> HIDE DEF pg, pq, count
    <2>3. /\ B!Shape(pq, count) /\ B!HoldsOwn(pq) /\ B!Follows(pq, count)
          /\ \A x \in Key :
               B!Found(pq, x) = IF pg[B!Root].right = l /\ sep < x /\ B!Route(pg, x) = l
                                  THEN B!Record(pg[new].cells, x) ELSE B!Found(pg, x)
          /\ \A x \in Key :
               B!Route(pq, x) = IF pg[B!Root].right = l /\ sep < x /\ B!Route(pg, x) = l
                                  THEN new ELSE B!Route(pg, x)
      BY ONLY <2>1, <2>2, B!ParentPut, PagesBound, KeyAssumption, LeastKeyBound,
              LengthAssumption, SpaceAssumption, AbsentAssumption
    <2> QED
      BY <2>3 DEF count
  <1>5. \A x \in Key :
          B!Found(pq, x) = IF s[B!Root].right = l /\ sep < x /\ B!Route(pg, x) = l
                             THEN B!Record(s[new].cells, x) ELSE B!Found(pg, x)
    BY <1>2, <1>4
  <1>6. \A x \in Key : \/ B!Found(pq, x) = B!Found(pg, x)
                       \/ /\ Vouched(x, B!Found(pq, x), c, e)
                          /\ Brings(c, x, B!Found(pg, x), B!Found(pq, x))
    BY <1>5
  <1>7. ASSUME NEW want, B!Threaded(pg, want) PROVE B!Threaded(pq, want)
    <2>1. pq[B!Root] = node /\ \A p \in B!PageId \ {B!Root} : pq[p] = pg[p]
      <3> HIDE DEF node
      <3> QED
        BY <1>1, PutPage, PageIds DEF node
    <2>2. node.type = "interior"
      BY B!TreeFacts DEF B!WithChild
    <2>3. B!Links(pg)
      BY <1>1, B!ShapeLinks
    <2> DEFINE least == B!LeastKey
               moved == pg[B!Root].right = l
    <2>4. least \in Key /\ least <= sep
      BY B!LeastKeyFacts
    <2>5. \A x, y \in Key : x <= y => ~(y < x)
      BY ONLY KeyAssumption
    <2>6. \A x \in Key : B!Route(pq, x) = IF moved /\ sep < x /\ B!Route(pg, x) = l
                                             THEN new ELSE B!Route(pg, x)
      BY <1>4
    <2> HIDE DEF least, moved, node, pg, pq
    <2>7. B!Route(pq, least) = B!Route(pg, least)
      BY ONLY <2>4, <2>5, <2>6, sep \in Key
    <2>8. B!LeafAt(pg, l) /\ B!LeafAt(pg, new) /\ ~B!LeafAt(pg, B!Root) /\ ~B!LeafAt(pq, B!Root)
      BY <1>2, <2>1, <2>2 DEF B!LeafAt
    <2>9. /\ B!Route(pg, sep) = l /\ pg[l].next = new /\ l \in B!PageId /\ new \in B!PageId
          /\ \A x \in Key : B!Route(pq, x) = B!Route(pg, x) \/ B!Route(pq, x) = new
      BY <1>2, <2>6 DEF pg
    <2> QED
      BY <1>7, <2>1, <2>3, <2>7, <2>8, <2>9, B!ThreadRoute DEF least
  <1>8. B!Threaded(pq, Wanted(c, e))
    BY <1>7, SafeThread
  <1>9. Safe(t, c, e)
    BY <1>3, <1>4, <1>6, <1>8 DEF Safe
  <1>10. Changes(s, t, c)
    BY <1>6 DEF Changes, Brings, MayChange
  <1>11. w.page \in 0..MaxPageId
    BY PageIds
  <1> QED
    BY <1>5, <1>7, <1>9, <1>10, <1>11 DEF Good

\* No leaf leads to the page.
Unlinked(s, new) == \A p \in B!PageId : s[p].type = "leaf" => s[p].next # new

\* The lower half alone leaves a chain that ends at a page that is not there.
LEMMA LowerThread ==
  ASSUME NEW s, NEW c, NEW e, Safe(s, c, e), s[B!Root].type # "leaf",
         NEW k \in Key, NEW id, id = Leaf(s, k), NEW new \in B!PageId \ {id}, s[new].type = "free",
         NEW low, low.type = "leaf", low.next = new, NEW t, t = Put(s, B!To(id, low))
  PROVE  B!Threaded(Pages(t), Wanted(c, e))
  <1> DEFINE pg == Pages(s)
             pq == Pages(t)
             want == Wanted(c, e)
  <1>1. /\ B!Threaded(pg, want) /\ B!Links(pg) /\ IsStore(s)
        /\ id \in B!PageId /\ s[id].type = "leaf" /\ id = B!Route(pg, k)
    BY SafeThread DEF Leaf
  <1>2. /\ pg[id] = s[id] /\ pg[new] = s[new] /\ pg[B!Root] = s[B!Root]
        /\ pq[id] = low /\ \A q \in B!PageId \ {id} : pq[q] = pg[q]
    BY <1>1, PutPage, PageIds
  <1> HIDE DEF pg, pq, want
  <1>3. \A x \in Key : B!Route(pq, x) = B!Route(pg, x)
    <2>1. /\ id \in B!PageId /\ pg[id].type # "interior" /\ pq[id].type # "interior"
          /\ \A q \in B!PageId \ {id} : pq[q] = pg[q]
      BY <1>1, <1>2
    <2> QED
      BY ONLY <2>1, RouteSame
  <1>4. B!Route(pq, B!LeastKey) = B!Route(pg, B!LeastKey)
    BY <1>3, B!LeastKeyFacts
  <1>5. /\ ~B!LeafAt(pg, B!Root) /\ B!LeafAt(pg, id) /\ ~B!LeafAt(pg, new)
        /\ \A p \in B!PageId : B!LeafAt(pq, p) <=> B!LeafAt(pg, p)
        /\ pq[id].next = new
        /\ \A p \in B!PageId : B!LeafAt(pg, p) /\ p # id => pq[p].next = pg[p].next
    BY <1>1, <1>2 DEF B!LeafAt
  <1>6. B!Threaded(pq, want)
    BY <1>1, <1>4, <1>5, B!ThreadCut
  <1> QED
    BY <1>6 DEF pq, want

\* Both halves keep the records, and have the new one.
LEMMA UpperThread ==
  ASSUME NEW s, NEW c, NEW e, Safe(s, c, e), s[B!Root].type # "leaf",
         NEW k \in Key, NEW v \in Payload, NEW id, id = Leaf(s, k), NEW all, all = Cells(s, k, v),
         NEW new \in B!PageId \ {B!Root, id}, s[new].type = "free", Unlinked(s, new),
         NEW low, low.type = "leaf", low.next = new, NEW high, high.type = "leaf", high.next = s[id].next,
         Halved(all, low, high), NEW more, v \in more[k],
         \A x \in Key : x # k => more[x] = Wanted(c, e)[x],
         NEW t, t = Put(Put(s, B!To(id, low)), B!To(new, high))
  PROVE  B!Threaded(Pages(t), more)
  <1> DEFINE s1 == Put(s, B!To(id, low))
             pg == Pages(s)
             pq == Pages(t)
             want == Wanted(c, e)
  <1>1. /\ B!Threaded(pg, want) /\ B!Links(pg) /\ IsStore(s)
    BY SafeThread
  <1>2. /\ id \in B!PageId /\ s[id].type = "leaf" /\ id = B!Route(pg, k)
        /\ DOMAIN all = DOMAIN s[id].cells \union {k}
        /\ \A x \in DOMAIN all : all[x] = IF x = k THEN v ELSE s[id].cells[x]
    <2>1. Goes(s, k, v, id, all)
      BY LeafIs
    <2> QED
      BY <2>1 DEF Goes
  <1>3. /\ IsStore(s1) /\ s1[id] = low /\ \A q \in B!PageId \ {id} : s1[q] = s[q]
    BY <1>1, <1>2, PutPage
  <1>4. t = Put(s1, B!To(new, high))
    OBVIOUS
  <1> HIDE DEF s1
  <1>5. t[new] = high /\ \A q \in B!PageId \ {new} : t[q] = s1[q]
    BY <1>3, <1>4, PutPage
  <1>6. /\ \A q \in B!PageId : pg[q] = s[q] /\ pq[q] = t[q]
        /\ B!Root \in B!PageId
    BY PageIds
  <1> HIDE DEF pg, pq, want
  <1>7. /\ pq[id] = low /\ pq[new] = high
        /\ \A q \in B!PageId \ {id, new} : pq[q] = pg[q]
    BY <1>2, <1>3, <1>5, <1>6
  <1>8. id # B!Root
    BY <1>2
  <1>9. \A x \in Key : B!Route(pq, x) = B!Route(pg, x)
    BY <1>6, <1>7, <1>8 DEF B!Route
  <1>10. /\ ~B!LeafAt(pg, B!Root) /\ B!LeafAt(pg, id) /\ ~B!LeafAt(pg, new)
         /\ \A p \in B!PageId : B!LeafAt(pq, p) <=> (B!LeafAt(pg, p) \/ p = new)
         /\ pq[id].next = new /\ pq[new].next = pg[id].next
         /\ \A p \in B!PageId : B!LeafAt(pg, p) /\ p # id => pq[p].next = pg[p].next
         /\ \A p \in B!PageId : B!LeafAt(pg, p) => pg[p].next # new
    BY <1>2, <1>6, <1>7 DEF B!LeafAt, Unlinked
  <1>11. ASSUME NEW x \in Key, Absent \notin more[x]
         PROVE  \/ B!Has(pq, id, x, more[x]) \/ B!Has(pq, new, x, more[x])
                \/ /\ Absent \notin want[x]
                   /\ \A p \in B!PageId :
                        B!LeafAt(pg, p) /\ B!Has(pg, p, x, want[x]) => B!Has(pq, p, x, more[x])
    <2>1. ASSUME x \in DOMAIN all, all[x] \in more[x]
          PROVE  B!Has(pq, id, x, more[x]) \/ B!Has(pq, new, x, more[x])
      BY <1>7, <2>1 DEF Halved, B!Has
    <2>2. CASE x = k
      BY <1>2, <2>1, <2>2
    <2>3. CASE x # k
      <3>1. more[x] = want[x]
        BY <2>3 DEF want
      <3>2. CASE B!Has(pg, id, x, want[x])
        <4>1. x \in DOMAIN all /\ all[x] \in more[x]
          BY <1>2, <1>6, <2>3, <3>1, <3>2 DEF B!Has
        <4> QED
          BY <2>1, <4>1
      <3>3. CASE ~B!Has(pg, id, x, want[x])
        <4>1. ASSUME NEW p \in B!PageId, B!LeafAt(pg, p), B!Has(pg, p, x, want[x])
              PROVE  B!Has(pq, p, x, more[x])
          <5>1. pq[p] = pg[p]
            BY <1>7, <1>10, <3>3, <4>1
          <5> QED
            BY <3>1, <4>1, <5>1 DEF B!Has
        <4> QED
          BY <1>11, <3>1, <4>1
      <3> QED
        BY <3>2, <3>3
    <2> QED
      BY <2>2, <2>3
  <1>12. k \in Key /\ id \in B!PageId /\ id = B!Route(pg, k) /\ new \in B!PageId \ {B!Root}
    BY <1>2
  <1>13. B!Threaded(pq, more)
    BY <1>1, <1>9, <1>10, <1>11, <1>12, B!ThreadSplit
  <1> QED
    BY <1>13 DEF pq

\* The records the split of c moves are those above the separator.
Moves(c, all, sep) ==
  /\ DOMAIN c.moved = {x \in DOMAIN all : sep < x}
  /\ \A x \in DOMAIN c.moved : c.moved[x] = all[x]

\* The two halves are written, and then their parent, if it has room.
LEMMA HalvesPlan ==
  ASSUME NEW s, NEW c, NEW e, Safe(s, c, e), c # Idle, s[B!Root].type = "interior",
         NEW k \in Key, NEW v \in Payload, c.key = k, c.payload = v, B!LeftHasKey(Cells(s, k, v)),
         NEW new \in B!PageId \ {B!Root}, ~(s[0] <= new), s[new] = B!Unwritten, Unlinked(s, new),
         NEW id, id = Leaf(s, k), NEW next, next = s[id].next, next # new,
         NEW prev, prev = s[id].prev,
         NEW all, all = Cells(s, k, v), NEW sep, sep = B!Separator(all),
         Moves(c, all, sep),
         NEW wl, wl = B!To(id, B!Leaf(B!Low(all), new, prev)),
         NEW wr, wr = B!To(new, B!Leaf(B!High(all), next, id)),
         NEW wn, wn = B!To(B!Root, B!WithChild(s[B!Root], id, sep, new))
  PROVE  /\ c.answer # "ok" => Plan(<<wl, wr>>, s, c, e)
         /\ Plan(<<wl, wr>> \o <<wn>>, s, c, e)
  <1> DEFINE low == B!Leaf(B!Low(all), new, prev)
             high == B!Leaf(B!High(all), next, id)
             s1 == Put(s, wl)
             s2 == Put(s1, wr)
             s3 == Put(s2, wn)
  <1>1. /\ id \in B!PageId /\ ~(s[0] <= id)
        /\ s[id].type = "leaf" /\ B!LeafPage(s[id])
        /\ id # B!Root /\ id # new
        /\ B!Records(all) /\ k \in DOMAIN all
        /\ \A x \in DOMAIN all : B!Route(Pages(s), x) = id
        /\ \A x \in Key : B!Route(Pages(s), x) = id =>
             B!Record(all, x) = IF x = k THEN v ELSE B!Found(Pages(s), x)
    <2>1. B!Unwritten.type = "free"
      BY B!TreeFacts
    <2>2. Goes(s, k, v, id, all)
      BY LeafIs
    <2> QED
      BY <2>1, <2>2 DEF Goes
  <1>2. next \in B!PageId \union {B!NoLeaf} /\ prev \in B!PageId \union {B!NoLeaf}
    BY <1>1, B!LeafFacts
  <1>3. next # B!NoLeaf => next \notin {new, id, B!Root} /\ ~(s[0] <= next)
    <2>1. B!Follows(Pages(s), s[0]) /\ Pages(s)[id] = s[id]
      BY <1>1, PageIds DEF Safe
    <2> QED
      BY <1>1, <2>1 DEF B!Follows
  <1>4. /\ B!LeafPage(low) /\ low.type = "leaf" /\ low.next = new
        /\ B!LeafPage(high) /\ high.type = "leaf" /\ high.next = next
        /\ sep \in Key /\ sep \in DOMAIN all
        /\ DOMAIN low.cells \subseteq DOMAIN all /\ DOMAIN high.cells \subseteq DOMAIN all
        /\ \A x \in DOMAIN low.cells : x <= sep
        /\ \A x \in DOMAIN high.cells : sep < x
        /\ \A x \in Key :
             /\ B!Record(low.cells, x) = IF sep < x THEN Absent ELSE B!Record(all, x)
             /\ sep < x => B!Record(high.cells, x) = B!Record(all, x)
        /\ Halved(all, low, high)
    <2>1. /\ B!Records(all) /\ B!LeftHasKey(all) /\ sep = B!Separator(all)
          /\ new \in B!PageId \union {B!NoLeaf} /\ id \in B!PageId \union {B!NoLeaf}
      BY <1>1
    <2> DEFINE m == B!Separator(all)
    <2>2. /\ B!LeafPage(low) /\ low.type = "leaf" /\ low.next = new
          /\ B!LeafPage(high) /\ high.type = "leaf" /\ high.next = next
          /\ m \in Key /\ m \in DOMAIN all
          /\ DOMAIN low.cells \subseteq DOMAIN all /\ DOMAIN high.cells \subseteq DOMAIN all
          /\ \A x \in DOMAIN low.cells : x <= m
          /\ \A x \in DOMAIN high.cells : m < x
          /\ \A x \in Key :
               /\ B!Record(low.cells, x) = IF m < x THEN Absent ELSE B!Record(all, x)
               /\ m < x => B!Record(high.cells, x) = B!Record(all, x)
          /\ Halved(all, low, high)
      BY ONLY <1>2, <2>1, Split, SMTT(90)
    <2> QED
      BY ONLY <2>1, <2>2
  <1>5. /\ IsStore(s) /\ B!Unwritten.type = "free" /\ 0 \notin B!PageId
        /\ s[new].type = "free" /\ s[id].type # "interior" /\ s[B!Root].type # "leaf"
        /\ new \in B!PageId \ {id} /\ new \in B!PageId \ {B!Root, id}
        /\ wl = B!To(id, low) /\ wr = B!To(new, high)
    BY <1>1, B!TreeFacts, PageIds DEF Safe
  <1>6. \A x \in Key : B!Route(Pages(s), x) # new
    <2>1. B!Shape(Pages(s), s[0]) /\ Pages(s)[new] = s[new]
      BY PageIds DEF Safe
    <2>2. \A x \in Key : Pages(s)[B!Route(Pages(s), x)].type = "leaf"
      BY <2>1, B!RouteFacts
    <2> QED
      BY <1>5, <2>1, <2>2
  <1>7. new # s[B!Root].right /\ \A i \in 1..Len(s[B!Root].cells) : s[B!Root].cells[i].child # new
    <2>1. B!Children(Pages(s)) /\ Pages(s)[new] = s[new] /\ Pages(s)[B!Root] = s[B!Root]
      BY PageIds DEF Safe, B!Shape
    <2> QED
      BY <1>5, <2>1 DEF B!Children
  <1> HIDE DEF low, high
  <1>8. /\ Good(s, wl, c, e) /\ Safe(s1, c, e) /\ s1[0] = s[0] /\ IsStore(s1)
        /\ s1[id] = low /\ s1[new] = B!Unwritten /\ s1[B!Root] = s[B!Root]
        /\ \A x \in Key : B!Route(Pages(s1), x) = B!Route(Pages(s), x)
        /\ \A x \in Key : B!Found(Pages(s1), x) = IF B!Route(Pages(s), x) = id THEN B!Record(low.cells, x)
                                                  ELSE B!Found(Pages(s), x)
    <2>1. s1[0] = s[0] /\ s1[id] = low /\ s1[new] = s[new] /\ s1[B!Root] = s[B!Root] /\ IsStore(s1)
      <3> HIDE DEF s1
      <3>1. s1 = Put(s, B!To(id, low))
        BY <1>5 DEF s1
      <3> QED
        BY <1>1, <1>5, <3>1, PutPage, PageIds
    <2>2. s1 = Put(s, B!To(id, low))
      BY <1>5
    <2>3. low.type = "leaf" /\ low.next # B!NoLeaf => low.next \notin {id, B!Root} /\ ~(s[0] <= low.next)
      BY <1>1, <1>4
    <2>4. \A x \in Key : B!Route(Pages(s), x) = id =>
            /\ \A y \in DOMAIN low.cells : B!Route(Pages(s), y) = id
            /\ \/ B!Record(low.cells, x) = B!Found(Pages(s), x)
               \/ x = c.key /\ B!Record(low.cells, x) = c.payload
               \/ B!Record(low.cells, x) = Absent /\ Hides(c, x, B!Found(Pages(s), x))
      <3>1. ASSUME NEW x \in Key, B!Route(Pages(s), x) = id
            PROVE  \/ B!Record(low.cells, x) = B!Found(Pages(s), x)
                   \/ x = c.key /\ B!Record(low.cells, x) = c.payload
                   \/ B!Record(low.cells, x) = Absent /\ Hides(c, x, B!Found(Pages(s), x))
        <4>1. B!Record(all, x) = IF x = k THEN v ELSE B!Found(Pages(s), x)
          BY <1>1, <3>1
        <4>2. B!Record(low.cells, x) = IF sep < x THEN Absent ELSE B!Record(all, x)
          BY <1>4
        <4>3. CASE ~(sep < x)
          BY <4>1, <4>2, <4>3
        <4>4. CASE sep < x /\ x \in DOMAIN all
          BY <4>1, <4>2, <4>4 DEF Moves, Hides, B!Record
        <4>5. CASE sep < x /\ x \notin DOMAIN all
          BY <1>1, <4>1, <4>2, <4>5 DEF B!Record
        <4> QED
          BY <4>3, <4>4, <4>5
      <3> QED
        BY <1>1, <1>4, <3>1
    <2> HIDE DEF s1
    <2>6. B!Threaded(Pages(s1), Wanted(c, e))
      BY <1>4, <1>5, <2>2, LowerThread
    <2>5. /\ Good(s, B!To(id, low), c, e) /\ Safe(s1, c, e)
          /\ \A x \in Key : B!Route(Pages(s1), x) = B!Route(Pages(s), x)
          /\ \A x \in Key :
               B!Found(Pages(s1), x) = IF B!Route(Pages(s), x) = id THEN B!Record(low.cells, x)
                                       ELSE B!Found(Pages(s), x)
      BY <1>1, <1>4, <1>5, <2>2, <2>3, <2>4, <2>6, LeafGood
    <2> QED
      BY <1>5, <2>1, <2>5
  <1> HIDE DEF s1
  <1>9. /\ Good(s1, wr, c, e) /\ Safe(s2, c, e)
        /\ s2[id] = low /\ s2[new] = high /\ s2[B!Root] = s[B!Root]
        /\ \A x \in Key : B!Route(Pages(s2), x) = B!Route(Pages(s), x)
        /\ \A x \in Key : B!Found(Pages(s2), x) = B!Found(Pages(s1), x)
        /\ B!Threaded(Pages(s2), Promised(c, e))
    <2>1. s2[id] = low /\ s2[new] = high /\ s2[B!Root] = s[B!Root]
      <3> HIDE DEF s2
      <3>1. s2 = Put(s1, B!To(new, high))
        BY <1>5 DEF s2
      <3> QED
        BY <1>1, <1>8, <3>1, PutPage, PageIds
    <2>2. /\ s2 = Put(s1, B!To(new, high)) /\ s1[new].type # "interior" /\ ~(s1[0] <= new)
          /\ high.type = "leaf" /\ high.next # B!NoLeaf => high.next \notin {new, B!Root} /\ ~(s1[0] <= high.next)
      BY <1>3, <1>4, <1>5, <1>8
    <2>3. \A x \in Key : B!Route(Pages(s1), x) = new =>
            /\ \A y \in DOMAIN high.cells : B!Route(Pages(s1), y) = new
            /\ \/ B!Record(high.cells, x) = B!Found(Pages(s1), x)
               \/ x = c.key /\ B!Record(high.cells, x) = c.payload
               \/ B!Record(high.cells, x) = Absent /\ Hides(c, x, B!Found(Pages(s1), x))
      BY <1>6, <1>8
    <2>5. s2 = Put(Put(s, B!To(id, low)), B!To(new, high))
      BY <1>5 DEF s1
    <2> HIDE DEF s2
    <2> DEFINE want == Wanted(c, e)
               more == Promised(c, e)
    <2>6. /\ v \in want[k] /\ v \in more[k]
          /\ \A x \in Key : x # k => more[x] = want[x]
      BY DEF Wanted, Promised
    <2>7. B!Threaded(Pages(s2), want) /\ B!Threaded(Pages(s2), more)
      <3>1. want = Wanted(c, e) /\ high.next = s[id].next
        BY <1>4
      <3> HIDE DEF want, more
      <3> QED
        BY <1>4, <1>5, <2>5, <2>6, <3>1, UpperThread
    <2>4. /\ Good(s1, B!To(new, high), c, e) /\ Safe(s2, c, e)
          /\ \A x \in Key : B!Route(Pages(s2), x) = B!Route(Pages(s1), x)
          /\ \A x \in Key :
               B!Found(Pages(s2), x) = IF B!Route(Pages(s1), x) = new THEN B!Record(high.cells, x)
                                       ELSE B!Found(Pages(s1), x)
      BY <1>4, <1>8, <2>2, <2>3, <2>7, LeafGood
    <2> QED
      BY <1>5, <1>6, <1>8, <2>1, <2>4, <2>7
  <1> HIDE DEF s2
  <1>10. /\ Good(s2, wn, c, e)
         /\ \A x \in Key :
              B!Found(Pages(s3), x) =
                IF s[B!Root].right = id /\ sep < x /\ B!Route(Pages(s), x) = id
                  THEN B!Record(high.cells, x) ELSE B!Found(Pages(s1), x)
         /\ B!Threaded(Pages(s3), Promised(c, e))
    <2>1. /\ s2[B!Root].type = "interior" /\ s2[id].type = "leaf" /\ s2[new].type = "leaf"
          /\ s2[id].next = new
          /\ B!Route(Pages(s2), sep) = id /\ \A x \in Key : B!Route(Pages(s2), x) # new
          /\ new # s2[B!Root].right
          /\ \A i \in 1..Len(s2[B!Root].cells) : s2[B!Root].cells[i].child # new
          /\ \A x \in DOMAIN s2[id].cells : x <= sep
          /\ wn = B!To(B!Root, B!WithChild(s2[B!Root], id, sep, new))
          /\ id \in B!PageId \ {B!Root} /\ new \in B!PageId \ {B!Root, id}
      BY <1>1, <1>4, <1>6, <1>7, <1>9
    <2>2. \A x \in DOMAIN s2[new].cells : sep < x /\ B!Route(Pages(s2), x) = id
      <3>1. DOMAIN all \subseteq Key
        BY <1>1 DEF B!Records
      <3> QED
        BY <1>1, <1>4, <1>9, <3>1
    <2>3. \A x \in Key : sep < x /\ B!Route(Pages(s2), x) = id =>
            /\ Vouched(x, B!Record(s2[new].cells, x), c, e)
            /\ Brings(c, x, B!Found(Pages(s2), x), B!Record(s2[new].cells, x))
      <3>1. \A x \in Key : Vouched(x, B!Found(Pages(s), x), c, e) /\ (x = k => Vouched(x, v, c, e))
        BY DEF Safe, Vouched
      <3>2. ASSUME NEW x \in Key, sep < x, B!Route(Pages(s2), x) = id
            PROVE  Brings(c, x, B!Found(Pages(s2), x), B!Record(s2[new].cells, x))
        <4>1. B!Found(Pages(s2), x) = Absent
          BY <1>4, <1>8, <1>9, <3>2
        <4>2. B!Record(s2[new].cells, x) = B!Record(all, x)
          BY <1>4, <1>9, <3>2
        <4> QED
          BY <3>2, <4>1, <4>2 DEF Moves, Brings, Restores, B!Record
      <3> QED
        BY <1>1, <1>4, <1>9, <3>1, <3>2
    <2> HIDE DEF s3
    <2>4. s3 = Put(s2, wn) /\ Safe(s2, c, e) /\ c # Idle /\ sep \in Key
      BY <1>4, <1>9 DEF s3
    <2>5. /\ Good(s2, wn, c, e)
          /\ \A x \in Key :
               B!Found(Pages(s3), x) =
                 IF s2[B!Root].right = id /\ sep < x /\ B!Route(Pages(s2), x) = id
                   THEN B!Record(s2[new].cells, x) ELSE B!Found(Pages(s2), x)
          /\ \A want : B!Threaded(Pages(s2), want) => B!Threaded(Pages(s3), want)
      BY ONLY <2>1, <2>2, <2>3, <2>4, ParentGood
    <2> QED
      BY <1>9, <2>5
  <1>11. Ends(s3, c, e)
    <2>1. B!Route(Pages(s), k) = id
      BY DEF Leaf
    <2>2. B!Record(all, k) = c.payload
      BY <1>1, <2>1
    <2>3. \/ B!Found(Pages(s3), k) = B!Record(high.cells, k) /\ sep < k
          \/ B!Found(Pages(s3), k) = B!Record(low.cells, k)
      BY <1>8, <1>10, <2>1
    <2>4. B!Found(Pages(s3), c.key) \in {c.payload, Absent}
      BY <1>4, <2>2, <2>3
    <2> QED
      BY <1>10, <2>4 DEF Ends
  <1> HIDE DEF s3
  <1>12. ASSUME c.answer # "ok" PROVE Plan(<<wl, wr>>, s, c, e)
    <2>1. Plan(<<wr>>, s1, c, e)
      <3>1. Ends(s2, c, e)
        BY <1>12 DEF Ends
      <3> QED
        BY <1>8, <1>9, <3>1, PlanLast DEF s2
    <2>2. Plan(<<wl>> \o <<wr>>, s, c, e)
      BY <1>8, <2>1, PlanCons DEF s1
    <2>3. <<wl>> \o <<wr>> = <<wl, wr>>
      BY Pairs
    <2> QED
      BY ONLY <2>2, <2>3
  <1>13. Plan(<<wl, wr>> \o <<wn>>, s, c, e)
    <2>1. Plan(<<wn>>, s2, c, e)
      BY <1>9, <1>10, <1>11, PlanLast DEF s3
    <2>2. Plan(<<wr>> \o <<wn>>, s1, c, e)
      BY <1>8, <1>9, <2>1, PlanCons DEF s2
    <2>3. Plan(<<wl>> \o (<<wr>> \o <<wn>>), s, c, e)
      BY <1>8, <2>2, PlanCons DEF s1
    <2>4. (<<wl>> \o <<wr>>) \o <<wn>> = <<wl>> \o (<<wr>> \o <<wn>>)
      BY Concat3
    <2>5. <<wl>> \o <<wr>> = <<wl, wr>>
      BY Pairs
    <2> QED
      BY ONLY <2>3, <2>4, <2>5
  <1> QED
    BY <1>12, <1>13

\* The back link of the next sibling comes before the halves.
LEMMA LeafPlan ==
  ASSUME NEW s, NEW c, NEW e, Safe(s, c, e), c # Idle, s[B!Root].type = "interior",
         NEW k \in Key, NEW v \in Payload, c.key = k, c.payload = v, B!LeftHasKey(Cells(s, k, v)),
         NEW new \in B!PageId \ {B!Root}, ~(s[0] <= new), s[new] = B!Unwritten, Unlinked(s, new),
         NEW id, id = Leaf(s, k), NEW next, next = s[id].next, next # new,
         NEW all, all = Cells(s, k, v), NEW sep, sep = B!Separator(all),
         Moves(c, all, sep),
         NEW relink, relink = IF next = B!NoLeaf THEN <<>>
                              ELSE <<B!To(next, [s[next] EXCEPT !.prev = new])>>,
         NEW wl, wl = B!To(id, B!Leaf(B!Low(all), new, s[id].prev)),
         NEW wr, wr = B!To(new, B!Leaf(B!High(all), next, id)),
         NEW wn, wn = B!To(B!Root, B!WithChild(s[B!Root], id, sep, new))
  PROVE  /\ c.answer # "ok" => Plan(relink \o <<wl, wr>>, s, c, e)
         /\ Plan((relink \o <<wl, wr>>) \o <<wn>>, s, c, e)
  <1>1. CASE next = B!NoLeaf
    <2>1. /\ c.answer # "ok" => Plan(<<wl, wr>>, s, c, e)
          /\ Plan(<<wl, wr>> \o <<wn>>, s, c, e)
      BY HalvesPlan
    <2>2. relink = <<>> /\ <<>> \o <<wl, wr>> = <<wl, wr>>
      BY <1>1
    <2> QED
      BY ONLY <2>1, <2>2, ZenonT(30)
  <1>2. CASE next # B!NoLeaf
    <2> DEFINE wb == B!To(next, [s[next] EXCEPT !.prev = new])
               t == Put(s, wb)
    <2>1. id \in B!PageId \ {B!Root} /\ s[id].type = "leaf" /\ B!LeafPage(s[id])
      BY LeafFacts
    <2>2. next \in B!PageId \ {B!Root, id} /\ ~(s[0] <= next)
      <3>1. next \in B!PageId
        BY <1>2, <2>1, B!LeafFacts
      <3>2. B!Follows(Pages(s), s[0]) /\ Pages(s)[id] = s[id]
        BY <2>1, PageIds DEF Safe
      <3> QED
        BY <1>2, <2>1, <3>1, <3>2 DEF B!Follows
    <2>3. /\ Good(s, wb, c, e) /\ Safe(t, c, e) /\ t[0] = s[0]
          /\ \A q \in B!PageId \ {next} : t[q] = s[q]
          /\ \A x \in Key : B!Route(Pages(t), x) = B!Route(Pages(s), x)
          /\ t[next].type = s[next].type /\ t[next].next = s[next].next
      <3>1. wb = B!To(next, [s[next] EXCEPT !.prev = new]) /\ t = Put(s, wb)
        OBVIOUS
      <3>2. /\ Safe(s, c, e) /\ c # Idle /\ next \in B!PageId \ {B!Root} /\ ~(s[0] <= next)
            /\ new \in B!PageId
        BY <2>2
      <3> HIDE DEF wb, t
      <3> QED
        BY ONLY <3>1, <3>2, RelinkGood
    <2>4. relink = <<wb>>
      BY <1>2
    <2> HIDE DEF wb, t
    <2>5. /\ t[B!Root] = s[B!Root] /\ t[id] = s[id] /\ t[new] = s[new]
          /\ Leaf(t, k) = id /\ Cells(t, k, v) = all
      <3>1. t[B!Root] = s[B!Root] /\ t[id] = s[id] /\ t[new] = s[new] /\ Leaf(t, k) = Leaf(s, k)
        BY <2>1, <2>2, <2>3, PageIds DEF Leaf
      <3> QED
        BY <3>1 DEF Cells
    <2>6. /\ c.answer # "ok" => Plan(<<wl, wr>>, t, c, e)
          /\ Plan(<<wl, wr>> \o <<wn>>, t, c, e)
      <3> DEFINE prev == s[id].prev
      <3>1. /\ t[B!Root].type = "interior" /\ B!LeftHasKey(Cells(t, k, v))
            /\ ~(t[0] <= new) /\ t[new] = B!Unwritten /\ Unlinked(t, new)
            /\ id = Leaf(t, k) /\ next = t[id].next /\ prev = t[id].prev /\ all = Cells(t, k, v)
            /\ wl = B!To(id, B!Leaf(B!Low(all), new, prev))
            /\ wn = B!To(B!Root, B!WithChild(t[B!Root], id, sep, new))
        BY <2>3, <2>5 DEF Unlinked
      <3>2. /\ Safe(t, c, e) /\ c # Idle /\ c.key = k /\ c.payload = v
            /\ k \in Key /\ v \in Payload /\ new \in B!PageId \ {B!Root}
        BY <2>3
      <3>3. /\ next # new /\ sep = B!Separator(all) /\ Moves(c, all, sep)
            /\ wr = B!To(new, B!Leaf(B!High(all), next, id))
        OBVIOUS
      <3> HIDE DEF prev
      <3> QED
        BY ONLY <3>1, <3>2, <3>3, HalvesPlan, SMTT(60)
    <2>7. ASSUME c.answer # "ok" PROVE Plan(<<wb>> \o <<wl, wr>>, s, c, e)
      BY <2>3, <2>6, <2>7, PlanCons DEF t
    <2>8. Plan(<<wb>> \o (<<wl, wr>> \o <<wn>>), s, c, e)
      BY <2>3, <2>6, PlanCons DEF t
    <2>9. (<<wb>> \o <<wl, wr>>) \o <<wn>> = <<wb>> \o (<<wl, wr>> \o <<wn>>)
      <3>1. <<wl>> \o <<wr>> = <<wl, wr>>
        BY Pairs
      <3>2. (<<wl>> \o <<wr>>) \o <<wn>> = <<wl>> \o (<<wr>> \o <<wn>>)
        BY Concat3
      <3>3. (<<wb>> \o (<<wl>> \o <<wr>>)) \o <<wn>> = <<wb>> \o (<<wl>> \o (<<wr>> \o <<wn>>))
        BY Concat4
      <3> QED
        BY <3>1, <3>2, <3>3
    <2> QED
      BY <2>4, <2>7, <2>8, <2>9, ZenonT(60)
  <1> QED
    BY <1>1, <1>2

-----------------------------------------------------------------------------
\* An insert starts.

\* What the writes of an insert are made of.
LEMMA CallFacts ==
  ASSUME NEW c, NEW e, Safe(store, c, e), NEW k \in Key, NEW v \in Payload
  PROVE  /\ Id(k) = Leaf(store, k) /\ Tree!LeafOf(k) = Leaf(store, k)
         /\ Pages(store)[Leaf(store, k)] = store[Leaf(store, k)]
         /\ All(k, v) = Cells(store, k, v) /\ Tree!AllCells(k, v) = Cells(store, k, v)
         /\ store[B!Root].type = "interior" => Tree!ParentOf(k) = B!Root
         /\ Pages(store)[B!Root] = store[B!Root]
         /\ \A n \in Nat : [i \in 1..n |-> Tree!To(0, Count + i)] = [i \in 1..n |-> B!To(0, store[0] + i)]
  <1>1. Tree!LeafOf(k) = Leaf(store, k) /\ store[B!Root].type = "interior" => Tree!ParentOf(k) = B!Root
    BY SafeReads, PageIds DEF Id, Leaf
  <1>2. Leaf(store, k) \in B!PageId
    BY LeafFacts
  <1>3. Tree!LeafOf(k) = Leaf(store, k)
    BY SafeReads DEF Id, Leaf
  <1>4. Pages(store)[Leaf(store, k)] = store[Leaf(store, k)] /\ Pages(store)[B!Root] = store[B!Root]
    BY <1>2, PageIds
  <1>5. Tree!AllCells(k, v) = Cells(store, k, v)
    BY <1>2, <1>3, <1>4, PageIds, SameCells DEF Tree!AllCells, Cells, Pages
  <1>6. \A n \in Nat : [i \in 1..n |-> Tree!To(0, Count + i)] = [i \in 1..n |-> B!To(0, store[0] + i)]
    BY DEF Tree!To, B!To, Count
  <1> QED
    BY <1>1, <1>3, <1>4, <1>5, <1>6, SafeReads, PageIds DEF Id, All, Leaf

LEMMA SafeStarts ==
  ASSUME NEW s, NEW c, NEW e, Safe(s, Idle, e)
  PROVE  Safe(s, c, e)
  <1> DEFINE pg == Pages(s)
             want == Wanted(Idle, e)
             more == Wanted(c, e)
  <1>1. \A x \in Key : Absent \notin more[x] => Absent \notin want[x] /\ want[x] \subseteq more[x]
    BY DEF Wanted
  <1>2. B!Threaded(pg, want)
    BY DEF Safe
  <1> HIDE DEF pg, want, more
  <1>3. B!Threaded(pg, more)
    BY <1>1, <1>2, B!ThreadMore
  <1> QED
    BY <1>3 DEF Safe, Vouched, pg, more

LEMMA PlanNone ==
  ASSUME NEW ws, NEW s, NEW c, NEW e, Plan(ws, s, c, e)
  PROVE  Plan(<<>> \o ws, s, c, e)
  <1>1. PICK T : ws \in Seq(T)
    BY DEF Plan
  <1>2. <<>> \o ws = ws
    BY <1>1
  <1> QED
    BY <1>2

\* The pages an insert allocates.
LEMMA FreshPages ==
  ASSUME NEW s, NEW c, NEW e, Safe(s, c, e), NEW n \in {1, 2}, s[0] + n <= MaxPageId + 1,
         NEW t, Safe(t, c, e), Allocated(s, t, n), NEW k \in Key, NEW v \in Payload
  PROVE  /\ \A p \in {s[0], s[0] + (n - 1)} :
              p \in B!PageId \ {B!Root} /\ ~(t[0] <= p) /\ t[p] = B!Unwritten
         /\ t[B!Root] = s[B!Root] /\ Leaf(t, k) = Leaf(s, k) /\ Cells(t, k, v) = Cells(s, k, v)
         /\ t[Leaf(s, k)] = s[Leaf(s, k)]
  <1>1. s[0] \in Int /\ 2 <= s[0] /\ t[0] = s[0] + n /\ B!Root = 1 /\ B!PageId = 1..MaxPageId
    BY PageIds DEF Safe, Allocated
  <1>2. Leaf(s, k) \in B!PageId /\ B!Root \in B!PageId
    BY LeafFacts, PageIds
  <1>3. Leaf(t, k) = Leaf(s, k) /\ t[B!Root] = s[B!Root] /\ t[Leaf(s, k)] = s[Leaf(s, k)]
    BY <1>2 DEF Allocated, Leaf
  <1>4. \A p \in B!PageId : s[0] <= p => t[p] = B!Unwritten
    BY PageIds DEF Allocated, Safe, B!Shape
  <1>5. ASSUME NEW p \in {s[0], s[0] + (n - 1)}
        PROVE  p \in B!PageId \ {B!Root} /\ ~(t[0] <= p) /\ t[p] = B!Unwritten
    <2>1. p \in Int /\ s[0] <= p /\ p <= MaxPageId /\ ~(t[0] <= p)
      BY <1>1
    <2>2. p \in 1..MaxPageId /\ p # 1
      BY <1>1, <2>1
    <2> QED
      BY <1>1, <1>4, <2>1, <2>2
  <1> QED
    BY <1>3, <1>5 DEF Cells

\* The root leaf is split, or both pages are allocated for nothing.
LEMMA RootCase ==
  ASSUME NEW c, NEW e, Safe(store, c, e), c # Idle, NEW k \in Key, NEW v \in Payload,
         c.key = k, c.payload = v, Tree!RootIsFull(k, v), NEW ws,
         \/ ws = Tree!RootWrites(All(k, v), Count, Count + 1) /\ Tree!CanSplit(All(k, v))
         \/ ws = <<>> /\ c.answer = "panic"
  PROVE  Plan([i \in 1..2 |-> Tree!To(0, Count + i)] \o ws, store, c, e)
  <1> DEFINE all == Cells(store, k, v)
             left == store[0]
             right == store[0] + 1
  <1>1. Leaf(store, k) = B!Root /\ store[B!Root].type = "leaf" /\ store[0] + 2 <= MaxPageId + 1
    <2>1. Leaf(store, k) = B!Root
      BY CallFacts, SamePages DEF Tree!RootIsFull
    <2>2. store[B!Root].type = "leaf"
      BY <2>1, LeafFacts
    <2>3. store[0] + 1 <= MaxPageId /\ store[0] \in Int
      BY DEF Tree!RootIsFull, Safe
    <2> QED
      BY <2>1, <2>2, <2>3
  <1>2. ASSUME NEW t, Safe(t, c, e), Allocated(store, t, 2) PROVE Plan(ws, t, c, e)
    <2>1. /\ left \in B!PageId \ {B!Root} /\ ~(t[0] <= left) /\ t[left] = B!Unwritten
          /\ right \in B!PageId \ {B!Root} /\ ~(t[0] <= right) /\ t[right] = B!Unwritten
          /\ t[B!Root] = store[B!Root] /\ Cells(t, k, v) = all
      <3>1. 2 \in {1, 2} /\ 2 - 1 = 1
        OBVIOUS
      <3>2. /\ \A p \in {store[0], store[0] + (2 - 1)} :
                 p \in B!PageId \ {B!Root} /\ ~(t[0] <= p) /\ t[p] = B!Unwritten
            /\ t[B!Root] = store[B!Root] /\ Cells(t, k, v) = Cells(store, k, v)
        BY <1>1, <1>2, <3>1, FreshPages
      <3> QED
        BY <3>1, <3>2
    <2>2. left # right
      BY DEF Safe
    <2>3. CASE ws = Tree!RootWrites(All(k, v), Count, Count + 1) /\ Tree!CanSplit(All(k, v))
      <3>1. ws = <<B!To(left, B!Leaf(B!Low(all), right, B!NoLeaf)),
                   B!To(right, B!Leaf(B!High(all), B!NoLeaf, left)),
                   B!To(B!Root, B!Interior(<<[child |-> left, key |-> B!Separator(all)]>>, right))>>
        BY <2>3, CallFacts, SamePages, SameCells DEF Tree!RootWrites, Count
      <3>2. B!LeftHasKey(all)
        BY <2>3, CallFacts, SameCells DEF Tree!CanSplit
      <3> HIDE DEF all, left, right
      <3>3. /\ t[B!Root].type = "leaf" /\ B!LeftHasKey(Cells(t, k, v))
            /\ right \in B!PageId \ {B!Root, left} /\ all = Cells(t, k, v)
        BY <1>1, <2>1, <2>2, <3>2
      <3>4. LET a == Cells(t, k, v)
            IN  Plan(<<B!To(left, B!Leaf(B!Low(a), right, B!NoLeaf)),
                       B!To(right, B!Leaf(B!High(a), B!NoLeaf, left)),
                       B!To(B!Root, B!Interior(<<[child |-> left, key |-> B!Separator(a)]>>, right))>>,
                     t, c, e)
        BY <1>2, <2>1, <3>3, RootPlan
      <3> QED
        BY <3>1, <3>3, <3>4
    <2>4. CASE ws = <<>> /\ c.answer = "panic"
      <3>1. Ends(t, c, e)
        BY <2>4 DEF Ends
      <3> QED
        BY <1>2, <2>4, <3>1, PlanEmpty
    <2> QED
      BY <2>3, <2>4
  <1>3. Plan([i \in 1..2 |-> B!To(0, store[0] + i)] \o ws, store, c, e)
    <2>1. 2 \in {1, 2}
      OBVIOUS
    <2> QED
      BY <1>1, <1>2, <2>1, PlanHeaders
  <1> QED
    BY <1>3, CallFacts

\* Another leaf is split, with or without a place in the parent; or nothing is
\* written behind the header, or the back link alone.
LEMMA LeafCase ==
  ASSUME NEW c, NEW e, Safe(store, c, e), c # Idle, NEW k \in Key, NEW v \in Payload,
         c.key = k, c.payload = v, Tree!LeafIsFull(k, v), NEW ws,
         \/ /\ Tree!CanSplit(All(k, v)) /\ c.moved = Tree!High(All(k, v))
            /\ \/ ws = Tree!LeafWrites(Id(k), Count, All(k, v)) /\ c.answer # "ok"
               \/ ws = Tree!LeafWrites(Id(k), Count, All(k, v)) \o Tree!ParentWrite(k, All(k, v), Count)
         \/ c.answer # "ok" /\ (ws = <<>> \/ ws = Tree!Relink(Id(k), Count))
  PROVE  Plan([i \in 1..1 |-> Tree!To(0, Count + i)] \o ws, store, c, e)
  <1> DEFINE all == Cells(store, k, v)
             new == store[0]
             id == Leaf(store, k)
             next == store[id].next
             sep == B!Separator(all)
             relink == IF next = B!NoLeaf THEN <<>>
                       ELSE <<B!To(next, [store[next] EXCEPT !.prev = new])>>
             wl == B!To(id, B!Leaf(B!Low(all), new, store[id].prev))
             wr == B!To(new, B!Leaf(B!High(all), next, id))
             wn == B!To(B!Root, B!WithChild(store[B!Root], id, sep, new))
  <1>1. /\ id \in B!PageId \ {B!Root} /\ store[B!Root].type = "interior"
        /\ store[0] + 1 <= MaxPageId + 1 /\ store[0] \in Int
    <2>1. id # B!Root
      BY CallFacts, SamePages DEF Tree!LeafIsFull
    <2>2. id \in B!PageId /\ store[B!Root].type # "leaf"
      BY <2>1, LeafFacts
    <2>3. store[B!Root].type \in {"leaf", "interior"}
      <3>1. B!Shape(Pages(store), store[0]) /\ Pages(store)[B!Root] = store[B!Root]
        BY PageIds DEF Safe
      <3> QED
        BY <3>1, B!PageTypes
    <2>4. store[0] <= MaxPageId /\ store[0] \in Int
      BY DEF Tree!LeafIsFull, Safe
    <2> QED
      BY <2>1, <2>2, <2>3, <2>4
  <1>2. /\ store[id].type = "leaf" /\ B!LeafPage(store[id]) /\ next \in B!PageId \union {B!NoLeaf}
        /\ next # B!NoLeaf => next \in B!PageId \ {B!Root, id} /\ ~(store[0] <= next)
    <2>1. store[id].type = "leaf" /\ B!LeafPage(store[id])
      BY LeafFacts
    <2>2. next \in B!PageId \union {B!NoLeaf}
      BY <2>1, B!LeafFacts
    <2>3. B!Follows(Pages(store), store[0]) /\ Pages(store)[id] = store[id]
      BY <1>1, PageIds DEF Safe
    <2> QED
      BY <1>1, <2>1, <2>2, <2>3 DEF B!Follows
  <1>3. Tree!Relink(Id(k), Count) = relink
    <2>1. Pages(store)[id] = store[id]
      BY <1>1, PageIds
    <2>2. next # B!NoLeaf => Pages(store)[next] = store[next]
      BY <1>2, PageIds
    <2>3. Id(k) = id
      BY CallFacts
    <2> DEFINE pg == Pages(store)
               there == pg[id].next
    <2>4. Tree!Relink(Id(k), Count) = IF there = Tree!NoLeaf THEN <<>>
                                      ELSE <<Tree!To(there, [pg[there] EXCEPT !.prev = Count])>>
      BY <2>3 DEF Tree!Relink, Pages
    <2>5. there = next /\ Tree!NoLeaf = B!NoLeaf /\ Count = new
      BY <2>1, SamePages DEF Count
    <2> HIDE DEF pg, there, id, next, new
    <2>6. \A d : Tree!To(next, d) = B!To(next, d)
      BY SamePages
    <2>7. next # B!NoLeaf => [pg[next] EXCEPT !.prev = new] = [store[next] EXCEPT !.prev = new]
      BY <2>2 DEF pg
    <2>8. CASE next = B!NoLeaf
      BY <2>4, <2>5, <2>8 
    <2>9. CASE next # B!NoLeaf
      BY <2>4, <2>5, <2>6, <2>7, <2>9
    <2> QED
      BY <2>8, <2>9
  <1>4. Tree!LeafWrites(Id(k), Count, All(k, v)) = relink \o <<wl, wr>>
    <2>1. Pages(store)[id] = store[id] /\ Id(k) = id /\ All(k, v) = all
      BY CallFacts
    <2>2. Tree!Halves(Id(k), Count, All(k, v)) = <<wl, wr>>
      <3> HIDE DEF id, all
      <3> QED
        BY <2>1, SamePages, SameCells DEF Tree!Halves, Count, Pages
    <2> QED
      BY <1>3, <2>2 DEF Tree!LeafWrites
  <1>5. Tree!ParentWrite(k, All(k, v), Count) = <<wn>>
    <2>1. /\ Pages(store)[B!Root] = store[B!Root] /\ Tree!LeafOf(k) = id /\ All(k, v) = all
          /\ Tree!ParentOf(k) = B!Root
      BY <1>1, CallFacts
    <2> HIDE DEF id, all
    <2> QED
      BY <2>1, SamePages, SameCells DEF Tree!ParentWrite, Count, Pages
  <1>6. ASSUME NEW t, Safe(t, c, e), Allocated(store, t, 1) PROVE Plan(ws, t, c, e)
    <2>1. /\ new \in B!PageId \ {B!Root} /\ ~(t[0] <= new) /\ t[new] = B!Unwritten
          /\ t[B!Root] = store[B!Root] /\ Leaf(t, k) = id /\ Cells(t, k, v) = all /\ t[id] = store[id]
      <3>1. 1 \in {1, 2} /\ store[0] + (1 - 1) = store[0]
        BY <1>1
      <3>2. /\ \A p \in {store[0], store[0] + (1 - 1)} :
                 p \in B!PageId \ {B!Root} /\ ~(t[0] <= p) /\ t[p] = B!Unwritten
            /\ t[B!Root] = store[B!Root] /\ Leaf(t, k) = Leaf(store, k)
            /\ Cells(t, k, v) = Cells(store, k, v)
            /\ t[Leaf(store, k)] = store[Leaf(store, k)]
        BY <1>1, <1>6, <3>1, FreshPages
      <3> QED
        BY <3>1, <3>2
    <2>5. Unlinked(t, new)
      <3>1. B!Follows(Pages(store), store[0]) /\ \A p \in B!PageId : Pages(store)[p] = t[p]
        BY <1>6, PageIds DEF Safe, Allocated
      <3>2. new # B!NoLeaf /\ new <= new
        BY <1>1, <2>1, B!TreeFacts
      <3> QED
        BY <3>1, <3>2 DEF Unlinked, B!Follows
    <2>2. /\ next # new /\ (next # B!NoLeaf => t[next] = store[next])
          /\ (next # B!NoLeaf => next \in B!PageId \ {B!Root} /\ ~(t[0] <= next))
      <3>1. t[0] = store[0] + 1 /\ \A p \in B!PageId : t[p] = store[p]
        BY <1>6 DEF Allocated
      <3>2. B!NoLeaf # new
        BY <2>1, B!TreeFacts
      <3>3. \A p \in B!PageId : ~(store[0] <= p) => ~(store[0] + 1 <= p)
        BY <1>1, PageIds
      <3>4. ~(next = new) \/ next = B!NoLeaf
        BY <1>1, <1>2
      <3> QED
        BY <1>2, <3>1, <3>2, <3>3, <3>4
    <2>3. CASE /\ Tree!CanSplit(All(k, v)) /\ c.moved = Tree!High(All(k, v))
               /\ \/ ws = Tree!LeafWrites(Id(k), Count, All(k, v)) /\ c.answer # "ok"
                  \/ ws = Tree!LeafWrites(Id(k), Count, All(k, v)) \o Tree!ParentWrite(k, All(k, v), Count)
      <3>1. B!LeftHasKey(all)
        BY <2>3, CallFacts, SameCells DEF Tree!CanSplit
      <3>2. Moves(c, all, sep)
        <4>1. c.moved = B!High(all)
          BY <2>3, CallFacts, SameCells
        <4>2. B!Records(all)
          <5>1. Goes(store, k, v, id, all)
            BY LeafIs
          <5> QED
            BY <5>1 DEF Goes
        <4>3. sep = B!Separator(all)
          OBVIOUS
        <4> HIDE DEF all, sep
        <4>4. /\ DOMAIN B!High(all) = {x \in DOMAIN all : B!Separator(all) < x}
              /\ \A x \in DOMAIN B!High(all) : B!High(all)[x] = all[x]
          BY ONLY <3>1, <4>2, B!SplitFacts, KeyAssumption, PagesBound, LeastKeyBound,
                  LengthAssumption, SpaceAssumption, AbsentAssumption
        <4> QED
          BY ONLY <4>1, <4>3, <4>4 DEF Moves
      <3>3. /\ t[B!Root].type = "interior" /\ B!LeftHasKey(Cells(t, k, v))
            /\ id = Leaf(t, k) /\ next = t[id].next /\ all = Cells(t, k, v) /\ sep = B!Separator(all)
            /\ relink = IF next = B!NoLeaf THEN <<>>
                        ELSE <<B!To(next, [t[next] EXCEPT !.prev = new])>>
            /\ wl = B!To(id, B!Leaf(B!Low(all), new, t[id].prev))
            /\ wr = B!To(new, B!Leaf(B!High(all), next, id))
            /\ wn = B!To(B!Root, B!WithChild(t[B!Root], id, sep, new))
        BY <1>1, <2>1, <2>2, <3>1
      <3>4. Safe(t, c, e) /\ c # Idle /\ c.key = k /\ c.payload = v
        BY <1>6
      <3> HIDE DEF all, new, id, next, sep, relink, wl, wr, wn
      <3>5. /\ c.answer # "ok" => Plan(relink \o <<wl, wr>>, t, c, e)
            /\ Plan((relink \o <<wl, wr>>) \o <<wn>>, t, c, e)
        BY ONLY <2>1, <2>2, <2>5, <3>2, <3>3, <3>4, LeafPlan, k \in Key, v \in Payload, SMTT(120)
      <3> QED
        BY <1>4, <1>5, <2>3, <3>5
    <2>4. CASE c.answer # "ok" /\ (ws = <<>> \/ ws = Tree!Relink(Id(k), Count))
      <3>1. Ends(t, c, e) /\ (ws = <<>> \/ ws = relink)
        BY <1>3, <2>4 DEF Ends
      <3>2. CASE ws = <<>>
        BY <1>6, <3>1, <3>2, PlanEmpty
      <3>3. CASE ws = relink /\ next # B!NoLeaf
        <4> DEFINE w == B!To(next, [t[next] EXCEPT !.prev = new])
        <4>1. ws = <<w>> /\ Ends(Put(t, w), c, e)
          BY <2>2, <2>4, <3>3 DEF Ends
        <4>2. Good(t, w, c, e)
          <5>1. w = B!To(next, [t[next] EXCEPT !.prev = new]) /\ new \in B!PageId
            BY <2>1
          <5> HIDE DEF w, new, next
          <5> QED
            BY <1>6, <2>2, <3>3, <5>1, RelinkGood
        <4> HIDE DEF w
        <4> QED
          BY <1>6, <4>1, <4>2, PlanLast
      <3> QED
        BY <3>1, <3>2, <3>3
    <2> QED
      BY <2>3, <2>4
  <1>7. Plan([i \in 1..1 |-> B!To(0, store[0] + i)] \o ws, store, c, e)
    <2>1. 1 \in {1, 2}
      OBVIOUS
    <2> QED
      BY <1>1, <1>6, <2>1, PlanHeaders
  <1> QED
    BY <1>7, CallFacts

-----------------------------------------------------------------------------
\* The invariant.

\* An insert starts with a plan.
LEMMA StartKeeps ==
  ASSUME CrashInv, serving, call = Idle, NEW c \in Call, NEW ws, Plan(ws, store, c, expected),
         pending' = ws, call' = c, UNCHANGED <<store, inFlight, serving, expected, crashes>>
  PROVE  CrashInv'
  <1>1. Safe(store, c, expected) /\ c # Idle /\ inFlight = {}
    BY PlanSafe, IdleAssumption DEF CrashInv
  <1>2. /\ expected' = expected /\ store' = store /\ serving' /\ inFlight' = {}
        /\ pending' = ws /\ call' = c
    BY <1>1
  <1>3. Safe(store', call', expected') /\ Plan(pending', store', call', expected')
    BY <1>1, <1>2
  <1>4. expected' \in [Key -> SUBSET (Payload \union {Absent})]
    BY <1>2 DEF CrashInv
  <1> QED
    BY <1>1, <1>2, <1>3, <1>4 DEF CrashInv

LEMMA InsertKeeps ==
  ASSUME CrashInv, NEW k \in Key, NEW v \in Payload, Insert(k, v)
  PROVE  CrashInv'
  <1> DEFINE C(answer, moved) == [key |-> k, payload |-> v, answer |-> answer, moved |-> moved]
  <1>1. ASSUME NEW answer \in Answer, NEW moved \in Records
        PROVE  /\ C(answer, moved) \in Call /\ C(answer, moved).key = k /\ C(answer, moved).payload = v
               /\ C(answer, moved).answer = answer /\ C(answer, moved).moved = moved
               /\ C(answer, moved) # Idle
    <2> DEFINE c == C(answer, moved)
    <2>1. c \in Call
      BY <1>1 DEF Call
    <2>2. c.key = k /\ c.payload = v /\ c.answer = answer /\ c.moved = moved
      OBVIOUS
    <2> HIDE DEF c
    <2>3. c # Idle
      BY <2>1, IdleAssumption
    <2> QED
      BY <2>1, <2>2, <2>3 DEF c
  <1>2. /\ NoRecords \in Records /\ "ok" \in Answer /\ "error" \in Answer /\ "panic" \in Answer
        /\ Tree!CanSplit(All(k, v)) => Tree!High(All(k, v)) \in Records
    <2>1. NoRecords \in [{} -> Payload] /\ {} \in SUBSET Key
      BY DEF NoRecords
    <2>2. NoRecords \in Records
      BY <2>1 DEF Records
    <2>3. ASSUME Tree!CanSplit(All(k, v)) PROVE Tree!High(All(k, v)) \in Records
      <3> DEFINE all == Cells(store, k, v)
      <3>1. All(k, v) = all /\ Goes(store, k, v, Leaf(store, k), all)
        BY CallFacts, LeafIs DEF CrashInv
      <3>2. B!Records(all) /\ B!LeftHasKey(all)
        BY <2>3, <3>1, SameCells DEF Goes, Tree!CanSplit
      <3> HIDE DEF all
      <3>3. B!Records(B!High(all)) /\ Tree!High(All(k, v)) = B!High(all)
        BY <3>1, <3>2, SameCells, B!SplitFacts
      <3> QED
        BY <3>3 DEF B!Records, Records
    <2> QED
      BY <2>2, <2>3 DEF Answer
  <1>3. call = Idle => \A c : Safe(store, c, expected)
    BY SafeStarts DEF CrashInv
  <1>4. ASSUME NEW n \in {0, 1, 2}, NEW ws, NEW answer \in Answer, NEW moved \in Records,
               Start(k, v, n, ws, answer, moved),
               Plan([i \in 1..n |-> Tree!To(0, Count + i)] \o ws, store, C(answer, moved), expected)
        PROVE  CrashInv'
    <2> DEFINE c == C(answer, moved)
               all == [i \in 1..n |-> Tree!To(0, Count + i)] \o ws
    <2>1. c \in Call
      BY <1>1
    <2>2. /\ serving /\ call = Idle /\ pending' = all /\ call' = c
          /\ UNCHANGED <<store, inFlight, serving, expected, crashes>>
      BY <1>4 DEF Start
    <2>3. Plan(all, store, c, expected)
      BY <1>4
    <2> HIDE DEF c, all, C
    <2> QED
      BY <2>1, <2>2, <2>3, StartKeeps
  <1>5. ASSUME NEW n, NEW ws, NEW answer, NEW moved, Start(k, v, n, ws, answer, moved)
        PROVE  call = Idle
    BY <1>5 DEF Start
  <1>6. CASE StoreInLeaf(k, v)
    <2> DEFINE c == C("ok", NoRecords)
               ws == Tree!StoreWrites(k, v)
    <2>1. Start(k, v, 0, ws, "ok", NoRecords) /\ call = Idle
      BY <1>5, <1>6 DEF StoreInLeaf
    <2>2. Safe(store, c, expected) /\ c # Idle /\ c.key = k /\ c.payload = v
      BY <1>1, <1>2, <1>3, <2>1
    <2> HIDE DEF c, ws
    <2>3. Plan(ws, store, c, expected)
      BY <2>2, StorePlan DEF ws
    <2>4. Plan(<<>> \o ws, store, c, expected)
      BY <2>3, PlanNone
    <2>5. [i \in 1..0 |-> Tree!To(0, Count + i)] = <<>>
      OBVIOUS
    <2>6. Plan([i \in 1..0 |-> Tree!To(0, Count + i)] \o ws, store, c, expected)
      BY <2>4, <2>5
    <2> HIDE DEF C
    <2> QED
      BY <1>2, <1>4, <2>1, <2>6 DEF c
  <1>7. CASE SplitRoot(k, v)
    <2>1. /\ Tree!RootIsFull(k, v)
          /\ \/ /\ Tree!CanSplit(All(k, v))
                /\ Start(k, v, 2, Tree!RootWrites(All(k, v), Count, Count + 1), "ok", NoRecords)
             \/ Start(k, v, 2, <<>>, "panic", NoRecords)
      BY <1>7 DEF SplitRoot
    <2>2. \A answer \in Answer :
            LET c == C(answer, NoRecords)
            IN  Safe(store, c, expected) /\ c # Idle /\ c.key = k /\ c.payload = v /\ c.answer = answer
      BY <1>1, <1>2, <1>3, <1>5, <2>1
    <2>3. CASE /\ Tree!CanSplit(All(k, v))
               /\ Start(k, v, 2, Tree!RootWrites(All(k, v), Count, Count + 1), "ok", NoRecords)
      <3> DEFINE c == C("ok", NoRecords)
                 ws == Tree!RootWrites(All(k, v), Count, Count + 1)
      <3>1. Safe(store, c, expected) /\ c # Idle /\ c.key = k /\ c.payload = v
        BY <1>2, <2>2
      <3> HIDE DEF c, C
      <3>2. Plan([i \in 1..2 |-> Tree!To(0, Count + i)] \o ws, store, c, expected)
        BY <2>1, <2>3, <3>1, RootCase
      <3> HIDE DEF ws
      <3> QED
        BY <1>2, <1>4, <2>3, <3>2 DEF c, ws
    <2>4. CASE Start(k, v, 2, <<>>, "panic", NoRecords)
      <3> DEFINE c == C("panic", NoRecords)
                 ws == <<>>
      <3>1. Safe(store, c, expected) /\ c # Idle /\ c.key = k /\ c.payload = v /\ c.answer = "panic"
        BY <1>2, <2>2
      <3> HIDE DEF c, C
      <3>2. Plan([i \in 1..2 |-> Tree!To(0, Count + i)] \o ws, store, c, expected)
        BY <2>1, <2>4, <3>1, RootCase
      <3> QED
        BY <1>2, <1>4, <2>4, <3>2 DEF c
    <2> QED
      BY <2>1, <2>3, <2>4
  <1>8. ASSUME NEW ws, NEW answer \in Answer, NEW moved \in Records,
               Tree!LeafIsFull(k, v), Start(k, v, 1, ws, answer, moved),
               \/ /\ Tree!CanSplit(All(k, v)) /\ moved = Tree!High(All(k, v))
                  /\ \/ ws = Tree!LeafWrites(Id(k), Count, All(k, v)) /\ answer # "ok"
                     \/ ws = Tree!LeafWrites(Id(k), Count, All(k, v)) \o Tree!ParentWrite(k, All(k, v), Count)
               \/ answer # "ok" /\ (ws = <<>> \/ ws = Tree!Relink(Id(k), Count))
        PROVE  CrashInv'
    <2> DEFINE c == C(answer, moved)
    <2>1. /\ Safe(store, c, expected) /\ c # Idle /\ c.key = k /\ c.payload = v
          /\ c.answer = answer /\ c.moved = moved
      BY <1>1, <1>3, <1>5, <1>8
    <2> HIDE DEF c, C
    <2>2. Plan([i \in 1..1 |-> Tree!To(0, Count + i)] \o ws, store, c, expected)
      BY <1>8, <2>1, LeafCase
    <2> QED
      BY <1>4, <1>8, <2>2 DEF c
  <1>9. CASE SplitLeaf(k, v)
    <2> DEFINE leaves == Tree!LeafWrites(Id(k), Count, All(k, v))
               parent == Tree!ParentWrite(k, All(k, v), Count)
               moved == Tree!High(All(k, v))
    <2>1. PICK read \in SiblingIsRead(k) :
            /\ Tree!LeafIsFull(k, v) /\ Tree!CanSplit(All(k, v))
            /\ IF ~read THEN Start(k, v, 1, <<>>, "error", NoRecords)
               ELSE IF Tree!RoomInParent(store[Tree!ParentOf(k)])
                 THEN Start(k, v, 1, leaves \o parent, "ok", moved)
                 ELSE Start(k, v, 1, leaves, "error", moved)
      BY <1>9 DEF SplitLeaf
    <2> HIDE DEF C
    <2>2. CASE Start(k, v, 1, <<>>, "error", NoRecords)
      BY <1>2, <1>8, <2>1, <2>2
    <2>3. CASE Start(k, v, 1, leaves \o parent, "ok", moved)
      BY <1>2, <1>8, <2>1, <2>3
    <2>4. CASE Start(k, v, 1, leaves, "error", moved)
      BY <1>2, <1>8, <2>1, <2>4
    <2> QED
      BY <2>1, <2>2, <2>3, <2>4
  <1>10. CASE SplitLeafPanics(k, v)
    <2> DEFINE ws == Tree!WritesBeforePanic(k, v)
    <2>1. /\ Tree!LeafIsFull(k, v)
          /\ Start(k, v, 1, <<>>, "error", NoRecords) \/ Start(k, v, 1, ws, "panic", NoRecords)
      BY <1>10 DEF SplitLeafPanics
    <2>2. ws = <<>> \/ ws = Tree!Relink(Id(k), Count)
      BY DEF Tree!WritesBeforePanic, Id, Count
    <2> HIDE DEF C, ws
    <2>3. CASE Start(k, v, 1, <<>>, "error", NoRecords)
      BY <1>2, <1>8, <2>1, <2>3
    <2>4. CASE Start(k, v, 1, ws, "panic", NoRecords)
      BY <1>2, <1>8, <2>1, <2>2, <2>4
    <2> QED
      BY <2>1, <2>3, <2>4
  <1> QED
    BY <1>6, <1>7, <1>9, <1>10 DEF Insert

\* What a reader may take a record to be only grows with an insert that is cut
\* short, and an insert that returns leaves its own payload or none.
LEMMA SafeStops ==
  ASSUME NEW s, NEW c \in Call, NEW e \in [Key -> SUBSET (Payload \union {Absent})], Safe(s, c, e)
  PROVE  /\ Safe(s, Idle, [e EXCEPT ![c.key] = @ \union {c.payload}])
         /\ [e EXCEPT ![c.key] = @ \union {c.payload}] \in [Key -> SUBSET (Payload \union {Absent})]
         /\ Ends(s, c, e) /\ c.answer = "ok" =>
              /\ Safe(s, Idle, [e EXCEPT ![c.key] = {c.payload}])
              /\ [e EXCEPT ![c.key] = {c.payload}] \in [Key -> SUBSET (Payload \union {Absent})]
  <1> DEFINE more == [e EXCEPT ![c.key] = @ \union {c.payload}]
             new == [e EXCEPT ![c.key] = {c.payload}]
  <1>1. c.key \in Key /\ c.payload \in Payload
    BY DEF Call
  <1>2. /\ more \in [Key -> SUBSET (Payload \union {Absent})]
        /\ \A x \in Key : more[x] = IF x = c.key THEN e[x] \union {c.payload} ELSE e[x]
        /\ new \in [Key -> SUBSET (Payload \union {Absent})]
        /\ \A x \in Key : new[x] = IF x = c.key THEN {c.payload} ELSE e[x]
    BY <1>1
  <1> HIDE DEF more, new
  <1>3. \A x \in Key : Vouched(x, B!Found(Pages(s), x), c, e)
    BY DEF Safe
  <1>4. \A x \in Key : Vouched(x, B!Found(Pages(s), x), Idle, more)
    BY <1>2, <1>3 DEF Vouched
  <1>5. ASSUME Ends(s, c, e), c.answer = "ok"
        PROVE  \A x \in Key : Vouched(x, B!Found(Pages(s), x), Idle, new)
    BY <1>2, <1>3, <1>5 DEF Vouched, Ends
  <1>8. c # Idle
    BY IdleAssumption
  <1> DEFINE pg == Pages(s)
             held == Wanted(c, e)
             done == Promised(c, e)
             wantMore == Wanted(Idle, more)
             wantNew == Wanted(Idle, new)
  <1>9. /\ \A x \in Key : Absent \notin wantMore[x] =>
             Absent \notin held[x] /\ held[x] \subseteq wantMore[x]
        /\ \A x \in Key : Absent \notin wantNew[x] =>
             Absent \notin done[x] /\ done[x] \subseteq wantNew[x]
    BY <1>2, <1>8 DEF Wanted, Promised
  <1>10. B!Threaded(pg, held) /\ (Ends(s, c, e) /\ c.answer = "ok" => B!Threaded(pg, done))
    BY DEF Safe, Ends
  <1> HIDE DEF pg, held, done, wantMore, wantNew
  <1>11. B!Threaded(pg, wantMore) /\ (B!Threaded(pg, done) => B!Threaded(pg, wantNew))
    BY <1>9, B!ThreadMore, <1>10
  <1>6. Safe(s, Idle, more)
    BY <1>4, <1>11 DEF Safe, pg, wantMore
  <1>7. Ends(s, c, e) /\ c.answer = "ok" => Safe(s, Idle, new)
    BY <1>5, <1>10, <1>11 DEF Safe, pg, wantNew
  <1> QED
    BY <1>2, <1>6, <1>7 DEF more, new

LEMMA WriteKeeps ==
  ASSUME CrashInv, WritePage
  PROVE  CrashInv'
  <1> DEFINE w == Head(pending)
  <1>1. /\ pending # <<>> /\ serving /\ inFlight = {} /\ inFlight' = {w} /\ pending' = Tail(pending)
        /\ store' = store /\ serving' = serving /\ call' = call /\ expected' = expected
    BY DEF WritePage, Store!BeginWrite
  <1>2. call # Idle /\ call \in Call /\ Plan(pending, store, call, expected)
    BY <1>1 DEF CrashInv
  <1>3. Good(store, w, call, expected) /\ Plan(Tail(pending), Put(store, w), call, expected)
    BY <1>1, <1>2, PlanFirst
  <1>4. Safe(store, call, expected) /\ expected \in [Key -> SUBSET (Payload \union {Absent})]
    BY DEF CrashInv
  <1> HIDE DEF w
  <1>5. /\ Good(store', w, call', expected') /\ Plan(pending', Put(store', w), call', expected')
        /\ Safe(store', call', expected')
    BY <1>1, <1>3, <1>4
  <1> QED
    BY <1>1, <1>2, <1>4, <1>5 DEF CrashInv

\* The write in flight, if there is one.
LEMMA InFlight ==
  ASSUME CrashInv, NEW w \in inFlight
  PROVE  /\ call # Idle /\ call \in Call /\ serving /\ inFlight = {w}
         /\ Store!Applied(w) = Put(store, w)
         /\ Good(store, w, call, expected) /\ Plan(pending, Put(store, w), call, expected)
  BY DEF CrashInv, Store!Applied, Put

LEMMA DoneKeeps ==
  ASSUME CrashInv, WriteDone
  PROVE  CrashInv' /\ call # Idle /\ Changes(store, store', call)
  <1>1. PICK w \in inFlight : store' = Store!Applied(w)
    BY DEF WriteDone, Store!Acknowledge
  <1>2. /\ inFlight' = {} /\ serving' = serving
        /\ pending' = pending /\ call' = call /\ expected' = expected
    BY DEF WriteDone, Store!Acknowledge
  <1>3. /\ call # Idle /\ call \in Call /\ serving /\ store' = Put(store, w)
        /\ Good(store, w, call, expected) /\ Plan(pending, Put(store, w), call, expected)
    BY <1>1, InFlight
  <1>4. Plan(pending', store', call', expected') /\ Safe(store', call', expected')
    BY <1>2, <1>3 DEF Good
  <1>5. expected \in [Key -> SUBSET (Payload \union {Absent})]
    BY DEF CrashInv
  <1> QED
    BY <1>2, <1>3, <1>4, <1>5 DEF CrashInv, Good

LEMMA ReturnKeeps ==
  ASSUME CrashInv, Return
  PROVE  CrashInv'
  <1>1. /\ call # Idle /\ pending = <<>> /\ inFlight = {} /\ call.answer = "ok"
        /\ call' = Idle /\ expected' = [expected EXCEPT ![call.key] = {call.payload}]
        /\ store' = store /\ inFlight' = {} /\ pending' = <<>>
    BY DEF Return, Written
  <1>2. /\ call \in Call /\ Plan(pending, store, call, expected)
        /\ expected \in [Key -> SUBSET (Payload \union {Absent})] /\ Safe(store, call, expected)
    BY <1>1 DEF CrashInv
  <1>3. Ends(store, call, expected)
    BY <1>1, <1>2, PlanSafe
  <1>4. Safe(store', call', expected') /\ expected' \in [Key -> SUBSET (Payload \union {Absent})]
    BY <1>1, <1>2, <1>3, SafeStops
  <1> QED
    BY <1>1, <1>4 DEF CrashInv

LEMMA StopKeeps ==
  ASSUME CrashInv, Stopped
  PROVE  CrashInv' /\ (store' = store \/ (call # Idle /\ Changes(store, store', call)))
  <1>1. /\ inFlight' = {} /\ pending' = <<>> /\ call' = Idle
        /\ store' = store \/ \E w \in inFlight : store' = Store!Applied(w)
        /\ expected' = IF call = Idle THEN expected
                       ELSE [expected EXCEPT ![call.key] = @ \union {call.payload}]
    BY DEF Stopped, Store!Fail
  <1>2. Safe(store, call, expected) /\ expected \in [Key -> SUBSET (Payload \union {Absent})]
    BY DEF CrashInv
  <1>3. CASE call = Idle
    <2>1. inFlight = {} /\ store' = store /\ expected' = expected
      BY <1>1, <1>3 DEF CrashInv
    <2>2. Safe(store', call', expected') /\ expected' \in [Key -> SUBSET (Payload \union {Absent})]
      BY <1>1, <1>2, <1>3, <2>1
    <2> QED
      BY <1>1, <2>1, <2>2 DEF CrashInv
  <1>4. CASE call # Idle
    <2>1. call \in Call
      BY <1>4 DEF CrashInv
    <2>2. \/ store' = store
          \/ Safe(store', call, expected) /\ Changes(store, store', call)
      BY <1>1, InFlight DEF Good
    <2>3. Safe(store', call, expected)
      BY <1>2, <2>2
    <2>4. Safe(store', call', expected') /\ expected' \in [Key -> SUBSET (Payload \union {Absent})]
      BY <1>1, <1>2, <1>4, <2>1, <2>3, SafeStops
    <2> QED
      BY <1>1, <1>4, <2>2, <2>4 DEF CrashInv
  <1> QED
    BY <1>3, <1>4

\* Every step keeps the invariant, and changes what a search finds by the insert
\* in progress alone.
LEMMA CrashInvNext ==
  CrashInv /\ [Next]_vars =>
    CrashInv' /\ (store' = store \/ (call # Idle /\ Changes(store, store', call)))
  <1> SUFFICES ASSUME CrashInv, [Next]_vars
               PROVE  CrashInv' /\ (store' = store \/ (call # Idle /\ Changes(store, store', call)))
    OBVIOUS
  <1>1. ASSUME NEW k \in Key, NEW v \in Payload, Insert(k, v) PROVE CrashInv' /\ store' = store
    <2>1. store' = store
      BY <1>1 DEF Insert, StoreInLeaf, SplitRoot, SplitLeaf, SplitLeafPanics, Start
    <2> QED
      BY <1>1, <2>1, InsertKeeps
  <1>2. CASE WritePage
    BY <1>2, WriteKeeps DEF WritePage, Store!BeginWrite
  <1>3. CASE WriteDone
    BY <1>3, DoneKeeps
  <1>4. CASE Return
    BY <1>4, ReturnKeeps DEF Return
  <1>5. CASE Abort \/ Crash
    BY <1>5, StopKeeps DEF Abort, Crash
  <1>6. CASE Open \/ UNCHANGED vars
    <2>1. /\ store' = store /\ inFlight' = inFlight /\ pending' = pending /\ call' = call
          /\ expected' = expected /\ (serving' \/ serving' = serving)
      BY <1>6 DEF Open, Store!Serve, vars
    <2>2. Safe(store, call, expected) /\ expected \in [Key -> SUBSET (Payload \union {Absent})]
      BY DEF CrashInv
    <2>3. Safe(store', call', expected') /\ expected' \in [Key -> SUBSET (Payload \union {Absent})]
      BY <2>1, <2>2
    <2>4. CASE call = Idle
      <3>1. pending = <<>> /\ inFlight = {}
        BY <2>4 DEF CrashInv
      <3> QED
        BY <2>1, <2>3, <2>4, <3>1 DEF CrashInv
    <2>5. CASE call # Idle /\ inFlight = {}
      <3>1. serving /\ call \in Call /\ Plan(pending, store, call, expected)
        BY <2>5 DEF CrashInv
      <3>2. Plan(pending', store', call', expected') /\ call' # Idle /\ call' \in Call /\ inFlight' = {}
        BY <2>1, <2>5, <3>1
      <3> QED
        BY <2>1, <2>3, <3>1, <3>2 DEF CrashInv
    <2>6. CASE call # Idle /\ inFlight # {}
      <3>1. PICK w \in inFlight : TRUE
        BY <2>6
      <3>2. /\ call # Idle /\ call \in Call /\ serving /\ inFlight = {w}
            /\ Good(store, w, call, expected) /\ Plan(pending, Put(store, w), call, expected)
        BY InFlight
      <3>3. /\ Good(store', w, call', expected') /\ Plan(pending', Put(store', w), call', expected')
            /\ call' # Idle /\ call' \in Call /\ inFlight' = {w}
        BY <2>1, <3>2
      <3> QED
        BY <2>1, <2>3, <3>2, <3>3 DEF CrashInv
    <2> QED
      BY <2>4, <2>5, <2>6
  <1> QED
    BY <1>1, <1>2, <1>3, <1>4, <1>5, <1>6 DEF Next

LEMMA CrashInvInit == Init => CrashInv
  <1> SUFFICES ASSUME Init PROVE CrashInv
    OBVIOUS
  <1> DEFINE fresh(p) == IF p = 0 THEN 2
                         ELSE IF p = Tree!Root THEN Tree!Leaf(<<>>, Tree!NoLeaf, Tree!NoLeaf)
                         ELSE Tree!Unwritten
             pg == Pages(store)
  <1>1. store = [p \in 0..MaxPageId |-> fresh(p)]
    BY DEF Init, Store!StoreInit
  <1>2. /\ IsStore(store) /\ store[0] = 2
        /\ pg = [p \in B!PageId |-> IF p = B!Root THEN B!Leaf(<<>>, B!NoLeaf, B!NoLeaf) ELSE B!Unwritten]
    <2>1. /\ 0 \in 0..MaxPageId /\ \A p \in 1..MaxPageId : p # 0 /\ p \in 0..MaxPageId
      OBVIOUS
    <2>2. IsStore(store) /\ store[0] = 2
      BY <1>1, <2>1 DEF IsStore
    <2>3. \A p \in 1..MaxPageId :
            store[p] = IF p = B!Root THEN B!Leaf(<<>>, B!NoLeaf, B!NoLeaf) ELSE B!Unwritten
      BY <1>1, <2>1, SamePages
    <2> QED
      BY <2>2, <2>3, PageIds DEF Pages
  <1> HIDE DEF pg, fresh
  <1>3. /\ pg[B!Root] = B!Leaf(<<>>, B!NoLeaf, B!NoLeaf)
        /\ \A p \in B!PageId \ {B!Root} : pg[p] = B!Unwritten
        /\ pg = [p \in B!PageId |-> pg[p]]
    BY <1>2, PageIds
  <1>4. /\ B!LeafPage(pg[B!Root]) /\ pg[B!Root].cells = <<>> /\ pg[B!Root].next = B!NoLeaf
        /\ pg[B!Root].type = "leaf" /\ B!Unwritten.type = "free" /\ B!Blank(B!Unwritten)
        /\ DOMAIN <<>> = {}
    <2>1. B!LeafPage(B!Leaf(<<>>, B!NoLeaf, B!NoLeaf))
      BY B!EmptyLeaf
    <2> QED
      BY <1>3, <2>1, B!LeafFacts, B!TreeFacts DEF B!Leaf, B!Blank, B!Unwritten
  <1>5. B!Shape(pg, 2)
    <2>1. \A p \in B!PageId : 2 <= p => p # B!Root
      BY PageIds
    <2> QED
      BY <1>3, <1>4, <2>1 DEF B!Shape, B!Children
  <1>6. \A x \in Key : B!Route(pg, x) = B!Root
    BY <1>4 DEF B!Route
  <1>7. /\ B!HoldsOwn(pg) /\ B!Follows(pg, 2)
        /\ \A x \in Key : B!Found(pg, x) = Absent
    BY <1>3, <1>4, <1>6 DEF B!HoldsOwn, B!Follows, B!Found
  <1>8. call = Idle /\ pending = <<>> /\ inFlight = {} /\ expected = [k \in Key |-> {Absent}]
    BY DEF Init, Store!StoreInit
  <1>9. expected \in [Key -> SUBSET (Payload \union {Absent})]
    BY <1>8
  <1>10. Safe(store, call, expected)
    <2>1. 2 \in 2..MaxPageId + 1
      OBVIOUS
    <2> DEFINE want == Wanted(call, expected)
    <2>2. \A x \in Key : Absent \in want[x]
      BY <1>8 DEF Wanted
    <2> HIDE DEF want
    <2>3. B!Threaded(pg, want)
      BY <1>4, <2>2, B!ThreadOfOne DEF B!LeafAt
    <2> QED
      BY <1>2, <1>5, <1>7, <2>1, <2>3 DEF Safe, Vouched, pg, want
  <1> QED
    BY <1>8, <1>9, <1>10 DEF CrashInv

LEMMA CrashInvAlways == Spec => []CrashInv
  <1>1. CrashInv /\ [Next]_vars => CrashInv'
    BY CrashInvNext
  <1> QED
    BY <1>1, CrashInvInit, PTL DEF Spec

-----------------------------------------------------------------------------
\* What follows.

\* In the middle of a split, after a crash and after a reopening, the descent for
\* every key ends at a leaf: no page gets a route before it is there.
THEOREM SearchAlwaysReachesLeaf == Spec => []SearchReachesLeaf
  <1>1. CrashInv => SearchReachesLeaf
    <2> SUFFICES ASSUME CrashInv, NEW k \in Key PROVE store[Id(k)].type = "leaf"
      BY DEF SearchReachesLeaf
    <2>1. Safe(store, call, expected)
      BY DEF CrashInv
    <2>2. Id(k) = B!Route(Pages(store), k) /\ B!Shape(Pages(store), store[0])
      BY <2>1, SafeReads DEF Safe
    <2>3. B!Route(Pages(store), k) \in B!PageId /\ Pages(store)[B!Route(Pages(store), k)].type = "leaf"
      BY <2>2, B!RouteFacts
    <2> QED
      BY <2>2, <2>3, PageIds
  <1> QED
    BY <1>1, CrashInvAlways, PTL

\* Whatever write of an insert is the last one of the process, the page count
\* recovery reads is above every page that holds something.
THEOREM PagesAreAllocatedFirst == Spec => []AllocatedFirst
  <1>1. CrashInv => AllocatedFirst
    <2> SUFFICES ASSUME CrashInv, NEW p \in 1..MaxPageId, store[p] # Tree!Unwritten PROVE p < Count
      BY DEF AllocatedFirst
    <2>1. /\ store[0] \in 2..MaxPageId + 1 /\ p \in B!PageId /\ Pages(store)[p] = store[p]
          /\ \A q \in B!PageId : store[0] <= q => Pages(store)[q] = B!Unwritten
      BY PageIds DEF CrashInv, Safe, B!Shape
    <2>2. ~(store[0] <= p)
      BY <2>1, SamePages
    <2> QED
      BY <2>1, <2>2 DEF Count
  <1> QED
    BY <1>1, CrashInvAlways, PTL

\* Between two inserts a search finds the latest acknowledged payload, that of an
\* insert a crash cut short, or nothing.
THEOREM NoStaleReadAfterCrash == Spec => []NoStaleRead
  <1>1. CrashInv => NoStaleRead
    <2> SUFFICES ASSUME CrashInv, call = Idle, NEW k \in Key
                 PROVE  Tree!Search(k) \in expected[k] \union {Absent}
      BY DEF NoStaleRead
    <2>1. Safe(store, call, expected)
      BY DEF CrashInv
    <2>2. Tree!Search(k) = B!Found(Pages(store), k) /\ Vouched(k, B!Found(Pages(store), k), call, expected)
      BY <2>1, SafeReads DEF Safe
    <2> QED
      BY <2>2 DEF Vouched
  <1> QED
    BY <1>1, CrashInvAlways, PTL

LEMMA SearchReads == CrashInv => \A k \in Key : Tree!Search(k) = B!Found(Pages(store), k)
  BY SafeReads DEF CrashInv

LEMMA NextSearchReads == (CrashInv => \A k \in Key : Tree!Search(k) = B!Found(Pages(store), k))'
  BY SearchReads, PTL

\* What a search finds changes by the record of the insert in progress or, for the
\* records of the upper half its split moves (tree.rs:172-176), by their going and
\* coming back with the payload they have; a crash, a recovery and the insert
\* leave every other record as it is.
THEOREM CrashChangesByInsert == Spec => SearchChangesByInsert
  <1> DEFINE Change == \A k \in Key :
               Tree!Search(k)' # Tree!Search(k) =>
                 call # Idle /\ MayChange(call, k, Tree!Search(k), Tree!Search(k)')
  <1>1. CrashInv /\ [Next]_vars => [Change]_vars
    <2> SUFFICES ASSUME CrashInv, [Next]_vars, NEW k \in Key, Tree!Search(k)' # Tree!Search(k)
                 PROVE  call # Idle /\ MayChange(call, k, Tree!Search(k), Tree!Search(k)')
      OBVIOUS
    <2>1. CrashInv' /\ (store' = store \/ (call # Idle /\ Changes(store, store', call)))
      BY CrashInvNext
    <2>2. Tree!Search(k) = B!Found(Pages(store), k)
      BY SearchReads
    <2>3. Tree!Search(k)' = B!Found(Pages(store), k)'
      BY <2>1, NextSearchReads
    <2>4. B!Found(Pages(store), k)' = B!Found(Pages(store'), k)
      OBVIOUS
    <2> QED
      BY <2>1, <2>2, <2>3, <2>4 DEF Changes
  <1> QED
    BY <1>1, CrashInvAlways, PTL DEF Spec, SearchChangesByInsert

LEMMA SameChain == Tree!Chain = B!Chain /\ Tree!Leaves = B!Leaves
  <1>1. Tree!LeafOf(Tree!Min(Key)) = B!LeafOf(B!Min(Key))
    BY SameDescent DEF Tree!Min, B!Min
  <1>2. Tree!ChainStep = B!ChainStep
    BY <1>1 DEF Tree!ChainStep, B!ChainStep, Tree!NoLeaf, B!NoLeaf, Pages
  <1> QED
    BY <1>2 DEF Tree!Chain, B!Chain, Tree!Leaves, B!Leaves, Tree!NoLeaf, B!NoLeaf,
                Tree!PageId, B!PageId, Pages

\* The one window in which a crash takes acknowledged records away is that between
\* the two halves of a leaf (tree.rs:187-188): as long as the chain leads to leaves
\* alone, every acknowledged record is in a leaf of it.
THEOREM LossesOnlyInCut == Spec => []LostOnlyInCut
  <1>1. CrashInv => LostOnlyInCut
    <2> SUFFICES ASSUME CrashInv, call = Idle, Tree!Chain \subseteq Tree!Leaves PROVE Tree!LatestInChain
      BY DEF LostOnlyInCut, ChainIsCut
    <2> DEFINE want == Wanted(call, expected)
    <2>1. /\ B!Shape(Pages(store), store[0]) /\ B!Follows(Pages(store), store[0])
          /\ B!Threaded(Pages(store), want) /\ B!Chain \subseteq B!Leaves
      BY SameChain DEF CrashInv, Safe
    <2>2. \A x \in Key : want[x] = expected[x]
      BY DEF Wanted
    <2> HIDE DEF want
    <2>3. \A x \in Key : Absent \notin want[x] => \E p \in B!Chain : B!Has(Pages(store), p, x, want[x])
      BY <2>1, B!ThreadReads
    <2>4. \A x \in Key : Absent \notin expected[x] =>
            \E p \in Tree!Chain : x \in DOMAIN Pages(store)[p].cells /\ Pages(store)[p].cells[x] \in expected[x]
      BY <2>2, <2>3, SameChain DEF B!Has
    <2> QED
      BY <2>4 DEF Tree!LatestInChain, Pages
  <1> QED
    BY <1>1, CrashInvAlways, PTL

===============================================================================
