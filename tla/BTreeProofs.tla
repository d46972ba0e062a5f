------------------------------ MODULE BTreeProofs ------------------------------
(***************************************************************************)
(* Theorems about the tree, for every page size, every number of pages and *)
(* every set of keys and payload lengths: its pages keep their types, a    *)
(* search never returns a superseded record, and the tree is a map as long *)
(* as every leaf has a route.                                              *)
(***************************************************************************)
EXTENDS BTree, LeafCellsProofs, SequenceTheorems, TLAPS

-----------------------------------------------------------------------------
\* The inductive invariant.

\* insert_into_parent never splits a parent, so the root is the only interior
\* page, and the descent takes one step at most.
Route(pg, k) == IF pg[Root].type = "interior" THEN Child(pg[Root], k) ELSE Root

LeafPage(c) ==
  /\ c = Leaf(c.cells, c.next, c.prev)
  /\ DOMAIN c.cells \subseteq Key /\ IsFiniteSet(DOMAIN c.cells)
  /\ c.cells \in [DOMAIN c.cells -> Payload]
  /\ c.next \in PageId \union {NoLeaf} /\ c.prev \in PageId \union {NoLeaf}

Cells == Seq([child : PageId \ {Root}, key : Key])

\* The rightmost child has no other cell: it is the one leaf whose split gives
\* the new leaf a route.
RootNode(c) ==
  /\ c = Interior(c.cells, c.right)
  /\ c.cells \in Cells
  /\ c.right \in PageId \ {Root}
  /\ \A i \in 1..Len(c.cells) : c.cells[i].child # c.right

\* The children of the root are leaves.
Children(pg) ==
  pg[Root].type = "interior" =>
    /\ pg[pg[Root].right].type = "leaf"
    /\ \A i \in 1..Len(pg[Root].cells) : pg[pg[Root].cells[i].child].type = "leaf"

\* A page that holds nothing: never written, or read as zeros and written back
\* with a link.
Blank(c) == c = [type |-> "free", cells |-> <<>>, next |-> NoLeaf, prev |-> c.prev]

Shape(pg, count) ==
  /\ pg = [p \in PageId |-> pg[p]]
  /\ \A p \in PageId : count <= p => pg[p] = Unwritten
  /\ \A p \in PageId \ {Root} : Blank(pg[p]) \/ LeafPage(pg[p])
  /\ LeafPage(pg[Root]) \/ RootNode(pg[Root])
  /\ Children(pg)

Tree(pg, count) ==
  /\ Shape(pg, count)
  /\ \A p \in PageId \ {Root} : pg[p] = Unwritten \/ LeafPage(pg[p])

\* next_leaf leads to another leaf below the root.
Linked(pg) ==
  \A p \in PageId :
    (pg[p].type = "leaf" /\ pg[p].next # NoLeaf) =>
      pg[p].next \notin {p, Root} /\ pg[pg[p].next].type = "leaf"

\* A leaf with a route holds only keys that are routed to it.
HoldsOwn(pg) ==
  \A j, k \in Key : k \in DOMAIN pg[Route(pg, j)].cells => Route(pg, k) = Route(pg, j)

\* The record a search finds is one a reader may take it to be.
Fresh(pg, e) ==
  \A k \in Key : k \in DOMAIN pg[Route(pg, k)].cells => pg[Route(pg, k)].cells[k] \in e[k]

TreeInv ==
  /\ pageCount \in 2..MaxPageId + 1
  /\ reply \in {"none", "new", "updated", "error", "panic"}
  /\ expected \in [Key -> SUBSET (Payload \union {Absent})]
  /\ orphaned \in BOOLEAN
  /\ Tree(pages, pageCount)
  /\ Linked(pages)
  /\ HoldsOwn(pages)
  /\ Fresh(pages, expected)

-----------------------------------------------------------------------------
\* The page numbers, the page types and the sizes.
LEMMA TreeFacts ==
  /\ MaxPageId \in Nat /\ PageId \subseteq Nat /\ Root \in PageId /\ Root = 1
  /\ NoLeaf = 0 /\ NoLeaf \notin PageId /\ Key \subseteq Int
  /\ \A c, n, b : Leaf(c, n, b).type = "leaf"
  /\ \A c, r : Interior(c, r).type = "interior"
  /\ Unwritten.type = "free"
  BY PagesAssumption, KeyAssumption DEF PageId, Root, NoLeaf, Leaf, Interior, Unwritten

\* A set of naturals that is not empty has a smallest member.
LEMMA MinFacts ==
  ASSUME NEW S \in SUBSET Nat, S # {}
  PROVE  Min(S) \in S /\ \A x \in S : Min(S) <= x
  <1>1. PICK m \in S : \A x \in S : ~(<<x, m>> \in OpToRel(<, Nat))
    BY WFMin, NatLessThanWellFounded
  <1>2. \A x \in S : m <= x
    <2> TAKE x \in S
    <2>1. OpToRel(<, Nat) = {ss \in Nat \X Nat : ss[1] < ss[2]}
      BY DEF OpToRel
    <2>2. x \in Nat /\ m \in Nat /\ <<x, m>> \notin {ss \in Nat \X Nat : ss[1] < ss[2]}
      BY <1>1, <2>1, Zenon
    <2> QED
      BY <2>2
  <1> QED
    BY <1>2 DEF Min

-----------------------------------------------------------------------------
\* The split of the keys.

Below(S, x) == {y \in S : y < x}

LEMMA BelowGrows ==
  ASSUME NEW S \in SUBSET Int, IsFiniteSet(S), NEW x \in S, NEW y \in S, x < y
  PROVE  /\ Cardinality(Below(S, x)) \in Nat /\ Cardinality(Below(S, y)) \in Nat
         /\ Cardinality(Below(S, x)) < Cardinality(Below(S, y))
  <1>1. Below(S, x) \in SUBSET Below(S, y) /\ Below(S, y) \in SUBSET S
    <2>1. \A z \in S : z < x => z < y
      OBVIOUS
    <2> QED
      BY <2>1 DEF Below
  <1>2. IsFiniteSet(Below(S, y)) /\ IsFiniteSet(Below(S, x))
    BY <1>1, FS_Subset
  <1>3. Cardinality(Below(S, x)) \in Nat /\ Cardinality(Below(S, y)) \in Nat
    BY <1>2, FS_CardinalityType
  <1>4. Below(S, x) # Below(S, y)
    BY DEF Below
  <1>5. /\ Cardinality(Below(S, x)) <= Cardinality(Below(S, y))
        /\ Cardinality(Below(S, y)) # Cardinality(Below(S, x))
    BY <1>1, <1>2, <1>4, FS_Subset
  <1> QED
    BY <1>3, <1>5

\* A finite set of integers that is not empty has a largest member.
LEMMA MaxFacts ==
  ASSUME NEW S \in SUBSET Int, IsFiniteSet(S), S # {}
  PROVE  Max(S) \in S /\ \A x \in S : x <= Max(S)
  <1> DEFINE n == Cardinality(S)
             Above(x) == n - Cardinality(Below(S, x))
             A == {Above(x) : x \in S}
  <1>1. n \in Nat
    BY FS_CardinalityType
  <1>2. ASSUME NEW x \in S PROVE Cardinality(Below(S, x)) \in Nat /\ Cardinality(Below(S, x)) <= n
    <2>1. Below(S, x) \in SUBSET S
      BY DEF Below
    <2> QED
      BY <2>1, FS_Subset, FS_CardinalityType
  <1>3. A \in SUBSET Nat /\ A # {}
    <2>1. \A x \in S : Above(x) \in Nat
      BY <1>1, <1>2
    <2> HIDE DEF Above
    <2> QED
      BY <2>1
  <1>4. PICK m \in S : Min(A) = Above(m)
    <2> HIDE DEF Above
    <2> QED
      BY <1>3, MinFacts
  <1>5. \A x \in S : Above(m) <= Above(x)
    <2> HIDE DEF Above
    <2> QED
      BY <1>3, <1>4, MinFacts
  <1>6. ASSUME NEW x \in S PROVE x <= m
    <2> SUFFICES ASSUME m < x PROVE FALSE
      OBVIOUS
    <2>1. Cardinality(Below(S, m)) < Cardinality(Below(S, x))
      BY BelowGrows
    <2>2. Above(m) <= Above(x)
      BY <1>5
    <2> QED
      BY <1>1, <1>2, <2>1, <2>2
  <1>7. \A x \in S : m >= x
    BY <1>6
  <1> HIDE DEF A, Above, n
  <1> QED
    BY <1>7 DEF Max

\* The lower half of the keys of a split is below the upper half, and the
\* separator is its largest key.
LEMMA HalvesFacts ==
  ASSUME NEW c, DOMAIN c \subseteq Key, IsFiniteSet(DOMAIN c), LeftHasKey(c)
  PROVE  /\ LowKeys(DOMAIN c) \subseteq DOMAIN c
         /\ Separator(c) \in LowKeys(DOMAIN c)
         /\ \A x \in DOMAIN c : x \in LowKeys(DOMAIN c) <=> x <= Separator(c)
  <1> DEFINE S == DOMAIN c
             L == LowKeys(S)
  <1>1. S \in SUBSET Int /\ L \in SUBSET S /\ L # {}
    BY TreeFacts DEF LowKeys, LeftHasKey
  <1>2. IsFiniteSet(L)
    BY <1>1, FS_Subset
  <1>3. Max(L) \in L /\ \A x \in L : x <= Max(L)
    BY <1>1, <1>2, MaxFacts
  <1>4. ASSUME NEW x \in S, x <= Max(L) PROVE x \in L
    <2>1. CASE x = Max(L)
      BY <1>3, <2>1
    <2>2. CASE x < Max(L)
      <3>1. Cardinality(Below(S, x)) < Cardinality(Below(S, Max(L)))
        BY <1>1, <1>3, <2>2, BelowGrows
      <3>2. Cardinality(Below(S, x)) \in Nat /\ Cardinality(Below(S, Max(L))) \in Nat
        BY <1>1, <1>3, <2>2, BelowGrows
      <3>3. Cardinality(Below(S, Max(L))) < Cardinality(S) \div 2
        BY <1>3 DEF LowKeys, Below
      <3>4. Cardinality(S) \in Nat
        BY FS_CardinalityType
      <3>5. Cardinality(Below(S, x)) < Cardinality(S) \div 2
        BY <3>1, <3>2, <3>3, <3>4
      <3> QED
        BY <3>5 DEF LowKeys, Below
    <2>3. x \in Int /\ Max(L) \in Int
      BY <1>1, <1>3
    <2> QED
      BY <1>4, <2>1, <2>2, <2>3
  <1> QED
    BY <1>1, <1>3, <1>4 DEF Separator

-----------------------------------------------------------------------------
\* The routes of an interior page.

\* The cell a key is routed by: the first whose key is not smaller.
First(cells, k, i) ==
  i \in 1..Len(cells) /\ k <= cells[i].key /\ \A j \in 1..i-1 : cells[j].key < k
Past(cells, k) == \A i \in 1..Len(cells) : cells[i].key < k

LEMMA CellsFacts ==
  ASSUME NEW cells \in Cells
  PROVE  /\ Len(cells) \in Nat
         /\ \A i \in 1..Len(cells) :
              /\ cells[i] \in [child : PageId \ {Root}, key : Key]
              /\ cells[i].child \in PageId \ {Root}
              /\ cells[i].key \in Key /\ cells[i].key \in Int
  <1> DEFINE T == [child : PageId \ {Root}, key : Key]
  <1>1. Len(cells) \in Nat /\ \A i \in 1..Len(cells) : cells[i] \in T
    <2>1. cells \in Seq(T)
      BY DEF Cells
    <2> HIDE DEF T
    <2> QED
      BY <2>1
  <1> QED
    BY <1>1, TreeFacts

LEMMA ChildFacts ==
  ASSUME NEW n, n.cells \in Cells, NEW k \in Key
  PROVE  /\ Past(n.cells, k) \/ \E i \in 1..Len(n.cells) : First(n.cells, k, i)
         /\ Past(n.cells, k) => Child(n, k) = n.right
         /\ \A i : First(n.cells, k, i) => Child(n, k) = n.cells[i].child
  <1> DEFINE hits == {i \in 1..Len(n.cells) : k <= n.cells[i].key}
  <1>1. /\ Len(n.cells) \in Nat /\ k \in Int
        /\ \A i \in 1..Len(n.cells) : n.cells[i].key \in Int
    BY CellsFacts, TreeFacts
  <1>2. Child(n, k) = IF hits = {} THEN n.right ELSE n.cells[Min(hits)].child
    BY DEF Child
  <1>3. hits \in SUBSET Nat
    BY <1>1
  <1>4. Past(n.cells, k) <=> hits = {}
    BY <1>1 DEF Past
  <1>5. ASSUME hits # {} PROVE First(n.cells, k, Min(hits))
    <2>1. Min(hits) \in hits /\ \A x \in hits : Min(hits) <= x
      <3> HIDE DEF hits
      <3> QED
        BY <1>3, <1>5, MinFacts
    <2>2. \A j \in 1..Min(hits)-1 : n.cells[j].key < k
      BY <1>1, <2>1
    <2> QED
      BY <2>1, <2>2 DEF First
  <1>6. ASSUME NEW i, First(n.cells, k, i) PROVE hits # {} /\ i = Min(hits)
    <2>1. i \in hits /\ i \in Nat
      BY <1>6, <1>1 DEF First
    <2>2. First(n.cells, k, Min(hits))
      BY <1>5, <2>1
    <2>3. Min(hits) \in 1..Len(n.cells) /\ k <= n.cells[Min(hits)].key /\ k <= n.cells[i].key
      BY <2>2, <1>6 DEF First
    <2> DEFINE m == Min(hits)
    <2>4. /\ \A j \in 1..m-1 : n.cells[j].key < k
          /\ \A j \in 1..i-1 : n.cells[j].key < k
      BY <1>6, <2>2 DEF First
    <2>5. m \in 1..Len(n.cells) /\ i \in 1..Len(n.cells)
      BY <2>3, <1>6 DEF First
    <2>6. k <= n.cells[m].key /\ k <= n.cells[i].key
      BY <2>3
    <2> HIDE DEF m
    <2>7. ~(m < i) /\ ~(i < m)
      BY <1>1, <2>4, <2>5, <2>6
    <2>8. i = m
      BY <1>1, <2>5, <2>7
    <2> QED
      BY <2>1, <2>8 DEF m
  <1> HIDE DEF hits
  <1>7. Past(n.cells, k) \/ \E i \in 1..Len(n.cells) : First(n.cells, k, i)
    BY <1>4, <1>5 DEF First
  <1> QED
    BY <1>2, <1>4, <1>6, <1>7

\* InsertAt puts one element between the others.
LEMMA InsertAtFacts ==
  ASSUME NEW T, NEW q \in Seq(T), NEW c \in T, NEW t \in 1..Len(q) + 1
  PROVE  /\ InsertAt(q, t, c) \in Seq(T) /\ Len(InsertAt(q, t, c)) = Len(q) + 1
         /\ \A i \in 1..t-1 : InsertAt(q, t, c)[i] = q[i]
         /\ InsertAt(q, t, c)[t] = c
         /\ \A i \in t..Len(q) : InsertAt(q, t, c)[i + 1] = q[i]
  <1> DEFINE n == Len(q)
             s == InsertAt(q, t, c)
             x == SubSeq(q, 1, t - 1)
             y == SubSeq(q, t, n)
             z == x \o <<c>>
  <1>1. n \in Nat /\ t \in Nat
    OBVIOUS
  <1>2. x \in Seq(T) /\ Len(x) = t - 1 /\ \A i \in 1..t-1 : x[i] = q[i]
    OBVIOUS
  <1>3. /\ y \in Seq(T) /\ Len(y) = n - t + 1
        /\ \A i \in 1..n-t+1 : y[i] = q[t + i - 1]
    OBVIOUS
  <1>4. s = z \o y
    BY DEF InsertAt
  <1>5. <<c>> \in Seq(T) /\ Len(<<c>>) = 1 /\ <<c>>[1] = c
    OBVIOUS
  <1> HIDE DEF x, y, s
  <1>6. z \in Seq(T) /\ Len(z) = t /\ z[t] = c /\ \A i \in 1..t-1 : z[i] = q[i]
    BY <1>1, <1>2, <1>5
  <1> HIDE DEF z
  <1>7. s \in Seq(T) /\ Len(s) = n + 1 /\ \A i \in 1..t : s[i] = z[i]
    <2>1. z \o y \in Seq(T)
      BY <1>3, <1>6, ConcatProperties, Zenon
    <2>2. /\ Len(z \o y) = Len(z) + Len(y)
          /\ \A i \in 1..Len(z) + Len(y) :
               (z \o y)[i] = IF i <= Len(z) THEN z[i] ELSE y[i - Len(z)]
      BY <1>3, <1>6, ConcatProperties, Zenon
    <2> QED
      BY <1>1, <1>3, <1>4, <1>6, <2>1, <2>2
  <1>8. ASSUME NEW i \in t..n PROVE s[i + 1] = q[i]
    <2>1. i + 1 - t \in 1..n-t+1 /\ t + (i + 1 - t) - 1 = i
      BY <1>1
    <2>2. s[i + 1] = y[i + 1 - t]
      BY <1>1, <1>3, <1>4, <1>6, <2>1
    <2> QED
      BY <1>3, <2>1, <2>2
  <1>9. s[t] = c /\ \A i \in 1..t-1 : s[i] = q[i]
    BY <1>1, <1>6, <1>7
  <1> QED
    BY <1>7, <1>8, <1>9 DEF s

\* A new cell goes in front of the first cell whose key is not smaller.
LEMMA WithCellFacts ==
  ASSUME NEW cells \in Cells, NEW c \in [child : PageId \ {Root}, key : Key]
  PROVE  /\ WithCell(cells, c) \in Cells
         /\ Len(WithCell(cells, c)) = Len(cells) + 1
         /\ \E s \in 1..Len(cells) + 1 :
              /\ \A j \in 1..s-1 : WithCell(cells, c)[j] = cells[j] /\ cells[j].key < c.key
              /\ WithCell(cells, c)[s] = c
              /\ \A j \in s..Len(cells) : WithCell(cells, c)[j + 1] = cells[j]
              /\ s <= Len(cells) => c.key <= cells[s].key
  <1> DEFINE n == Len(cells)
             notSmaller == {i \in 1..n : cells[i].key >= c.key}
             s == IF notSmaller = {} THEN n + 1 ELSE Min(notSmaller)
             new == InsertAt(cells, s, c)
  <1>1. n \in Nat /\ c.key \in Int /\ \A i \in 1..n : cells[i].key \in Int
    BY CellsFacts, TreeFacts
  <1>2. /\ s \in 1..n + 1 /\ \A j \in 1..s-1 : cells[j].key < c.key
        /\ s <= n => c.key <= cells[s].key
    <2>1. CASE notSmaller = {}
      <3>1. \A j \in 1..n : cells[j].key < c.key
        BY <1>1, <2>1
      <3> QED
        BY <1>1, <2>1, <3>1
    <2>2. CASE notSmaller # {}
      <3>1. notSmaller \in SUBSET Nat
        BY <1>1
      <3>2. Min(notSmaller) \in notSmaller /\ \A x \in notSmaller : Min(notSmaller) <= x
        <4> HIDE DEF notSmaller
        <4> QED
          BY <2>2, <3>1, MinFacts
      <3>3. s = Min(notSmaller)
        BY <2>2
      <3>4. s \in 1..n /\ c.key <= cells[s].key
        BY <1>1, <3>2, <3>3
      <3>5. ASSUME NEW j \in 1..s-1 PROVE cells[j].key < c.key
        <4>1. j \in 1..n /\ j < s
          BY <1>1, <3>4, <3>5
        <4>2. j \notin notSmaller
          BY <3>2, <3>3, <3>4, <4>1
        <4>3. ~(cells[j].key >= c.key)
          BY <4>1, <4>2
        <4> QED
          BY <1>1, <4>1, <4>3
      <3> HIDE DEF s, notSmaller
      <3> QED
        BY <1>1, <3>4, <3>5
    <2> QED
      BY <2>1, <2>2
  <1>3. WithCell(cells, c) = new
    BY DEF WithCell
  <1> HIDE DEF s, notSmaller
  <1>4. cells \in Seq([child : PageId \ {Root}, key : Key])
    BY DEF Cells
  <1>5. /\ new \in Seq([child : PageId \ {Root}, key : Key])
        /\ Len(new) = n + 1
        /\ \A j \in 1..s-1 : new[j] = cells[j]
        /\ new[s] = c
        /\ \A j \in s..n : new[j + 1] = cells[j]
    <2> DEFINE T == [child : PageId \ {Root}, key : Key]
    <2>1. cells \in Seq(T) /\ c \in T /\ s \in 1..Len(cells) + 1
      BY <1>2, <1>4
    <2> HIDE DEF T
    <2>2. /\ new \in Seq(T) /\ Len(new) = n + 1
          /\ \A j \in 1..s-1 : new[j] = cells[j]
          /\ new[s] = c
          /\ \A j \in s..n : new[j + 1] = cells[j]
      BY <2>1, InsertAtFacts
    <2> QED
      BY <2>2 DEF T
  <1> HIDE DEF new
  <1> QED
    BY <1>2, <1>3, <1>5 DEF Cells

\* After a split of the leaf l the parent leads to l for the keys up to the
\* separator, and the keys above it lead to the new leaf if l was the rightmost
\* child; otherwise they still lead to l.
LEMMA WithChildFacts ==
  ASSUME NEW n, RootNode(n), NEW l \in PageId \ {Root}, NEW sep \in Key, Child(n, sep) = l,
         NEW new \in PageId \ {Root}, new # n.right, new # l,
         \A i \in 1..Len(n.cells) : n.cells[i].child # new
  PROVE  LET w == WithChild(n, l, sep, new)
         IN  /\ RootNode(w)
             /\ w.right = IF n.right = l THEN new ELSE n.right
             /\ \A i \in 1..Len(w.cells) :
                  \/ w.cells[i].child = l
                  \/ \E j \in 1..Len(n.cells) : w.cells[i].child = n.cells[j].child
             /\ \A k \in Key :
                  Child(w, k) = IF sep < k /\ n.right = l /\ Child(n, k) = l THEN new ELSE Child(n, k)
  <1> DEFINE c == n.cells
             d == WithCell(n.cells, [child |-> l, key |-> sep])
             w == WithChild(n, l, sep, new)
  <1>1. /\ w = Interior(d, IF n.right = l THEN new ELSE n.right)
        /\ w.cells = d /\ w.right = IF n.right = l THEN new ELSE n.right
    BY DEF WithChild, Interior
  <1>2. /\ c \in Cells /\ n.right \in PageId \ {Root} /\ Len(c) \in Nat
        /\ \A i \in 1..Len(c) : c[i].child # n.right /\ c[i].key \in Int
    BY CellsFacts DEF RootNode
  <1>3. d \in Cells /\ Len(d) = Len(c) + 1
    BY <1>2, WithCellFacts
  <1>4. PICK s \in 1..Len(c) + 1 :
          /\ \A j \in 1..s-1 : d[j] = c[j] /\ c[j].key < sep
          /\ d[s] = [child |-> l, key |-> sep]
          /\ \A j \in s..Len(c) : d[j + 1] = c[j]
          /\ s <= Len(c) => sep <= c[s].key
    <2> DEFINE e == [child |-> l, key |-> sep]
    <2>1. e \in [child : PageId \ {Root}, key : Key] /\ e.key = sep
      OBVIOUS
    <2> HIDE DEF e
    <2>2. \E s \in 1..Len(c) + 1 :
              /\ \A j \in 1..s-1 : WithCell(c, e)[j] = c[j] /\ c[j].key < e.key
              /\ WithCell(c, e)[s] = e
              /\ \A j \in s..Len(c) : WithCell(c, e)[j + 1] = c[j]
              /\ s <= Len(c) => e.key <= c[s].key
      BY <1>2, <2>1, WithCellFacts
    <2> QED
      BY <2>1, <2>2 DEF e
  <1> HIDE DEF w, d
  <1>5. ASSUME NEW i \in 1..Len(d)
        PROVE  d[i].child = l \/ \E j \in 1..Len(c) : d[i].child = c[j].child
    <2>1. CASE i < s
      <3>1. i \in 1..Len(c) /\ d[i] = c[i]
        BY <1>2, <1>3, <1>4, <2>1
      <3> QED
        BY <3>1
    <2>2. CASE i = s
      BY <1>4, <2>2
    <2>3. CASE i > s
      <3>1. i - 1 \in 1..Len(c) /\ d[i - 1 + 1] = c[i - 1] /\ i - 1 + 1 = i
        BY <1>2, <1>3, <1>4, <2>3
      <3> QED
        BY <3>1
    <2> QED
      BY <1>2, <1>3, <2>1, <2>2, <2>3
  <1>6. RootNode(w)
    <2>1. \A i \in 1..Len(d) : d[i].child # w.right
      BY <1>1, <1>2, <1>5
    <2> QED
      BY <1>1, <1>2, <1>3, <2>1 DEF RootNode
  <1>7. ASSUME NEW k \in Key
        PROVE  Child(w, k) = IF sep < k /\ n.right = l /\ Child(n, k) = l THEN new ELSE Child(n, k)
    <2>1. /\ Past(c, k) => Child(n, k) = n.right
          /\ \A i : First(c, k, i) => Child(n, k) = c[i].child
          /\ Past(c, sep) => l = n.right
          /\ \A i : First(c, sep, i) => l = c[i].child
          /\ Past(d, k) => Child(w, k) = w.right
          /\ \A i : First(d, k, i) => Child(w, k) = d[i].child
      BY <1>1, <1>2, <1>3, ChildFacts
    <2>2. k \in Int /\ sep \in Int
      BY TreeFacts
    <2>3. ASSUME NEW i \in 1..Len(c), First(c, k, i), i < s PROVE Child(w, k) = Child(n, k) /\ ~(sep < k)
      <3>1. c[i].key < sep /\ d[i] = c[i] /\ k <= c[i].key /\ \A j \in 1..i-1 : c[j].key < k
        BY <1>2, <1>4, <2>3 DEF First
      <3>2. \A j \in 1..i-1 : d[j] = c[j]
        BY <1>2, <1>4, <2>3
      <3>3. First(d, k, i)
        BY <1>2, <1>3, <2>3, <3>1, <3>2 DEF First
      <3> QED
        BY <1>2, <2>1, <2>2, <2>3, <3>1, <3>3
    <2>4. ASSUME NEW i \in 1..Len(c), First(c, k, i), s <= i, k <= sep PROVE Child(w, k) = Child(n, k)
      <3>1. /\ s \in 1..Len(c) /\ sep <= c[s].key /\ k <= c[s].key
            /\ \A j \in 1..s-1 : c[j].key < k /\ d[j] = c[j] /\ c[j].key < sep
        BY <1>2, <1>4, <2>2, <2>4 DEF First
      <3>2. First(c, sep, s) /\ First(c, k, s)
        BY <3>1 DEF First
      <3>3. First(d, k, s)
        <4>1. s \in 1..Len(d) /\ d[s].key = sep /\ \A j \in 1..s-1 : d[j].key < k
          BY <1>2, <1>3, <1>4, <3>1
        <4> QED
          BY <2>4, <4>1 DEF First
      <3> QED
        BY <1>4, <2>1, <3>2, <3>3
    <2>5. ASSUME Past(c, k), k <= sep PROVE Child(w, k) = Child(n, k)
      <3>1. \A j \in 1..Len(c) : c[j].key < k /\ c[j].key < sep
        BY <1>2, <2>2, <2>5 DEF Past
      <3>2. s = Len(c) + 1
        BY <1>2, <1>4, <2>2, <3>1
      <3>3. First(d, k, s)
        <4>1. s \in 1..Len(d) /\ d[s].key = sep /\ \A j \in 1..s-1 : d[j].key < k
          BY <1>2, <1>3, <1>4, <3>1, <3>2
        <4> QED
          BY <2>5, <4>1 DEF First
      <3>4. Past(c, sep)
        BY <3>1 DEF Past
      <3> QED
        BY <1>4, <2>1, <2>5, <3>3, <3>4
    <2>6. ASSUME NEW i \in 1..Len(c), First(c, k, i), s <= i, sep < k
          PROVE  Child(w, k) = Child(n, k) /\ Child(n, k) # n.right
      <3>1. k <= c[i].key /\ \A j \in 1..i-1 : c[j].key < k
        BY <2>6 DEF First
      <3>2. i + 1 \in 1..Len(d) /\ d[i + 1] = c[i]
        BY <1>2, <1>3, <1>4, <2>6
      <3>3. ASSUME NEW j \in 1..i PROVE d[j].key < k
        <4>1. CASE j < s
          BY <1>2, <1>4, <2>6, <3>1, <4>1, SMTT(30)
        <4>2. CASE j = s
          BY <1>4, <2>6, <4>2
        <4>3. CASE j > s
          <5>1. j - 1 \in s..Len(c) /\ j - 1 \in 1..i-1 /\ j - 1 + 1 = j
            BY <1>2, <1>4, <2>6, <4>3
          <5> QED
            BY <1>4, <3>1, <5>1
        <4> QED
          BY <1>4, <4>1, <4>2, <4>3
      <3>4. First(d, k, i + 1)
        <4>1. i + 1 - 1 = i
          BY <2>6
        <4> QED
          BY <3>1, <3>2, <3>3, <4>1 DEF First
      <3> QED
        BY <1>2, <2>1, <2>6, <3>2, <3>4
    <2>7. ASSUME Past(c, k), sep < k PROVE Child(w, k) = w.right /\ Child(n, k) = n.right
      <3>1. ASSUME NEW j \in 1..Len(d) PROVE d[j].key < k
        <4>1. CASE j < s
          <5>1. j \in 1..s-1 /\ j \in 1..Len(c)
            BY <1>2, <1>3, <1>4, <4>1
          <5> QED
            BY <1>4, <2>7, <5>1 DEF Past
        <4>2. CASE j = s
          BY <1>4, <2>7, <4>2
        <4>3. CASE j > s
          <5>1. j - 1 \in s..Len(c) /\ j - 1 \in 1..Len(c) /\ j - 1 + 1 = j
            BY <1>2, <1>3, <1>4, <4>3
          <5> QED
            BY <1>4, <2>7, <5>1 DEF Past
        <4> QED
          BY <1>4, <4>1, <4>2, <4>3
      <3>2. Past(d, k)
        BY <3>1 DEF Past
      <3> QED
        BY <2>1, <2>7, <3>2
    <2>8. Past(c, k) \/ \E i \in 1..Len(c) : First(c, k, i)
      BY <1>2, ChildFacts
    <2>9. CASE k <= sep
      <3>1. Child(w, k) = Child(n, k)
        BY <1>4, <2>3, <2>4, <2>5, <2>8, <2>9
      <3> QED
        BY <2>2, <2>9, <3>1
    <2>10. CASE sep < k
      <3>1. CASE Past(c, k)
        BY <1>1, <2>7, <2>10, <3>1
      <3>2. CASE \E i \in 1..Len(c) : First(c, k, i)
        <4>1. PICK i \in 1..Len(c) : First(c, k, i)
          BY <3>2
        <4>2. s <= i
          BY <1>4, <2>3, <2>10, <4>1
        <4> QED
          BY <2>6, <2>10, <4>1, <4>2
      <3> QED
        BY <2>8, <3>1, <3>2
    <2> QED
      BY <2>2, <2>9, <2>10
  <1> QED
    BY <1>1, <1>5, <1>6, <1>7 DEF w

-----------------------------------------------------------------------------
\* The descent.

LEMMA TreeShape == \A pg, count : Tree(pg, count) => Shape(pg, count)
  BY DEF Tree

\* What the shape of the tree says of the types of its pages.
LEMMA PageTypes ==
  ASSUME NEW pg, NEW count, Shape(pg, count)
  PROVE  /\ \A p \in PageId : pg[p].type = "leaf" => LeafPage(pg[p]) /\ ~(count <= p)
         /\ \A p \in PageId : LeafPage(pg[p]) => pg[p].type = "leaf"
         /\ \A p \in PageId : pg[p].type = "interior" => p = Root /\ RootNode(pg[p])
         /\ pg[Root].type \in {"leaf", "interior"}
  <1>1. /\ \A c : LeafPage(c) => c.type = "leaf"
        /\ \A c : RootNode(c) => c.type = "interior"
        /\ \A c : Blank(c) => c.type = "free"
    BY TreeFacts DEF LeafPage, RootNode, Blank
  <1> QED
    BY <1>1, TreeFacts DEF Shape

LEMMA RouteFacts ==
  ASSUME NEW pg, NEW count, Shape(pg, count), NEW k \in Key
  PROVE  /\ Route(pg, k) \in PageId /\ pg[Route(pg, k)].type = "leaf"
         /\ LeafPage(pg[Route(pg, k)]) /\ ~(count <= Route(pg, k))
         /\ Route(pg, k) = Root <=> pg[Root].type = "leaf"
  <1>1. CASE pg[Root].type = "interior"
    <2>1. RootNode(pg[Root]) /\ Children(pg)
      BY <1>1, PageTypes, TreeFacts DEF Shape
    <2>2. pg[Root].cells \in Cells
      BY <2>1 DEF RootNode
    <2>3. \/ Child(pg[Root], k) = pg[Root].right
          \/ \E i \in 1..Len(pg[Root].cells) : Child(pg[Root], k) = pg[Root].cells[i].child
      BY <2>2, ChildFacts
    <2>4. Child(pg[Root], k) \in PageId \ {Root} /\ pg[Child(pg[Root], k)].type = "leaf"
      BY <1>1, <2>1, <2>2, <2>3, CellsFacts DEF RootNode, Children
    <2> QED
      BY <1>1, <2>4, PageTypes DEF Route
  <1>2. CASE pg[Root].type = "leaf"
    BY <1>2, PageTypes, TreeFacts DEF Route
  <1> QED
    BY <1>1, <1>2, PageTypes

\* The recursive descent of the code ends where the root leads to.
LEMMA DescentFacts ==
  Shape(pages, pageCount) =>
    \A k \in Key :
      /\ LeafOf(k) = Route(pages, k)
      /\ pages[Root].type = "interior" => ParentOf(k) = Root
  <1> SUFFICES ASSUME Shape(pages, pageCount), NEW k \in Key
               PROVE  /\ LeafOf(k) = Route(pages, k)
                      /\ pages[Root].type = "interior" => ParentOf(k) = Root
    OBVIOUS
  <1> DEFINE In(p) == pages[p].type = "interior"
             Down(f, p) == IF In(p) THEN f[Child(pages[p], k)] ELSE p
             Trail(f, p) == IF In(p) THEN <<p>> \o f[Child(pages[p], k)] ELSE <<>>
  <1>1. \A p \in PageId : In(p) => p = Root
    BY PageTypes
  <1>2. /\ In(Root) => Route(pages, k) = Child(pages[Root], k)
        /\ ~In(Root) => Route(pages, k) = Root
        /\ Route(pages, k) \in PageId /\ ~In(Route(pages, k))
    BY RouteFacts DEF Route
  <1>3. LeafOf(k) = Route(pages, k)
    <2> DEFINE g == [p \in PageId |-> IF In(p) THEN Route(pages, k) ELSE p]
               from == CHOOSE f : f = [p \in PageId |-> Down(f, p)]
    <2>1. \A p \in PageId : g[p] = Down(g, p)
      <3> HIDE DEF In
      <3> QED
        BY <1>1, <1>2
    <2>2. g = [p \in PageId |-> Down(g, p)]
      <3> HIDE DEF Down, In
      <3> QED
        BY <2>1
    <2>3. from = [p \in PageId |-> Down(from, p)]
      <3> HIDE DEF Down, In, g
      <3> QED
        BY <2>2
    <2>4. \A p \in PageId : from[p] = Down(from, p)
      <3> HIDE DEF Down, In, from
      <3> QED
        BY <2>3
    <2>5. LeafOf(k) = from[Root]
      BY DEF LeafOf
    <2> HIDE DEF from, In
    <2> QED
      BY <1>2, <2>4, <2>5, TreeFacts
  <1>4. ASSUME In(Root) PROVE ParentOf(k) = Root
    <2> DEFINE g == [p \in PageId |-> IF In(p) THEN <<p>> \o <<>> ELSE <<>>]
               from == CHOOSE f : f = [p \in PageId |-> Trail(f, p)]
    <2>1. \A p \in PageId : g[p] = Trail(g, p)
      <3> HIDE DEF In
      <3> QED
        BY <1>1, <1>2
    <2>2. g = [p \in PageId |-> Trail(g, p)]
      <3> HIDE DEF Trail, In
      <3> QED
        BY <2>1
    <2>3. from = [p \in PageId |-> Trail(from, p)]
      <3> HIDE DEF Trail, In, g
      <3> QED
        BY <2>2
    <2>4. \A p \in PageId : from[p] = Trail(from, p)
      <3> HIDE DEF Trail, In, from
      <3> QED
        BY <2>3
    <2>5. PathTo(k) = from[Root]
      BY DEF PathTo
    <2>6. from[Root] = <<Root>> \o <<>>
      <3> HIDE DEF from, In
      <3> QED
        BY <1>2, <1>4, <2>4, TreeFacts
    <2>7. PathTo(k) = <<Root>>
      <3>1. <<Root>> \in Seq(PageId)
        BY TreeFacts
      <3> QED
        BY <2>5, <2>6, <3>1, ConcatEmptySeq, Zenon
    <2> QED
      BY <2>7 DEF ParentOf, Last
  <1> QED
    BY <1>3, <1>4

-----------------------------------------------------------------------------
\* The pages after the writes of an insert, each to a page of its own.
LEMMA AfterFacts ==
  ASSUME NEW w, \A a, b \in Range(w) : a.page = b.page => a = b
  PROVE  /\ After(w) = [p \in PageId |-> After(w)[p]]
         /\ \A c \in Range(w) : c.page \in PageId => After(w)[c.page] = c.data
         /\ \A p \in PageId : (\A c \in Range(w) : c.page # p) => After(w)[p] = pages[p]
  <1>1. After(w) = [p \in PageId |-> After(w)[p]]
    BY DEF After
  <1>2. ASSUME NEW c \in Range(w), c.page \in PageId PROVE After(w)[c.page] = c.data
    <2>1. (CHOOSE a \in Range(w) : a.page = c.page) = c
      <3>1. \E a \in Range(w) : a.page = c.page
        OBVIOUS
      <3> DEFINE x == CHOOSE a \in Range(w) : a.page = c.page
      <3>2. x \in Range(w) /\ x.page = c.page
        BY <3>1
      <3> HIDE DEF x
      <3>3. x = c
        BY <3>2
      <3> QED
        BY <3>3 DEF x
    <2> QED
      BY <1>2, <2>1 DEF After
  <1>3. ASSUME NEW p \in PageId, \A c \in Range(w) : c.page # p PROVE After(w)[p] = pages[p]
    BY <1>3 DEF After
  <1> QED
    BY <1>1, <1>2, <1>3

-----------------------------------------------------------------------------
\* Leaves and their records.

\* What a search finds in the pages pg.
Found(pg, k) ==
  IF k \in DOMAIN pg[Route(pg, k)].cells THEN pg[Route(pg, k)].cells[k] ELSE Absent

\* The records of a leaf.
Records(c) == c \in [DOMAIN c -> Payload] /\ DOMAIN c \subseteq Key /\ IsFiniteSet(DOMAIN c)

LEMMA LeafFacts ==
  /\ \A c, n, b : Leaf(c, n, b).cells = c /\ Leaf(c, n, b).next = n /\ Leaf(c, n, b).prev = b
  /\ \A c, n, b :
       Records(c) /\ n \in PageId \union {NoLeaf} /\ b \in PageId \union {NoLeaf}
         => LeafPage(Leaf(c, n, b))
  /\ \A p : LeafPage(p) =>
       /\ Records(p.cells)
       /\ p.next \in PageId \union {NoLeaf} /\ p.prev \in PageId \union {NoLeaf}
       /\ \A c : [p EXCEPT !.cells = c] = Leaf(c, p.next, p.prev)
       /\ \A b : [p EXCEPT !.prev = b] = Leaf(p.cells, p.next, b)
  BY DEF Leaf, LeafPage, Records

LEMMA WithRecordFacts ==
  ASSUME NEW c, Records(c), NEW k \in Key, NEW v \in Payload
  PROVE  /\ Records(WithRecord(c, k, v))
         /\ DOMAIN WithRecord(c, k, v) = DOMAIN c \union {k}
         /\ \A x \in DOMAIN c \union {k} : WithRecord(c, k, v)[x] = IF x = k THEN v ELSE c[x]
  <1>1. IsFiniteSet(DOMAIN c \union {k})
    BY FS_AddElement DEF Records
  <1> QED
    BY <1>1 DEF Records, WithRecord

\* The halves of a split: the records up to the separator, and the others.
LEMMA SplitFacts ==
  ASSUME NEW c, Records(c), LeftHasKey(c)
  PROVE  /\ Separator(c) \in DOMAIN c /\ Separator(c) \in Key
         /\ Records(Low(c)) /\ Records(High(c))
         /\ DOMAIN Low(c) = {x \in DOMAIN c : x <= Separator(c)}
         /\ DOMAIN High(c) = {x \in DOMAIN c : Separator(c) < x}
         /\ \A x \in DOMAIN Low(c) : Low(c)[x] = c[x]
         /\ \A x \in DOMAIN High(c) : High(c)[x] = c[x]
  <1> DEFINE low == LowKeys(DOMAIN c)
             high == DOMAIN c \ low
  <1>1. /\ low \subseteq DOMAIN c /\ Separator(c) \in low
        /\ \A x \in DOMAIN c : x \in low <=> x <= Separator(c)
    BY HalvesFacts DEF Records
  <1>2. \A x \in DOMAIN c : x \in Int
    BY TreeFacts DEF Records
  <1>3. low = {x \in DOMAIN c : x <= Separator(c)} /\ high = {x \in DOMAIN c : Separator(c) < x}
    <2> HIDE DEF low
    <2> QED
      BY <1>1, <1>2
  <1>4. IsFiniteSet(low) /\ IsFiniteSet(high)
    <2> HIDE DEF low
    <2>1. low \in SUBSET DOMAIN c /\ high \in SUBSET DOMAIN c
      BY <1>1
    <2> QED
      BY <2>1, FS_Subset DEF Records
  <1>5. Low(c) = [x \in low |-> c[x]] /\ High(c) = [x \in high |-> c[x]]
    BY DEF Low, High, Restrict
  <1> HIDE DEF low, high
  <1>6. low \subseteq DOMAIN c /\ high \subseteq DOMAIN c
    BY <1>1 DEF high
  <1>7. Records([x \in low |-> c[x]]) /\ Records([x \in high |-> c[x]])
    <2>1. \A x \in DOMAIN c : c[x] \in Payload
      BY DEF Records
    <2>2. ASSUME NEW S, S \subseteq DOMAIN c, IsFiniteSet(S) PROVE Records([x \in S |-> c[x]])
      <3>1. DOMAIN [x \in S |-> c[x]] = S /\ \A x \in S : c[x] \in Payload
        BY <2>1, <2>2
      <3>2. [x \in S |-> c[x]] \in [S -> Payload] /\ S \subseteq Key
        BY <2>2, <3>1 DEF Records
      <3> QED
        BY <2>2, <3>1, <3>2 DEF Records
    <2> QED
      BY <1>4, <1>6, <2>2
  <1> QED
    BY <1>1, <1>3, <1>5, <1>7 DEF Records

-----------------------------------------------------------------------------
\* The leaf for a key, and its records with the new one.
LEMMA CallFacts ==
  ASSUME TreeInv, NEW k \in Key, NEW v \in Payload
  PROVE  /\ LeafOf(k) = Route(pages, k) /\ LeafOf(k) \in PageId /\ ~(pageCount <= LeafOf(k))
         /\ LeafPage(pages[LeafOf(k)]) /\ Records(pages[LeafOf(k)].cells)
         /\ pages[LeafOf(k)].type = "leaf"
         /\ Records(AllCells(k, v))
         /\ DOMAIN AllCells(k, v) = DOMAIN pages[LeafOf(k)].cells \union {k}
         /\ \A x \in DOMAIN AllCells(k, v) :
              AllCells(k, v)[x] = IF x = k THEN v ELSE pages[LeafOf(k)].cells[x]
         /\ LeafOf(k) = Root <=> pages[Root].type = "leaf"
  <1>1. Tree(pages, pageCount)
    BY DEF TreeInv
  <1>2. /\ LeafOf(k) = Route(pages, k) /\ LeafOf(k) \in PageId /\ ~(pageCount <= LeafOf(k))
        /\ LeafPage(pages[LeafOf(k)]) /\ pages[LeafOf(k)].type = "leaf"
        /\ LeafOf(k) = Root <=> pages[Root].type = "leaf"
    BY <1>1, TreeShape, DescentFacts, RouteFacts
  <1>3. Records(pages[LeafOf(k)].cells)
    BY <1>2, LeafFacts
  <1> DEFINE c == pages[LeafOf(k)].cells
             all == WithRecord(c, k, v)
  <1>4. /\ Records(all) /\ DOMAIN all = DOMAIN c \union {k}
        /\ \A x \in DOMAIN c \union {k} : all[x] = IF x = k THEN v ELSE c[x]
    <2> HIDE DEF c
    <2>1. Records(c)
      BY <1>3 DEF c
    <2> QED
      BY <2>1, WithRecordFacts
  <1>5. AllCells(k, v) = all
    BY DEF AllCells
  <1> HIDE DEF all
  <1> QED
    BY <1>2, <1>3, <1>4, <1>5

\* The search of the code finds what Found says.
LEMMA SearchFacts == Shape(pages, pageCount) => \A k \in Key : Search(k) = Found(pages, k)
  BY DescentFacts DEF Search, Found

-----------------------------------------------------------------------------
\* The writes of each case, and the tree they leave.

LEMMA TupleRanges ==
  /\ Range(<<>>) = {}
  /\ \A a : Range(<<a>>) = {a}
  /\ \A a, b : Range(<<a, b>>) = {a, b}
  /\ \A a, b, c : Range(<<a, b, c>>) = {a, b, c}
  <1>1. Range(<<>>) = {}
    BY DEF Range
  <1>2. ASSUME NEW a PROVE Range(<<a>>) = {a}
    <2>1. DOMAIN <<a>> = {1} /\ <<a>>[1] = a
      OBVIOUS
    <2> QED
      BY <2>1 DEF Range
  <1>3. ASSUME NEW a, NEW b PROVE Range(<<a, b>>) = {a, b}
    <2>1. DOMAIN <<a, b>> = {1, 2} /\ <<a, b>>[1] = a /\ <<a, b>>[2] = b
      OBVIOUS
    <2> HIDE DEF Range
    <2> QED
      BY <2>1 DEF Range
  <1>4. ASSUME NEW a, NEW b, NEW c PROVE Range(<<a, b, c>>) = {a, b, c}
    <2>1. DOMAIN <<a, b, c>> = {1, 2, 3}
      OBVIOUS
    <2>2. <<a, b, c>>[1] = a /\ <<a, b, c>>[2] = b /\ <<a, b, c>>[3] = c
      OBVIOUS
    <2> QED
      BY <2>1, <2>2 DEF Range
  <1> QED
    BY <1>1, <1>2, <1>3, <1>4

\* Leaves are added or replaced, and the root keeps its children.
LEMMA TreeBuilt ==
  ASSUME NEW pg, NEW c, Tree(pg, c), NEW pq, pq = [p \in PageId |-> pq[p]],
         NEW d, \A p \in PageId : d <= p => pq[p] = pg[p] /\ c <= p,
         \A p \in PageId \ {Root} : pq[p] = pg[p] \/ LeafPage(pq[p]),
         LeafPage(pq[Root]) \/ RootNode(pq[Root]), Children(pq)
  PROVE  Tree(pq, d)
  BY DEF Tree, Shape

LEMMA StorePages ==
  ASSUME TreeInv, NEW k \in Key, NEW v \in Payload, NEW pq, pq = After(StoreWrites(k, v))
  PROVE  LET id == LeafOf(k)
         IN  /\ pq = [p \in PageId |-> pq[p]]
             /\ pq[id] = Leaf(AllCells(k, v), pages[id].next, pages[id].prev)
             /\ \A p \in PageId : p # id => pq[p] = pages[p]
  <1> DEFINE id == LeafOf(k)
             all == AllCells(k, v)
             new == Leaf(all, pages[id].next, pages[id].prev)
             w == <<To(id, new)>>
  <1>1. id \in PageId /\ LeafPage(pages[id])
    BY CallFacts
  <1>2. StoreWrites(k, v) = w
    BY <1>1, LeafFacts DEF StoreWrites, AllCells
  <1>3. Range(w) = {To(id, new)} /\ To(id, new).page = id /\ To(id, new).data = new
    BY TupleRanges DEF To
  <1> HIDE DEF w, id, new
  <1>4. /\ pq = [p \in PageId |-> pq[p]] /\ pq[id] = new
        /\ \A p \in PageId : p # id => pq[p] = pages[p]
    BY <1>1, <1>2, <1>3, AfterFacts
  <1> QED
    BY <1>4 DEF id, new

LEMMA StoreKeeps ==
  ASSUME TreeInv, NEW k \in Key, NEW v \in Payload, NEW pq, pq = After(StoreWrites(k, v))
  PROVE  /\ Tree(pq, pageCount) /\ Linked(pq) /\ HoldsOwn(pq)
         /\ \A x \in Key : Found(pq, x) = IF x = k THEN v ELSE Found(pages, x)
         /\ \A x \in Key : Route(pq, x) = Route(pages, x)
  <1> DEFINE id == LeafOf(k)
             all == AllCells(k, v)
             new == Leaf(all, pages[id].next, pages[id].prev)
  <1>1. /\ id = Route(pages, k) /\ id \in PageId /\ ~(pageCount <= id)
        /\ LeafPage(pages[id]) /\ pages[id].type = "leaf"
        /\ Records(all) /\ DOMAIN all = DOMAIN pages[id].cells \union {k}
        /\ \A x \in DOMAIN all : all[x] = IF x = k THEN v ELSE pages[id].cells[x]
        /\ id = Root <=> pages[Root].type = "leaf"
    BY CallFacts
  <1>2. Tree(pages, pageCount) /\ Linked(pages) /\ HoldsOwn(pages)
    BY DEF TreeInv
  <1>3. LeafPage(new) /\ new.cells = all /\ new.next = pages[id].next /\ new.type = "leaf"
    BY <1>1, LeafFacts, TreeFacts
  <1>5. /\ pq = [p \in PageId |-> pq[p]] /\ pq[id] = new
        /\ \A p \in PageId : p # id => pq[p] = pages[p]
    BY StorePages
  <1> HIDE DEF new, all, id
  <1>6. \A p \in PageId : pq[p].type = pages[p].type /\ (pq[p].type = "leaf" => pq[p].next = pages[p].next)
    BY <1>1, <1>3, <1>5
  <1>7. pq[Root] = pages[Root] \/ (id = Root /\ LeafPage(pq[Root]))
    BY <1>3, <1>5, TreeFacts
  <1>8. ASSUME NEW x \in Key PROVE Route(pq, x) = Route(pages, x)
    <2>1. CASE pq[Root] = pages[Root]
      BY <2>1 DEF Route
    <2>2. CASE id = Root
      BY <1>1, <1>6, <2>2, TreeFacts DEF Route
    <2> QED
      BY <1>7, <2>1, <2>2
  <1>9. Tree(pq, pageCount)
    <2>1. LeafPage(pq[Root]) \/ RootNode(pq[Root])
      BY <1>2, <1>7 DEF Tree, Shape
    <2>2. Children(pq)
      <3> SUFFICES ASSUME pq[Root].type = "interior" PROVE Children(pq)
        BY DEF Children
      <3>1. pq[Root] = pages[Root] /\ pages[Root].type = "interior"
        BY <1>1, <1>6, <1>7, TreeFacts
      <3>2. RootNode(pages[Root]) /\ Children(pages)
        BY <1>2, <3>1, TreeShape, PageTypes, TreeFacts DEF Tree, Shape
      <3>3. \A i \in 1..Len(pages[Root].cells) : pages[Root].cells[i].child \in PageId
        BY <3>2, CellsFacts DEF RootNode
      <3> QED
        BY <1>6, <3>1, <3>2, <3>3 DEF Children, RootNode
    <2>3. \A p \in PageId \ {Root} : pq[p] = pages[p] \/ LeafPage(pq[p])
      BY <1>3, <1>5
    <2>4. \A p \in PageId : pageCount <= p => pq[p] = pages[p] /\ pageCount <= p
      BY <1>1, <1>5
    <2> QED
      BY <1>2, <1>5, <2>1, <2>2, <2>3, <2>4, TreeBuilt
  <1>10. Linked(pq)
    <2>1. \A p \in PageId : pages[p].type = "leaf" => pages[p].next \in PageId \union {NoLeaf}
      BY <1>2, TreeShape, PageTypes, LeafFacts
    <2> QED
      BY <1>2, <1>6, <2>1 DEF Linked
  <1>11. \A x \in Key : Route(pages, x) \in PageId
    BY <1>2, TreeShape, RouteFacts
  <1>12. HoldsOwn(pq)
    <2> SUFFICES ASSUME NEW j \in Key, NEW x \in Key, x \in DOMAIN pq[Route(pq, j)].cells
                 PROVE  Route(pq, x) = Route(pq, j)
      BY DEF HoldsOwn
    <2>1. (x = k /\ Route(pages, j) = id) \/ x \in DOMAIN pages[Route(pages, j)].cells
      BY <1>1, <1>3, <1>5, <1>8, <1>11
    <2> QED
      BY <1>1, <1>2, <1>8, <2>1 DEF HoldsOwn
  <1>13. ASSUME NEW x \in Key PROVE Found(pq, x) = IF x = k THEN v ELSE Found(pages, x)
    <2>1. CASE Route(pages, x) = id
      BY <1>1, <1>3, <1>5, <1>8, <2>1 DEF Found
    <2>2. CASE Route(pages, x) # id
      BY <1>1, <1>5, <1>8, <1>11, <2>2 DEF Found
    <2> QED
      BY <2>1, <2>2
  <1> QED
    BY <1>8, <1>9, <1>10, <1>12, <1>13

LEMMA RootPages ==
  ASSUME TreeInv, NEW k \in Key, NEW v \in Payload, RootIsFull(k, v),
         NEW pq, pq = After(RootWrites(AllCells(k, v), pageCount, pageCount + 1))
  PROVE  LET all == AllCells(k, v)
             left == pageCount
             right == pageCount + 1
         IN  /\ left \in PageId \ {Root} /\ right \in PageId \ {Root, left}
             /\ pq = [p \in PageId |-> pq[p]]
             /\ pq[left] = Leaf(Low(all), right, NoLeaf)
             /\ pq[right] = Leaf(High(all), NoLeaf, left)
             /\ pq[Root] = Interior(<<[child |-> left, key |-> Separator(all)]>>, right)
             /\ \A p \in PageId \ {left, right, Root} : pq[p] = pages[p]
  <1> DEFINE all == AllCells(k, v)
             left == pageCount
             right == pageCount + 1
             low == Leaf(Low(all), right, NoLeaf)
             high == Leaf(High(all), NoLeaf, left)
             root == Interior(<<[child |-> left, key |-> Separator(all)]>>, right)
  <1>2. left \in PageId \ {Root} /\ right \in PageId \ {Root} /\ left # right
    BY TreeFacts DEF TreeInv, RootIsFull, PageId
  <1>8. /\ pq = [p \in PageId |-> pq[p]]
        /\ pq[left] = low /\ pq[right] = high /\ pq[Root] = root
        /\ \A p \in PageId \ {left, right, Root} : pq[p] = pages[p]
    <2> DEFINE w == <<To(left, low), To(right, high), To(Root, root)>>
    <2>1. w = RootWrites(AllCells(k, v), pageCount, pageCount + 1)
      BY DEF RootWrites
    <2> HIDE DEF left, right, low, high, root
    <2>2. Range(w) = {To(left, low), To(right, high), To(Root, root)}
      BY TupleRanges
    <2>3. \A p, d : To(p, d).page = p /\ To(p, d).data = d
      BY DEF To
    <2> HIDE DEF w
    <2>4. \A a, b \in Range(w) : a.page = b.page => a = b
      BY <1>2, <2>2, <2>3
    <2>5. pq = After(w)
      BY <2>1
    <2>6. To(left, low) \in Range(w) /\ To(right, high) \in Range(w) /\ To(Root, root) \in Range(w)
      BY <2>2
    <2>7. pq = [p \in PageId |-> pq[p]]
      BY <2>4, <2>5, AfterFacts
    <2>8. \A c \in Range(w) : c.page \in PageId => pq[c.page] = c.data
      BY <2>4, <2>5, AfterFacts
    <2>9. \A p \in PageId : (\A c \in Range(w) : c.page # p) => pq[p] = pages[p]
      BY <2>4, <2>5, AfterFacts
    <2>10. pq[left] = low /\ pq[right] = high /\ pq[Root] = root
      BY <1>2, <2>3, <2>6, <2>8, TreeFacts
    <2>11. \A p \in PageId \ {left, right, Root} : pq[p] = pages[p]
      BY <2>2, <2>3, <2>9
    <2> QED
      BY <2>7, <2>10, <2>11
  <1> QED
    BY <1>2, <1>8

LEMMA RootSplitKeeps ==
  ASSUME TreeInv, NEW k \in Key, NEW v \in Payload, RootIsFull(k, v), LeftHasKey(AllCells(k, v)),
         NEW pq, pq = After(RootWrites(AllCells(k, v), pageCount, pageCount + 1))
  PROVE  /\ Tree(pq, pageCount + 2) /\ Linked(pq) /\ HoldsOwn(pq)
         /\ \A x \in Key : Found(pq, x) = IF x = k THEN v ELSE Found(pages, x)
         /\ \A x \in Key : Route(pq, x) = IF Separator(AllCells(k, v)) < x THEN pageCount + 1
                                          ELSE pageCount
  <1> DEFINE all == AllCells(k, v)
             left == pageCount
             right == pageCount + 1
             sep == Separator(all)
             low == Leaf(Low(all), right, NoLeaf)
             high == Leaf(High(all), NoLeaf, left)
             cells == <<[child |-> left, key |-> sep]>>
             root == Interior(cells, right)
  <1>1. /\ LeafOf(k) = Root /\ pages[Root].type = "leaf" /\ LeafPage(pages[Root])
        /\ Records(all) /\ DOMAIN all = DOMAIN pages[Root].cells \union {k}
        /\ \A x \in DOMAIN all : all[x] = IF x = k THEN v ELSE pages[Root].cells[x]
    <2>1. LeafOf(k) = Root
      BY DEF RootIsFull
    <2> HIDE DEF all
    <2>2. /\ LeafPage(pages[LeafOf(k)]) /\ pages[LeafOf(k)].type = "leaf"
          /\ Records(all) /\ DOMAIN all = DOMAIN pages[LeafOf(k)].cells \union {k}
          /\ \A x \in DOMAIN all : all[x] = IF x = k THEN v ELSE pages[LeafOf(k)].cells[x]
      BY CallFacts DEF all
    <2> QED
      BY <2>1, <2>2
  <1>2. /\ Tree(pages, pageCount) /\ Linked(pages) /\ HoldsOwn(pages)
        /\ left \in PageId \ {Root} /\ right \in PageId \ {Root} /\ left # right
        /\ pageCount \in Nat /\ NoLeaf # left /\ NoLeaf # right
    BY TreeFacts DEF TreeInv, RootIsFull, PageId
  <1>3. /\ sep \in DOMAIN all /\ sep \in Key /\ Records(Low(all)) /\ Records(High(all))
        /\ DOMAIN Low(all) = {x \in DOMAIN all : x <= sep}
        /\ DOMAIN High(all) = {x \in DOMAIN all : sep < x}
        /\ \A x \in DOMAIN Low(all) : Low(all)[x] = all[x]
        /\ \A x \in DOMAIN High(all) : High(all)[x] = all[x]
    BY <1>1, SplitFacts
  <1>4. /\ low.cells = Low(all) /\ low.next = right /\ low.type = "leaf" /\ LeafPage(low)
        /\ high.cells = High(all) /\ high.next = NoLeaf /\ high.type = "leaf" /\ LeafPage(high)
    <2> HIDE DEF left, right, all
    <2> QED
      BY <1>2, <1>3, LeafFacts, TreeFacts
  <1>5. root.cells = cells /\ root.right = right /\ root.type = "interior"
    BY DEF Interior
  <1>6. cells \in Cells /\ Len(cells) = 1 /\ cells[1].child = left /\ cells[1].key = sep
    <2>1. [child |-> left, key |-> sep] \in [child : PageId \ {Root}, key : Key]
      BY <1>2, <1>3
    <2> QED
      BY <2>1 DEF Cells
  <1>7. RootNode(root)
    <2> HIDE DEF cells, left, right
    <2> QED
      BY <1>2, <1>5, <1>6 DEF RootNode
  <1>8. /\ pq = [p \in PageId |-> pq[p]]
        /\ pq[left] = low /\ pq[right] = high /\ pq[Root] = root
        /\ \A p \in PageId \ {left, right, Root} : pq[p] = pages[p]
    BY RootPages
  <1> HIDE DEF low, high, root, cells
  <1>9. Children(pq)
    <2>1. \A i \in 1..Len(cells) : i = 1
      BY <1>6
    <2> QED
      BY <1>4, <1>5, <1>6, <1>8, <2>1 DEF Children
  <1>10. Tree(pq, pageCount + 2)
    <2>1. \A p \in PageId \ {Root} : pq[p] = pages[p] \/ LeafPage(pq[p])
      BY <1>4, <1>8
    <2>2. \A p \in PageId : pageCount + 2 <= p => pq[p] = pages[p] /\ pageCount <= p
      BY <1>2, <1>8, TreeFacts
    <2> QED
      BY <1>2, <1>7, <1>8, <1>9, <2>1, <2>2, TreeBuilt
  <1>11. ASSUME NEW x \in Key
         PROVE  /\ Route(pages, x) = Root
                /\ Route(pq, x) = IF sep < x THEN right ELSE left
    <2>1. Route(pages, x) = Root /\ Route(pq, x) = Child(root, x)
      BY <1>1, <1>5, <1>8 DEF Route
    <2>2. /\ Past(cells, x) => Child(root, x) = right
          /\ \A i : First(cells, x, i) => Child(root, x) = cells[i].child
      BY <1>5, <1>6, ChildFacts
    <2>3. x \in Int /\ sep \in Int
      BY <1>3, TreeFacts
    <2>4. CASE sep < x
      <3>1. Past(cells, x)
        BY <1>6, <2>4 DEF Past
      <3> QED
        BY <2>1, <2>2, <2>4, <3>1
    <2>5. CASE x <= sep
      <3>1. First(cells, x, 1)
        BY <1>6, <2>5 DEF First
      <3> QED
        BY <1>6, <2>1, <2>2, <2>3, <2>5, <3>1
    <2> QED
      BY <2>3, <2>4, <2>5
  <1> HIDE DEF left, right, sep, all
  <1>12. Linked(pq)
    <2> SUFFICES ASSUME NEW p \in PageId, pq[p].type = "leaf", pq[p].next # NoLeaf
                 PROVE  pq[p].next \notin {p, Root} /\ pq[pq[p].next].type = "leaf"
      BY DEF Linked
    <2>1. CASE p \in {left, right, Root}
      BY <1>2, <1>4, <1>5, <1>8, <2>1, TreeFacts
    <2>2. CASE p \notin {left, right, Root}
      <3>2. LeafPage(pages[p]) /\ pages[p].next \in PageId
        BY <1>2, <1>8, <2>2, TreeShape, PageTypes, LeafFacts
      <3>3. pages[p].next \notin {p, Root} /\ pages[pages[p].next].type = "leaf"
        BY <1>2, <1>8, <2>2 DEF Linked
      <3>4. pages[p].next \notin {left, right}
        BY <1>2, <3>2, <3>3, TreeFacts DEF left, right, Tree, Shape
      <3> QED
        BY <1>8, <2>2, <3>2, <3>3, <3>4
    <2> QED
      BY <2>1, <2>2
  <1>13. HoldsOwn(pq)
    BY <1>3, <1>4, <1>8, <1>11, TreeFacts DEF HoldsOwn
  <1>14. ASSUME NEW x \in Key PROVE Found(pq, x) = IF x = k THEN v ELSE Found(pages, x)
    <2>1. x \in Int /\ sep \in Int
      BY <1>3, TreeFacts
    <2>2. Found(pq, x) = IF x \in DOMAIN all THEN all[x] ELSE Absent
      BY <1>3, <1>4, <1>8, <1>11, <2>1 DEF Found
    <2> QED
      BY <1>1, <1>11, <2>2 DEF Found
  <1>15. \A x \in Key : Route(pq, x) = IF sep < x THEN right ELSE left
    BY <1>11
  <1> QED
    BY <1>10, <1>12, <1>13, <1>14, <1>15 DEF all, sep, left, right

\* The pages of a leaf split: the next sibling, the two halves, and the parent if
\* it has room.
SplitWrites(k, v, parent) ==
  LET leaves == LeafWrites(LeafOf(k), pageCount, AllCells(k, v))
  IN  IF parent THEN leaves \o ParentWrite(k, AllCells(k, v), pageCount) ELSE leaves

\* The next sibling of a leaf with a parent is a third page.
LEMMA SiblingFacts ==
  ASSUME TreeInv, NEW k \in Key, NEW v \in Payload, LeafIsFull(k, v)
  PROVE  LET id == LeafOf(k)
             next == pages[id].next
         IN  /\ id \in PageId \ {Root} /\ pageCount \in PageId \ {Root, id}
             /\ pages[Root].type = "interior" /\ RootNode(pages[Root])
             /\ pages[pageCount] = Unwritten
             /\ next # NoLeaf =>
                  /\ next \in PageId \ {Root, id, pageCount}
                  /\ pages[next].type = "leaf" /\ LeafPage(pages[next])
  <1> DEFINE id == LeafOf(k)
             next == pages[id].next
  <1>1. /\ id \in PageId /\ ~(pageCount <= id) /\ LeafPage(pages[id]) /\ pages[id].type = "leaf"
        /\ id = Root <=> pages[Root].type = "leaf"
    BY CallFacts
  <1>2. Tree(pages, pageCount) /\ Linked(pages) /\ pageCount \in 2..MaxPageId + 1
    BY DEF TreeInv
  <1>3. id # Root /\ pageCount <= MaxPageId
    BY DEF LeafIsFull
  <1> HIDE DEF id
  <1>4. pageCount \in PageId /\ pageCount # Root /\ pageCount # id
    BY <1>1, <1>2, <1>3, TreeFacts DEF PageId
  <1>5. pages[pageCount] = Unwritten
    BY <1>2, <1>4, TreeFacts DEF Tree, Shape
  <1>6. pages[Root].type = "interior" /\ RootNode(pages[Root])
    BY <1>1, <1>2, <1>3, TreeShape, PageTypes, TreeFacts
  <1>7. ASSUME next # NoLeaf
        PROVE  /\ next \in PageId \ {Root, id, pageCount}
               /\ pages[next].type = "leaf" /\ LeafPage(pages[next])
    <2>1. next \in PageId
      BY <1>1, <1>7, LeafFacts
    <2>2. next \notin {id, Root} /\ pages[next].type = "leaf"
      BY <1>1, <1>2, <1>7 DEF Linked
    <2>3. next # pageCount
      BY <1>5, <2>2, TreeFacts
    <2> QED
      BY <1>2, <2>1, <2>2, <2>3, TreeShape, PageTypes
  <1> QED
    BY <1>1, <1>3, <1>4, <1>5, <1>6, <1>7 DEF id

LEMMA SplitPages ==
  ASSUME TreeInv, NEW k \in Key, NEW v \in Payload, LeafIsFull(k, v),
         NEW parent \in BOOLEAN, NEW pq, pq = After(SplitWrites(k, v, parent))
  PROVE  LET id == LeafOf(k)
             all == AllCells(k, v)
             next == pages[id].next
         IN  /\ pq = [p \in PageId |-> pq[p]]
             /\ pq[id] = Leaf(Low(all), pageCount, pages[id].prev)
             /\ pq[pageCount] = Leaf(High(all), next, id)
             /\ next # NoLeaf => pq[next] = Leaf(pages[next].cells, pages[next].next, pageCount)
             /\ pq[Root] = IF parent THEN WithChild(pages[Root], id, Separator(all), pageCount)
                           ELSE pages[Root]
             /\ \A p \in PageId \ {id, pageCount, next, Root} : pq[p] = pages[p]
  <1> DEFINE id == LeafOf(k)
             new == pageCount
             all == AllCells(k, v)
             next == pages[id].next
             left == To(id, Leaf(Low(all), new, pages[id].prev))
             right == To(new, Leaf(High(all), next, id))
             sibling == To(next, [pages[next] EXCEPT !.prev = new])
             above == To(Root, WithChild(pages[Root], id, Separator(all), new))
             w == SplitWrites(k, v, parent)
             Written == (IF next = NoLeaf THEN {} ELSE {sibling}) \union {left, right}
                          \union (IF parent THEN {above} ELSE {})
  <1>1. /\ id \in PageId \ {Root} /\ new \in PageId \ {Root, id}
        /\ pages[Root].type = "interior"
        /\ next # NoLeaf => next \in PageId \ {Root, id, new} /\ LeafPage(pages[next])
    BY SiblingFacts
  <1>2. ParentOf(k) = Root
    BY <1>1, TreeShape, DescentFacts DEF TreeInv
  <1>3. Range(w) = Written
    <2> DEFINE r == IF next = NoLeaf THEN <<>> ELSE <<sibling>>
               h == <<left, right>>
               a == <<above>>
    <2>1. LeafWrites(id, new, all) = r \o h
      BY DEF LeafWrites, Relink, Halves
    <2>2. ParentWrite(k, all, new) = a
      BY <1>2 DEF ParentWrite
    <2>3. w = IF parent THEN (r \o h) \o a ELSE r \o h
      BY <2>1, <2>2 DEF SplitWrites
    <2> DEFINE T == {left, right, sibling, above}
    <2> HIDE DEF left, right, sibling, above, w, id, new, all, next
    <2>4. r \in Seq(T) /\ h \in Seq(T) /\ a \in Seq(T)
      <3>1. left \in T /\ right \in T /\ sibling \in T /\ above \in T
        OBVIOUS
      <3> HIDE DEF T
      <3>2. <<>> \in Seq(T) /\ <<sibling>> \in Seq(T)
        BY <3>1
      <3>3. h \in Seq(T)
        BY <3>1
      <3>4. a \in Seq(T)
        BY <3>1
      <3> QED
        BY <3>2, <3>3, <3>4
    <2>5. /\ Range(r) = IF next = NoLeaf THEN {} ELSE {sibling}
          /\ Range(h) = {left, right} /\ Range(a) = {above}
      BY TupleRanges
    <2> HIDE DEF T, r, h, a
    <2>6. r \o h \in Seq(T) /\ Range(r \o h) = Range(r) \union Range(h)
      BY <2>4, RangeConcatenation, ConcatProperties, ZenonT(30)
    <2>7. Range((r \o h) \o a) = Range(r \o h) \union Range(a)
      <3> DEFINE rh == r \o h
      <3>1. rh \in Seq(T)
        BY <2>6
      <3> HIDE DEF rh
      <3>2. Range(rh \o a) = Range(rh) \union Range(a)
        BY <2>4, <3>1, RangeConcatenation, ZenonT(30)
      <3> QED
        BY <3>2 DEF rh
    <2>8. CASE parent
      BY <2>3, <2>5, <2>6, <2>7, <2>8
    <2>9. CASE ~parent
      BY <2>3, <2>5, <2>6, <2>9
    <2> QED
      BY <2>8, <2>9
  <1>4. \A p, d : To(p, d).page = p /\ To(p, d).data = d
    BY DEF To
  <1> HIDE DEF w
  <1>5. \A a, b \in Range(w) : a.page = b.page => a = b
    <2>1. /\ left.page = id /\ right.page = new /\ sibling.page = next /\ above.page = Root
      BY <1>4
    <2> HIDE DEF left, right, sibling, above, id, new, next
    <2> QED
      BY <1>1, <1>3, <2>1
  <1>6. /\ pq = [p \in PageId |-> pq[p]]
        /\ \A c \in Range(w) : c.page \in PageId => pq[c.page] = c.data
        /\ \A p \in PageId : (\A c \in Range(w) : c.page # p) => pq[p] = pages[p]
    <2>1. pq = After(w)
      BY DEF w
    <2> QED
      BY <1>5, <2>1, AfterFacts
  <1>7. /\ pq[id] = Leaf(Low(all), new, pages[id].prev)
        /\ pq[new] = Leaf(High(all), next, id)
    <2>1. left \in Range(w) /\ right \in Range(w)
      BY <1>3
    <2> HIDE DEF id, new, next, all
    <2> QED
      BY <1>1, <1>4, <1>6, <2>1
  <1>8. next # NoLeaf => pq[next] = Leaf(pages[next].cells, pages[next].next, new)
    <2> SUFFICES ASSUME next # NoLeaf PROVE pq[next] = Leaf(pages[next].cells, pages[next].next, new)
      OBVIOUS
    <2>1. sibling \in Range(w)
      BY <1>3
    <2> HIDE DEF id, new, next
    <2>2. pq[next] = [pages[next] EXCEPT !.prev = new]
      BY <1>1, <1>4, <1>6, <2>1
    <2> QED
      BY <1>1, <2>2, LeafFacts
  <1>9. pq[Root] = IF parent THEN WithChild(pages[Root], id, Separator(all), new) ELSE pages[Root]
    <2> DEFINE above2 == WithChild(pages[Root], id, Separator(all), new)
    <2>1. CASE parent
      <3>1. above \in Range(w)
        BY <1>3, <2>1
      <3> HIDE DEF above2
      <3>2. above = To(Root, above2)
        BY DEF above2
      <3> HIDE DEF above
      <3>3. pq[Root] = above2
        BY <1>4, <1>6, <3>1, <3>2, TreeFacts
      <3> QED
        BY <2>1, <3>3 DEF above2
    <2>2. CASE ~parent
      <3>1. Range(w) = (IF next = NoLeaf THEN {} ELSE {sibling}) \union {left, right}
        BY <1>3, <2>2
      <3>2. /\ left.page = id /\ right.page = new /\ sibling.page = next
        BY <1>4
      <3> HIDE DEF left, right, sibling, id, new, next
      <3>3. \A c \in Range(w) : c.page # Root
        BY <1>1, <3>1, <3>2
      <3> QED
        BY <1>6, <2>2, <3>3, TreeFacts
    <2> QED
      BY <2>1, <2>2
  <1>10. ASSUME NEW p \in PageId \ {id, new, next, Root} PROVE pq[p] = pages[p]
    <2>1. /\ left.page = id /\ right.page = new /\ sibling.page = next /\ above.page = Root
      BY <1>4
    <2> HIDE DEF left, right, sibling, above, id, new, next
    <2>2. \A c \in Range(w) : c.page # p
      BY <1>3, <1>10, <2>1
    <2> QED
      BY <1>6, <1>10, <2>2
  <1> QED
    BY <1>6, <1>7, <1>8, <1>9, <1>10

\* The routes after a leaf split: the new leaf has one if the leaf was the
\* rightmost child and the parent was written.
LEMMA SplitRoutes ==
  ASSUME TreeInv, NEW k \in Key, NEW v \in Payload, LeafIsFull(k, v), LeftHasKey(AllCells(k, v)),
         NEW parent \in BOOLEAN, NEW pq, pq = After(SplitWrites(k, v, parent))
  PROVE  LET id == LeafOf(k)
             moved == parent /\ pages[Root].right = id
             sep == Separator(AllCells(k, v))
         IN  /\ RootNode(pq[Root])
             /\ pq[Root].right = IF moved THEN pageCount ELSE pages[Root].right
             /\ \A i \in 1..Len(pq[Root].cells) :
                  \/ pq[Root].cells[i].child = id
                  \/ \E j \in 1..Len(pages[Root].cells) :
                       pq[Root].cells[i].child = pages[Root].cells[j].child
             /\ \A x \in Key :
                  Route(pq, x) = IF moved /\ sep < x /\ Route(pages, x) = id THEN pageCount
                                 ELSE Route(pages, x)
  <1> DEFINE id == LeafOf(k)
             new == pageCount
             all == AllCells(k, v)
             sep == Separator(all)
             root == pages[Root]
             node == WithChild(root, id, sep, new)
  <1>1. /\ id \in PageId \ {Root} /\ new \in PageId \ {Root, id}
        /\ root.type = "interior" /\ RootNode(root) /\ pages[new] = Unwritten
    BY SiblingFacts
  <1>2. /\ id = Route(pages, k) /\ Records(all) /\ DOMAIN all = DOMAIN pages[id].cells \union {k}
    BY CallFacts
  <1>3. sep \in DOMAIN all /\ sep \in Key
    <2> HIDE DEF all
    <2> QED
      BY <1>2, SplitFacts DEF all
  <1>4. Tree(pages, pageCount) /\ HoldsOwn(pages) /\ Children(pages)
    BY DEF TreeInv, Tree, Shape
  <1>5. pq[Root] = IF parent THEN node ELSE root
    BY SplitPages
  <1>6. \A x \in Key : Route(pages, x) = Child(root, x)
    BY <1>1 DEF Route
  <1> HIDE DEF id, all, sep
  <1>7. Child(root, sep) = id
    <2>1. Route(pages, sep) = id
      <3>1. CASE sep = k
        BY <1>2, <3>1
      <3>2. CASE sep \in DOMAIN pages[id].cells
        BY <1>2, <1>3, <1>4, <3>2 DEF HoldsOwn
      <3> QED
        BY <1>2, <1>3, <3>1, <3>2
    <2> QED
      BY <1>3, <1>6, <2>1
  <1>8. new # root.right /\ \A i \in 1..Len(root.cells) : root.cells[i].child # new
    BY <1>1, <1>4, TreeFacts DEF Children
  <1>9. /\ RootNode(node)
        /\ node.right = IF root.right = id THEN new ELSE root.right
        /\ \A i \in 1..Len(node.cells) :
             \/ node.cells[i].child = id
             \/ \E j \in 1..Len(root.cells) : node.cells[i].child = root.cells[j].child
        /\ \A x \in Key :
             Child(node, x) = IF sep < x /\ root.right = id /\ Child(root, x) = id
                              THEN new ELSE Child(root, x)
    <2> HIDE DEF new, root
    <2> QED
      BY <1>1, <1>3, <1>7, <1>8, WithChildFacts
  <1>10. node.type = "interior"
    BY TreeFacts DEF WithChild
  <1> HIDE DEF node
  <1>11. CASE parent
    <2>1. pq[Root] = node
      BY <1>5, <1>11
    <2>2. \A x \in Key : Route(pq, x) = Child(node, x)
      BY <1>10, <2>1 DEF Route
    <2> QED
      BY <1>6, <1>9, <1>11, <2>1, <2>2 DEF id, sep, all
  <1>12. CASE ~parent
    <2>1. pq[Root] = root
      BY <1>5, <1>12
    <2>2. \A x \in Key : Route(pq, x) = Route(pages, x)
      BY <2>1 DEF Route
    <2> QED
      BY <1>1, <1>12, <2>1, <2>2
  <1> QED
    BY <1>11, <1>12

LEMMA LeafSplitKeeps ==
  ASSUME TreeInv, NEW k \in Key, NEW v \in Payload, LeafIsFull(k, v), LeftHasKey(AllCells(k, v)),
         NEW parent \in BOOLEAN, NEW pq, pq = After(SplitWrites(k, v, parent))
  PROVE  LET moved == parent /\ pages[Root].right = LeafOf(k)
             sep == Separator(AllCells(k, v))
         IN  /\ Tree(pq, pageCount + 1) /\ Linked(pq) /\ HoldsOwn(pq)
             /\ \A x \in Key :
                  Found(pq, x) = IF ~moved /\ sep < x /\ Route(pages, x) = LeafOf(k) THEN Absent
                                 ELSE IF x = k THEN v ELSE Found(pages, x)
  <1> DEFINE id == LeafOf(k)
             new == pageCount
             all == AllCells(k, v)
             sep == Separator(all)
             next == pages[id].next
             moved == parent /\ pages[Root].right = id
             low == Leaf(Low(all), new, pages[id].prev)
             high == Leaf(High(all), next, id)
             relinked == Leaf(pages[next].cells, pages[next].next, new)
  <1>1. /\ id \in PageId \ {Root} /\ new \in PageId \ {Root, id}
        /\ pages[Root].type = "interior" /\ RootNode(pages[Root]) /\ pages[new] = Unwritten
        /\ next # NoLeaf =>
             next \in PageId \ {Root, id, new} /\ pages[next].type = "leaf" /\ LeafPage(pages[next])
    BY SiblingFacts
  <1>2. /\ id = Route(pages, k) /\ LeafPage(pages[id]) /\ pages[id].type = "leaf"
        /\ Records(all) /\ DOMAIN all = DOMAIN pages[id].cells \union {k}
        /\ \A x \in DOMAIN all : all[x] = IF x = k THEN v ELSE pages[id].cells[x]
        /\ ~(pageCount <= id)
    BY CallFacts
  <1>3. /\ sep \in DOMAIN all /\ sep \in Key /\ Records(Low(all)) /\ Records(High(all))
        /\ DOMAIN Low(all) = {x \in DOMAIN all : x <= sep}
        /\ DOMAIN High(all) = {x \in DOMAIN all : sep < x}
        /\ \A x \in DOMAIN Low(all) : Low(all)[x] = all[x]
        /\ \A x \in DOMAIN High(all) : High(all)[x] = all[x]
    <2> HIDE DEF all
    <2> QED
      BY <1>2, SplitFacts DEF all
  <1>4. /\ Tree(pages, pageCount) /\ HoldsOwn(pages) /\ Children(pages) /\ Linked(pages)
        /\ pageCount \in Nat
    BY TreeFacts DEF TreeInv, Tree, Shape
  <1>5. /\ pq = [p \in PageId |-> pq[p]] /\ pq[id] = low /\ pq[new] = high
        /\ next # NoLeaf => pq[next] = relinked
        /\ \A p \in PageId \ {id, new, next, Root} : pq[p] = pages[p]
    BY SplitPages
  <1>6. /\ RootNode(pq[Root])
        /\ pq[Root].right = IF moved THEN new ELSE pages[Root].right
        /\ \A i \in 1..Len(pq[Root].cells) :
             \/ pq[Root].cells[i].child = id
             \/ \E j \in 1..Len(pages[Root].cells) :
                  pq[Root].cells[i].child = pages[Root].cells[j].child
        /\ \A x \in Key :
             Route(pq, x) = IF moved /\ sep < x /\ Route(pages, x) = id THEN new ELSE Route(pages, x)
    BY SplitRoutes
  <1>7. /\ low.cells = Low(all) /\ low.next = new /\ low.type = "leaf" /\ LeafPage(low)
        /\ high.cells = High(all) /\ high.next = next /\ high.type = "leaf" /\ LeafPage(high)
    <2>1. pages[id].prev \in PageId \union {NoLeaf} /\ next \in PageId \union {NoLeaf}
      BY <1>2, LeafFacts
    <2> HIDE DEF id, new, next, all
    <2> QED
      BY <1>1, <1>3, <2>1, LeafFacts, TreeFacts
  <1>8. next # NoLeaf =>
          /\ relinked.cells = pages[next].cells /\ relinked.next = pages[next].next
          /\ relinked.type = "leaf" /\ LeafPage(relinked)
    <2> SUFFICES ASSUME next # NoLeaf
                 PROVE  /\ relinked.cells = pages[next].cells /\ relinked.next = pages[next].next
                        /\ relinked.type = "leaf" /\ LeafPage(relinked)
      OBVIOUS
    <2>1. /\ Records(pages[next].cells) /\ pages[next].next \in PageId \union {NoLeaf}
      BY <1>1, LeafFacts
    <2> QED
      BY <1>1, <2>1, LeafFacts, TreeFacts
  <1> HIDE DEF low, high, relinked, all, sep, next, moved, new, id
  <1>9. ASSUME NEW p \in PageId \ {id, new, Root}
        PROVE  /\ pq[p].cells = pages[p].cells /\ pq[p].type = pages[p].type
               /\ pq[p].next = pages[p].next
               /\ pq[p] = pages[p] \/ (LeafPage(pq[p]) /\ pages[p].type = "leaf")
    <2>1. CASE p = next
      <3>1. next # NoLeaf
        BY <2>1, TreeFacts
      <3> QED
        BY <1>1, <1>5, <1>8, <2>1, <3>1
    <2>2. CASE p # next
      BY <1>5, <2>2
    <2> QED
      BY <2>1, <2>2
  <1>10. Children(pq)
    <2>1. \A p \in PageId \ {Root} : pages[p].type = "leaf" => pq[p].type = "leaf"
      BY <1>5, <1>7, <1>9
    <2>2. pages[Root].right \in PageId \ {Root} /\ pages[pages[Root].right].type = "leaf"
      BY <1>1, <1>4 DEF RootNode, Children
    <2>3. \A j \in 1..Len(pages[Root].cells) :
            /\ pages[Root].cells[j].child \in PageId \ {Root}
            /\ pages[pages[Root].cells[j].child].type = "leaf"
      BY <1>1, <1>4, CellsFacts DEF RootNode, Children
    <2>4. pq[pq[Root].right].type = "leaf"
      BY <1>5, <1>6, <1>7, <2>1, <2>2
    <2>5. ASSUME NEW i \in 1..Len(pq[Root].cells) PROVE pq[pq[Root].cells[i].child].type = "leaf"
      <3>1. CASE pq[Root].cells[i].child = id
        BY <1>5, <1>7, <3>1
      <3>2. CASE \E j \in 1..Len(pages[Root].cells) :
                   pq[Root].cells[i].child = pages[Root].cells[j].child
        <4>1. PICK j \in 1..Len(pages[Root].cells) :
                pq[Root].cells[i].child = pages[Root].cells[j].child
          BY <3>2
        <4>2. /\ pages[Root].cells[j].child \in PageId \ {Root}
              /\ pages[pages[Root].cells[j].child].type = "leaf"
          BY <2>3
        <4>3. pq[pages[Root].cells[j].child].type = "leaf"
          BY <2>1, <4>2
        <4> QED
          BY <4>1, <4>3
      <3> QED
        BY <1>6, <3>1, <3>2
    <2> QED
      BY <2>4, <2>5 DEF Children
  <1>11. Tree(pq, pageCount + 1)
    <2>1. \A p \in PageId \ {Root} : pq[p] = pages[p] \/ LeafPage(pq[p])
      BY <1>5, <1>7, <1>9
    <2>2. ASSUME NEW p \in PageId, pageCount + 1 <= p PROVE pq[p] = pages[p] /\ pageCount <= p
      <3>1. p \in Nat /\ p # new /\ pageCount <= p /\ p # id /\ p # Root
        BY <1>2, <1>4, <2>2, TreeFacts DEF new, TreeInv
      <3>2. pages[p] = Unwritten
        BY <1>4, <3>1 DEF Tree, Shape
      <3> QED
        BY <1>9, <3>1, <3>2, TreeFacts
    <2> QED
      BY <1>4, <1>5, <1>6, <1>10, <2>1, <2>2, TreeBuilt
  <1>12. Linked(pq)
    <2> SUFFICES ASSUME NEW p \in PageId, pq[p].type = "leaf", pq[p].next # NoLeaf
                 PROVE  pq[p].next \notin {p, Root} /\ pq[pq[p].next].type = "leaf"
      BY DEF Linked
    <2>1. CASE p = id
      BY <1>1, <1>5, <1>7, <2>1
    <2>2. CASE p = new
      BY <1>1, <1>5, <1>7, <1>9, <2>2
    <2>3. CASE p = Root
      <3>1. pq[Root].type = "interior"
        BY <1>6, TreeFacts DEF RootNode
      <3> QED
        BY <2>3, <3>1
    <2>4. CASE p \notin {id, new, Root}
      <3>1. pages[p].type = "leaf" /\ pq[p].next = pages[p].next
        BY <1>9, <2>4
      <3>2. LeafPage(pages[p]) /\ pages[p].next \in PageId
        BY <1>4, <3>1, TreeShape, PageTypes, LeafFacts
      <3>3. pages[p].next \notin {p, Root} /\ pages[pages[p].next].type = "leaf"
        BY <1>4, <3>1 DEF Linked
      <3> QED
        BY <1>5, <1>7, <1>9, <3>1, <3>2, <3>3
    <2> QED
      BY <2>1, <2>2, <2>3, <2>4
  <1>13. \A x \in Key : Route(pages, x) \in PageId \ {new, Root}
    BY <1>1, <1>4, TreeShape, RouteFacts, TreeFacts
  <1>14. \A x \in DOMAIN all : x \in Key => Route(pages, x) = id
    BY <1>2, <1>4 DEF HoldsOwn
  <1>15. \A x \in Key : x \in Int /\ sep \in Int
    BY <1>3, TreeFacts
  <1>16. HoldsOwn(pq)
    <2> SUFFICES ASSUME NEW j \in Key, NEW x \in Key, x \in DOMAIN pq[Route(pq, j)].cells
                 PROVE  Route(pq, x) = Route(pq, j)
      BY DEF HoldsOwn
    <2>1. CASE Route(pq, j) = new
      BY <1>3, <1>5, <1>6, <1>7, <1>13, <1>14, <2>1
    <2>2. CASE Route(pq, j) = id
      <3>1. x \in DOMAIN Low(all) /\ x \in DOMAIN all /\ x <= sep
        BY <1>3, <1>5, <1>7, <2>2
      <3> QED
        BY <1>6, <1>14, <1>15, <2>2, <3>1
    <2>3. CASE Route(pq, j) \notin {new, id}
      <3>1. Route(pages, j) = Route(pq, j) /\ Route(pages, j) \in PageId \ {id, new, Root}
        BY <1>6, <1>13, <2>3
      <3>2. x \in DOMAIN pages[Route(pages, j)].cells
        BY <1>9, <3>1
      <3>3. Route(pages, x) = Route(pages, j)
        BY <1>4, <3>2 DEF HoldsOwn
      <3> QED
        BY <1>6, <2>3, <3>1, <3>3
    <2> QED
      BY <2>1, <2>2, <2>3
  <1>17. ASSUME NEW x \in Key
         PROVE  Found(pq, x) = IF ~moved /\ sep < x /\ Route(pages, x) = id THEN Absent
                               ELSE IF x = k THEN v ELSE Found(pages, x)
    <2>1. CASE Route(pages, x) # id
      <3>1. Route(pq, x) = Route(pages, x) /\ pq[Route(pages, x)].cells = pages[Route(pages, x)].cells
        BY <1>6, <1>9, <1>13, <2>1
      <3> QED
        BY <1>2, <2>1, <3>1 DEF Found
    <2>2. CASE Route(pages, x) = id
      <3>1. (IF x \in DOMAIN all THEN all[x] ELSE Absent) = IF x = k THEN v ELSE Found(pages, x)
        BY <1>2, <2>2 DEF Found
      <3>2. CASE sep < x /\ moved
        <4>1. Route(pq, x) = new /\ pq[new].cells = High(all)
          BY <1>5, <1>6, <1>7, <2>2, <3>2
        <4> QED
          BY <1>3, <3>1, <3>2, <4>1 DEF Found
      <3>3. CASE sep < x /\ ~moved
        <4>1. Route(pq, x) = id /\ pq[id].cells = Low(all)
          BY <1>5, <1>6, <1>7, <2>2, <3>3
        <4> QED
          BY <1>3, <1>15, <2>2, <3>3, <4>1 DEF Found
      <3>4. CASE ~(sep < x)
        <4>1. Route(pq, x) = id /\ pq[id].cells = Low(all) /\ x <= sep
          BY <1>5, <1>6, <1>7, <1>15, <2>2, <3>4
        <4> QED
          BY <1>3, <3>1, <3>4, <4>1 DEF Found
      <3> QED
        BY <3>2, <3>3, <3>4
    <2> QED
      BY <2>1, <2>2
  <1> QED
    BY <1>11, <1>12, <1>16, <1>17 DEF moved, sep, all, id

\* Splits that stop halfway.

\* The root split that panics has used two page numbers and written nothing.
LEMMA NothingWritten ==
  ASSUME TreeInv, NEW d, d \in Int, pageCount <= d
  PROVE  /\ After(<<>>) = pages
         /\ Tree(pages, d)
  <1>1. Tree(pages, pageCount) /\ pageCount \in Int
    BY DEF TreeInv
  <1>2. After(<<>>) = pages
    <2>1. \A a, b \in Range(<<>>) : a.page = b.page => a = b
      BY TupleRanges
    <2>2. \A p \in PageId : After(<<>>)[p] = pages[p]
      BY <2>1, TupleRanges, AfterFacts
    <2> QED
      BY <1>1, <2>1, <2>2, AfterFacts DEF Tree, Shape
  <1>3. \A p \in PageId : d <= p => pages[p] = pages[p] /\ pageCount <= p
    BY <1>1, TreeFacts
  <1> QED
    BY <1>1, <1>2, <1>3, TreeBuilt DEF Tree, Shape

\* A leaf split that panics has at most given the next sibling its back link.
LEMMA PanicPages ==
  ASSUME TreeInv, NEW k \in Key, NEW v \in Payload, LeafIsFull(k, v),
         NEW pq, pq = After(WritesBeforePanic(k, v))
  PROVE  /\ pq = [p \in PageId |-> pq[p]] /\ pq[Root] = pages[Root]
         /\ \A p \in PageId :
              /\ pq[p].cells = pages[p].cells /\ pq[p].type = pages[p].type
              /\ pq[p].next = pages[p].next
              /\ \/ pq[p].prev = pages[p].prev
                 \/ /\ HalvesFit(AllCells(k, v)) /\ p = pages[LeafOf(k)].next
                    /\ pq[p].prev = pageCount
              /\ pq[p] = pages[p] \/ (LeafPage(pq[p]) /\ ~(pageCount <= p))
  <1> DEFINE id == LeafOf(k)
             next == pages[id].next
             relinked == Leaf(pages[next].cells, pages[next].next, pageCount)
  <1>1. Tree(pages, pageCount) /\ pageCount \in Int
    BY DEF TreeInv
  <1>2. CASE WritesBeforePanic(k, v) = <<>>
    <2>1. pageCount + 1 \in Int /\ pageCount <= pageCount + 1
      BY <1>1
    <2>2. pq = pages
      BY <1>2, <2>1, NothingWritten
    <2> QED
      BY <1>1, <2>2 DEF Tree, Shape
  <1>3. CASE WritesBeforePanic(k, v) # <<>>
    <2>1. /\ WritesBeforePanic(k, v) = <<To(next, [pages[next] EXCEPT !.prev = pageCount])>>
          /\ next # NoLeaf /\ HalvesFit(AllCells(k, v))
      BY <1>3 DEF WritesBeforePanic, Relink
    <2>2. /\ next \in PageId \ {Root, pageCount} /\ pageCount \in PageId
          /\ pages[next].type = "leaf" /\ LeafPage(pages[next])
      BY <2>1, SiblingFacts
    <2>3. [pages[next] EXCEPT !.prev = pageCount] = relinked
      BY <2>2, LeafFacts
    <2>4. /\ relinked.cells = pages[next].cells /\ relinked.next = pages[next].next
          /\ relinked.prev = pageCount /\ relinked.type = "leaf" /\ LeafPage(relinked)
      BY <2>2, LeafFacts, TreeFacts
    <2>5. /\ pq = [p \in PageId |-> pq[p]] /\ pq[next] = relinked
          /\ \A p \in PageId : p # next => pq[p] = pages[p]
      <3> DEFINE w == <<To(next, relinked)>>
      <3>1. Range(w) = {To(next, relinked)} /\ To(next, relinked).page = next
            /\ To(next, relinked).data = relinked
        BY TupleRanges DEF To
      <3>2. pq = After(w)
        BY <2>1, <2>3
      <3> HIDE DEF w, id, next, relinked
      <3> QED
        BY <2>2, <3>1, <3>2, AfterFacts
    <2>6. next = pages[LeafOf(k)].next
      OBVIOUS
    <2> HIDE DEF relinked, next, id
    <2>7. ~(pageCount <= next)
      BY <1>1, <2>2, TreeShape, PageTypes
    <2> QED
      BY <2>1, <2>2, <2>4, <2>5, <2>6, <2>7, TreeFacts
  <1> QED
    BY <1>2, <1>3

LEMMA PanicKeeps ==
  ASSUME TreeInv, NEW k \in Key, NEW v \in Payload, LeafIsFull(k, v),
         NEW pq, pq = After(WritesBeforePanic(k, v))
  PROVE  /\ Tree(pq, pageCount + 1) /\ Linked(pq) /\ HoldsOwn(pq)
         /\ \A x \in Key : Found(pq, x) = Found(pages, x) /\ Route(pq, x) = Route(pages, x)
  <1>1. Tree(pages, pageCount) /\ Linked(pages) /\ HoldsOwn(pages) /\ pageCount \in Int
    BY DEF TreeInv
  <1>2. /\ pq = [p \in PageId |-> pq[p]] /\ pq[Root] = pages[Root]
        /\ \A p \in PageId :
             /\ pq[p].cells = pages[p].cells /\ pq[p].type = pages[p].type
             /\ pq[p].next = pages[p].next
             /\ pq[p] = pages[p] \/ (LeafPage(pq[p]) /\ ~(pageCount <= p))
    BY PanicPages
  <1>3. RootNode(pages[Root]) /\ Children(pages)
    BY <1>1, SiblingFacts DEF Tree, Shape
  <1>4. ASSUME NEW x \in Key PROVE Route(pq, x) = Route(pages, x) /\ Route(pages, x) \in PageId
    BY <1>1, <1>2, TreeShape, RouteFacts DEF Route
  <1>5. Tree(pq, pageCount + 1)
    <2>1. \A i \in 1..Len(pages[Root].cells) : pages[Root].cells[i].child \in PageId
      BY <1>3, CellsFacts DEF RootNode
    <2>2. Children(pq)
      BY <1>2, <1>3, <2>1 DEF Children, RootNode
    <2>3. \A p \in PageId : pageCount + 1 <= p => pq[p] = pages[p] /\ pageCount <= p
      BY <1>1, <1>2, TreeFacts
    <2> QED
      BY <1>1, <1>2, <1>3, <2>2, <2>3, TreeBuilt
  <1>6. Linked(pq)
    <2>1. \A p \in PageId : pages[p].type = "leaf" => pages[p].next \in PageId \union {NoLeaf}
      BY <1>1, TreeShape, PageTypes, LeafFacts
    <2> QED
      BY <1>1, <1>2, <2>1 DEF Linked
  <1>7. HoldsOwn(pq)
    BY <1>1, <1>2, <1>4 DEF HoldsOwn
  <1>8. \A x \in Key : Found(pq, x) = Found(pages, x)
    BY <1>2, <1>4 DEF Found
  <1> QED
    BY <1>4, <1>5, <1>6, <1>7, <1>8

-----------------------------------------------------------------------------
\* What a reader finds, and what it may find.

LEMMA FoundFacts ==
  ASSUME NEW pg, NEW count, Shape(pg, count), NEW e
  PROVE  /\ \A x \in Key : Found(pg, x) \in Payload \union {Absent}
         /\ Fresh(pg, e) <=> \A x \in Key : Found(pg, x) \in e[x] \union {Absent}
  <1>1. ASSUME NEW x \in Key
        PROVE  x \in DOMAIN pg[Route(pg, x)].cells =>
                 /\ Found(pg, x) = pg[Route(pg, x)].cells[x]
                 /\ Found(pg, x) \in Payload /\ Found(pg, x) # Absent
    <2>1. Records(pg[Route(pg, x)].cells)
      BY RouteFacts, LeafFacts
    <2> QED
      BY <2>1, AbsentAssumption DEF Records, Found
  <1>2. \A x \in Key : x \notin DOMAIN pg[Route(pg, x)].cells => Found(pg, x) = Absent
    BY DEF Found
  <1> QED
    BY <1>1, <1>2 DEF Fresh

\* An insert of k that leaves the other keys as they are, or out of reach.
LEMMA FreshKept ==
  ASSUME TreeInv, NEW k \in Key, NEW v \in Payload, NEW pq, NEW count, Tree(pq, count), NEW e,
         e = [expected EXCEPT ![k] = {v}] \/ e = [expected EXCEPT ![k] = @ \union {v}],
         \A x \in Key : x # k => Found(pq, x) \in {Found(pages, x), Absent},
         Found(pq, k) \in e[k] \union {Absent}
  PROVE  Fresh(pq, e) /\ e \in [Key -> SUBSET (Payload \union {Absent})]
  <1>1. /\ expected \in [Key -> SUBSET (Payload \union {Absent})]
        /\ Tree(pages, pageCount) /\ Fresh(pages, expected)
    BY DEF TreeInv
  <1>2. \A x \in Key : Found(pages, x) \in expected[x] \union {Absent}
    BY <1>1, TreeShape, FoundFacts
  <1>3. /\ e \in [Key -> SUBSET (Payload \union {Absent})]
        /\ \A x \in Key : x # k => e[x] = expected[x]
    BY <1>1
  <1>4. \A x \in Key : Found(pq, x) \in e[x] \union {Absent}
    BY <1>2, <1>3
  <1> QED
    BY <1>3, <1>4, TreeShape, FoundFacts

-----------------------------------------------------------------------------
\* The invariant holds initially and after every insert.

LEMMA TreeInvInit == Init => TreeInv /\ \A x \in Key : Found(pages, x) = Absent
  <1> SUFFICES ASSUME Init PROVE TreeInv /\ \A x \in Key : Found(pages, x) = Absent
    OBVIOUS
  <1>1. /\ pages = [p \in PageId |-> IF p = Root THEN Leaf(<<>>, NoLeaf, NoLeaf) ELSE Unwritten]
        /\ pageCount = 2 /\ reply = "none" /\ orphaned = FALSE
        /\ expected = [k \in Key |-> {Absent}]
    BY DEF Init
  <1>2. pages[Root] = Leaf(<<>>, NoLeaf, NoLeaf) /\ \A p \in PageId \ {Root} : pages[p] = Unwritten
    BY <1>1, TreeFacts
  <1>3. Records(<<>>) /\ DOMAIN <<>> = {}
    <2>1. DOMAIN <<>> = {} /\ IsFiniteSet({})
      BY FS_EmptySet
    <2>2. <<>> \in [{} -> Payload]
      OBVIOUS
    <2> QED
      BY <2>1, <2>2 DEF Records
  <1>4. /\ LeafPage(pages[Root]) /\ pages[Root].type = "leaf"
        /\ pages[Root].cells = <<>> /\ pages[Root].next = NoLeaf
    BY <1>2, <1>3, LeafFacts, TreeFacts
  <1>5. pageCount \in 2..MaxPageId + 1
    BY <1>1, PagesAssumption
  <1>6. Tree(pages, pageCount)
    <2>1. Blank(Unwritten)
      BY DEF Blank, Unwritten
    <2> QED
      BY <1>1, <1>2, <1>4, <2>1, TreeFacts DEF Tree, Shape, Children
  <1>7. Linked(pages)
    BY <1>2, <1>4, TreeFacts DEF Linked
  <1>8. \A x \in Key : Route(pages, x) = Root
    BY <1>4 DEF Route
  <1>9. HoldsOwn(pages) /\ Fresh(pages, expected) /\ \A x \in Key : Found(pages, x) = Absent
    BY <1>3, <1>4, <1>8 DEF HoldsOwn, Fresh, Found
  <1>10. expected \in [Key -> SUBSET (Payload \union {Absent})]
    BY <1>1
  <1> QED
    BY <1>1, <1>5, <1>6, <1>7, <1>9, <1>10 DEF TreeInv

\* What an insert of k does to the tree and to what a search finds: of the other
\* keys it changes none, or puts them out of reach with orphaned set.
InsertKeeps(k, v) ==
  /\ pageCount' \in 2..MaxPageId + 1
  /\ reply' \in {"none", "new", "updated", "error", "panic"}
  /\ orphaned' \in BOOLEAN
  /\ Tree(pages', pageCount') /\ Linked(pages') /\ HoldsOwn(pages')
  /\ \A x \in Key : x # k => Found(pages', x) \in {Found(pages, x), Absent}
  /\ \/ Acknowledged(k, v) /\ Found(pages', k) \in {v, Absent}
     \/ Doubtful(k, v) /\ Found(pages', k) \in {Found(pages, k), v, Absent}
  /\ ~orphaned' =>
       \/ /\ reply' \in {"new", "updated"}
          /\ \A x \in Key : Found(pages', x) = IF x = k THEN v ELSE Found(pages, x)
       \/ /\ reply' \notin {"new", "updated"}
          /\ \A x \in Key : Found(pages', x) = Found(pages, x)

LEMMA KeptByStoreInLeaf ==
  ASSUME TreeInv, NEW k \in Key, NEW v \in Payload, StoreInLeaf(k, v)
  PROVE  InsertKeeps(k, v)
  <1>1. /\ pageCount \in 2..MaxPageId + 1 /\ orphaned \in BOOLEAN
    BY DEF TreeInv
  <1>2. /\ pages' = After(StoreWrites(k, v)) /\ pageCount' = pageCount /\ orphaned' = orphaned
        /\ reply' \in {"new", "updated"} /\ Acknowledged(k, v)
    BY <1>1 DEF StoreInLeaf, Perform
  <1>3. /\ Tree(pages', pageCount) /\ Linked(pages') /\ HoldsOwn(pages')
        /\ \A x \in Key : Found(pages', x) = IF x = k THEN v ELSE Found(pages, x)
    BY <1>2, StoreKeeps
  <1> QED
    BY <1>1, <1>2, <1>3 DEF InsertKeeps

LEMMA KeptBySplitRoot ==
  ASSUME TreeInv, NEW k \in Key, NEW v \in Payload, SplitRoot(k, v)
  PROVE  InsertKeeps(k, v)
  <1>1. /\ pageCount \in 2..MaxPageId + 1 /\ orphaned \in BOOLEAN
    BY DEF TreeInv
  <1>2. /\ pages' = After(RootWrites(AllCells(k, v), pageCount, pageCount + 1))
        /\ pageCount' = pageCount + 2 /\ orphaned' = orphaned
        /\ reply' = "new" /\ Acknowledged(k, v)
        /\ RootIsFull(k, v) /\ LeftHasKey(AllCells(k, v))
    BY DEF SplitRoot, Perform, CanSplit
  <1>3. /\ Tree(pages', pageCount + 2) /\ Linked(pages') /\ HoldsOwn(pages')
        /\ \A x \in Key : Found(pages', x) = IF x = k THEN v ELSE Found(pages, x)
    BY <1>2, RootSplitKeeps
  <1>4. pageCount' \in 2..MaxPageId + 1
    BY <1>1, <1>2, PagesAssumption DEF RootIsFull
  <1> QED
    BY <1>1, <1>2, <1>3, <1>4 DEF InsertKeeps

LEMMA KeptBySplitRootPanics ==
  ASSUME TreeInv, NEW k \in Key, NEW v \in Payload, SplitRootPanics(k, v)
  PROVE  InsertKeeps(k, v)
  <1>1. /\ pageCount \in 2..MaxPageId + 1 /\ orphaned \in BOOLEAN
        /\ Linked(pages) /\ HoldsOwn(pages)
    BY DEF TreeInv
  <1>2. /\ pages' = After(<<>>) /\ pageCount' = pageCount + 2 /\ orphaned' = orphaned
        /\ reply' = "panic" /\ Doubtful(k, v) /\ RootIsFull(k, v)
    BY DEF SplitRootPanics, Perform
  <1>3. pages' = pages /\ Tree(pages, pageCount + 2)
    <2>1. pageCount + 2 \in Int /\ pageCount <= pageCount + 2
      BY <1>1
    <2> QED
      BY <1>2, <2>1, NothingWritten
  <1>4. pageCount' \in 2..MaxPageId + 1
    BY <1>1, <1>2, PagesAssumption DEF RootIsFull
  <1> QED
    BY <1>1, <1>2, <1>3, <1>4 DEF InsertKeeps

LEMMA KeptBySplitLeaf ==
  ASSUME TreeInv, NEW k \in Key, NEW v \in Payload, SplitLeaf(k, v)
  PROVE  InsertKeeps(k, v)
  <1>1. /\ pageCount \in 2..MaxPageId + 1 /\ orphaned \in BOOLEAN /\ Tree(pages, pageCount)
    BY DEF TreeInv
  <1>2. /\ pages' = After(SplitWrites(k, v, TRUE)) /\ pageCount' = pageCount + 1
        /\ orphaned' = (orphaned \/ pages[ParentOf(k)].right # LeafOf(k))
        /\ reply' = "new" /\ Acknowledged(k, v)
        /\ LeafIsFull(k, v) /\ LeftHasKey(AllCells(k, v))
    BY DEF SplitLeaf, Perform, CanSplit, SplitWrites
  <1>3. ParentOf(k) = Root
    BY <1>1, <1>2, SiblingFacts, TreeShape, DescentFacts
  <1> DEFINE moved == pages[Root].right = LeafOf(k)
             sep == Separator(AllCells(k, v))
  <1>4. /\ Tree(pages', pageCount + 1) /\ Linked(pages') /\ HoldsOwn(pages')
        /\ \A x \in Key :
             Found(pages', x) = IF ~moved /\ sep < x /\ Route(pages, x) = LeafOf(k) THEN Absent
                                ELSE IF x = k THEN v ELSE Found(pages, x)
    <2>1. LeafIsFull(k, v) /\ LeftHasKey(AllCells(k, v))
      BY <1>2
    <2>2. ASSUME NEW parent \in BOOLEAN, pages' = After(SplitWrites(k, v, parent))
          PROVE  LET at == parent /\ pages[Root].right = LeafOf(k)
                     key == Separator(AllCells(k, v))
                 IN  /\ Tree(pages', pageCount + 1) /\ Linked(pages') /\ HoldsOwn(pages')
                     /\ \A x \in Key :
                          Found(pages', x) = IF ~at /\ key < x /\ Route(pages, x) = LeafOf(k)
                                             THEN Absent ELSE IF x = k THEN v ELSE Found(pages, x)
      BY <2>1, <2>2, LeafSplitKeeps
    <2>3. PICK parent \in BOOLEAN : parent /\ pages' = After(SplitWrites(k, v, parent))
      BY <1>2, Zenon
    <2> QED
      BY <2>2, <2>3
  <1>5. ~orphaned' => moved
    BY <1>2, <1>3
  <1>6. pageCount' \in 2..MaxPageId + 1
    BY <1>1, <1>2, PagesAssumption DEF LeafIsFull
  <1>7. orphaned' \in BOOLEAN
    BY <1>1, <1>2
  <1> HIDE DEF moved, sep
  <1> QED
    BY <1>2, <1>4, <1>5, <1>6, <1>7 DEF InsertKeeps

LEMMA KeptByParentIsFull ==
  ASSUME TreeInv, NEW k \in Key, NEW v \in Payload, ParentIsFull(k, v)
  PROVE  InsertKeeps(k, v)
  <1>1. pageCount \in 2..MaxPageId + 1
    BY DEF TreeInv
  <1>2. /\ pages' = After(SplitWrites(k, v, FALSE)) /\ pageCount' = pageCount + 1
        /\ orphaned' = TRUE /\ reply' = "error" /\ Doubtful(k, v)
        /\ LeafIsFull(k, v) /\ LeftHasKey(AllCells(k, v))
    BY DEF ParentIsFull, Perform, CanSplit, SplitWrites
  <1> DEFINE sep == Separator(AllCells(k, v))
  <1>3. /\ Tree(pages', pageCount + 1) /\ Linked(pages') /\ HoldsOwn(pages')
        /\ \A x \in Key :
             Found(pages', x) = IF sep < x /\ Route(pages, x) = LeafOf(k) THEN Absent
                                ELSE IF x = k THEN v ELSE Found(pages, x)
    <2>1. LeafIsFull(k, v) /\ LeftHasKey(AllCells(k, v))
      BY <1>2
    <2>2. ASSUME NEW parent \in BOOLEAN, pages' = After(SplitWrites(k, v, parent))
          PROVE  LET at == parent /\ pages[Root].right = LeafOf(k)
                     key == Separator(AllCells(k, v))
                 IN  /\ Tree(pages', pageCount + 1) /\ Linked(pages') /\ HoldsOwn(pages')
                     /\ \A x \in Key :
                          Found(pages', x) = IF ~at /\ key < x /\ Route(pages, x) = LeafOf(k)
                                             THEN Absent ELSE IF x = k THEN v ELSE Found(pages, x)
      BY <2>1, <2>2, LeafSplitKeeps
    <2>3. PICK parent \in BOOLEAN : ~parent /\ pages' = After(SplitWrites(k, v, parent))
      BY <1>2, Zenon
    <2> QED
      BY <2>2, <2>3
  <1>4. pageCount' \in 2..MaxPageId + 1
    BY <1>1, <1>2, PagesAssumption DEF LeafIsFull
  <1> HIDE DEF sep
  <1> QED
    BY <1>2, <1>3, <1>4 DEF InsertKeeps

LEMMA KeptBySplitLeafPanics ==
  ASSUME TreeInv, NEW k \in Key, NEW v \in Payload, SplitLeafPanics(k, v)
  PROVE  InsertKeeps(k, v)
  <1>1. pageCount \in 2..MaxPageId + 1 /\ orphaned \in BOOLEAN
    BY DEF TreeInv
  <1>2. /\ pages' = After(WritesBeforePanic(k, v)) /\ pageCount' = pageCount + 1
        /\ orphaned' = orphaned /\ reply' = "panic" /\ Doubtful(k, v) /\ LeafIsFull(k, v)
    BY DEF SplitLeafPanics, Perform
  <1>3. /\ Tree(pages', pageCount + 1) /\ Linked(pages') /\ HoldsOwn(pages')
        /\ \A x \in Key : Found(pages', x) = Found(pages, x)
    BY <1>2, PanicKeeps
  <1>4. pageCount' \in 2..MaxPageId + 1
    BY <1>1, <1>2, PagesAssumption DEF LeafIsFull
  <1> QED
    BY <1>1, <1>2, <1>3, <1>4 DEF InsertKeeps

LEMMA KeptByInsert ==
  ASSUME TreeInv, NEW k \in Key, NEW v \in Payload, Insert(k, v)
  PROVE  InsertKeeps(k, v)
  BY KeptByStoreInLeaf, KeptBySplitRoot, KeptBySplitRootPanics, KeptBySplitLeaf,
     KeptByParentIsFull, KeptBySplitLeafPanics
  DEF Insert

LEMMA TreeInvInsert ==
  ASSUME TreeInv, NEW k \in Key, NEW v \in Payload, Insert(k, v)
  PROVE  TreeInv'
  <1>1. InsertKeeps(k, v)
    BY KeptByInsert
  <1>2. Fresh(pages', expected') /\ expected' \in [Key -> SUBSET (Payload \union {Absent})]
    <2>1. /\ Tree(pages', pageCount')
          /\ \A x \in Key : x # k => Found(pages', x) \in {Found(pages, x), Absent}
      BY <1>1 DEF InsertKeeps
    <2>2. CASE Acknowledged(k, v) /\ Found(pages', k) \in {v, Absent}
      <3>1. expected' = [expected EXCEPT ![k] = {v}] /\ expected'[k] = {v}
        BY <2>2 DEF Acknowledged, TreeInv
      <3> QED
        BY <2>1, <2>2, <3>1, FreshKept
    <2>3. CASE Doubtful(k, v) /\ Found(pages', k) \in {Found(pages, k), v, Absent}
      <3>1. expected' = [expected EXCEPT ![k] = @ \union {v}] /\ expected'[k] = expected[k] \union {v}
        BY <2>3 DEF Doubtful, TreeInv
      <3>2. Found(pages, k) \in expected[k] \union {Absent}
        BY TreeShape, FoundFacts DEF TreeInv
      <3> QED
        BY <2>1, <2>3, <3>1, <3>2, FreshKept
    <2> QED
      BY <1>1, <2>2, <2>3 DEF InsertKeeps
  <1>3. \A x \in Key : Route(pages, x)' = Route(pages', x)
    BY DEF Route
  <1> QED
    BY <1>1, <1>2 DEF InsertKeeps, TreeInv, Tree, Shape, Linked, HoldsOwn, Fresh, Children, Route

LEMMA TreeInvNext == TreeInv /\ [Next]_vars => TreeInv'
  <1>1. ASSUME TreeInv, UNCHANGED vars PROVE TreeInv'
    BY <1>1 DEF vars, TreeInv, Tree, Shape, Linked, HoldsOwn, Fresh, Children, Route
  <1> QED
    BY <1>1, TreeInvInsert DEF Next

LEMMA TreeInvAlways == Spec => []TreeInv
  BY TreeInvInit, TreeInvNext, PTL DEF Spec

-----------------------------------------------------------------------------
\* The theorems.

LEMMA TreeTypes == TreeInv => TypeOK
  <1> SUFFICES ASSUME TreeInv PROVE TypeOK
    OBVIOUS
  <1>1. /\ pageCount \in 2..MaxPageId + 1
        /\ reply \in {"none", "new", "updated", "error", "panic"}
        /\ expected \in [Key -> SUBSET (Payload \union {Absent})] /\ orphaned \in BOOLEAN
        /\ Tree(pages, pageCount)
    BY DEF TreeInv
  <1>2. DOMAIN pages = PageId
    BY <1>1 DEF Tree, Shape
  <1>3. ASSUME NEW p \in PageId, LeafPage(pages[p])
        PROVE  /\ pages[p].type = "leaf"
               /\ DOMAIN pages[p].cells \subseteq Key
               /\ Range(pages[p].cells) \subseteq Payload
               /\ pages[p].next \in PageId \union {NoLeaf}
               /\ pages[p].prev \in PageId \union {NoLeaf}
    <2>1. Records(pages[p].cells)
      BY <1>3, LeafFacts
    <2>2. Range(pages[p].cells) \subseteq Payload
      BY <2>1 DEF Records, Range
    <2> QED
      BY <1>1, <1>3, <2>1, <2>2, TreeShape, PageTypes DEF LeafPage
  <1>4. ASSUME RootNode(pages[Root])
        PROVE  /\ pages[Root].type = "interior"
               /\ pages[Root].cells \in Seq([child : PageId, key : Key])
               /\ pages[Root].right \in PageId
    <2>1. pages[Root].cells \in Seq([child : PageId \ {Root}, key : Key]) /\ pages[Root].right \in PageId
      BY <1>4 DEF RootNode, Cells
    <2>2. [child : PageId \ {Root}, key : Key] \subseteq [child : PageId, key : Key]
      OBVIOUS
    <2>3. pages[Root].cells \in Seq([child : PageId, key : Key])
      BY <2>1, <2>2, SeqMonotonic
    <2>4. pages[Root].type = "interior"
      BY <1>4, TreeFacts DEF RootNode
    <2> QED
      BY <2>1, <2>3, <2>4
  <1>5. ASSUME NEW p \in PageId
        PROVE  \/ pages[p] = Unwritten
               \/ LeafPage(pages[p])
               \/ p = Root /\ RootNode(pages[Root])
    BY <1>1 DEF Tree, Shape
  <1> QED
    BY <1>1, <1>2, <1>3, <1>4, <1>5 DEF TypeOK

\* Every page is all zero, a leaf or an interior page whose pointers are page
\* numbers, whatever is inserted (page.rs:27-72, tree.rs:58-311): no split links
\* a page that is not there.
THEOREM TreeTypeCorrect == Spec => []TypeOK
  BY TreeTypes, TreeInvAlways, PTL

LEMMA TreeReads == TreeInv => NoStaleRead
  BY TreeShape, SearchFacts, FoundFacts DEF TreeInv, NoStaleRead

\* A search never comes upon an older copy of a record that a split or a failed
\* insert left in another leaf (tree.rs:18-44, 146-231): a leaf with a route holds
\* only keys routed to it.
THEOREM TreeReadsLatest == Spec => []NoStaleRead
  BY TreeReads, TreeInvAlways, PTL

LEMMA NextSearchFacts == (Shape(pages, pageCount) => \A k \in Key : Search(k) = Found(pages, k))'
  BY SearchFacts, PTL

\* The step of the map an insert makes.
LEMMA InsertIsPut ==
  ASSUME TreeInv, TreeInv', NEW k \in Key, NEW v \in Payload, Insert(k, v), ~orphaned'
  PROVE  IF reply' \in {"new", "updated"}
           THEN Map!MapNext
           ELSE UNCHANGED [x \in Key |-> Search(x)]
  <1>1. \A x \in Key : Search(x) = Found(pages, x)
    BY TreeShape, SearchFacts DEF TreeInv
  <1>2. \A x \in Key : Search(x)' = Found(pages', x)
    <2>1. (Tree(pages, pageCount) => \A x \in Key : Search(x) = Found(pages, x))'
      BY TreeShape, NextSearchFacts
    <2>2. Tree(pages, pageCount)'
      BY DEF TreeInv
    <2>3. \A x \in Key : Found(pages, x)' = Found(pages', x)
      BY DEF Found, Route
    <2> QED
      BY <2>1, <2>2, <2>3
  <1>3. \/ /\ reply' \in {"new", "updated"}
           /\ \A x \in Key : Found(pages', x) = IF x = k THEN v ELSE Found(pages, x)
        \/ /\ reply' \notin {"new", "updated"}
           /\ \A x \in Key : Found(pages', x) = Found(pages, x)
    BY KeptByInsert DEF InsertKeeps
  <1>4. CASE reply' \in {"new", "updated"}
    <2>1. \A x \in Key : Search(x)' = IF x = k THEN v ELSE Search(x)
      BY <1>1, <1>2, <1>3, <1>4
    <2>2. [x \in Key |-> Search(x)]' = [[x \in Key |-> Search(x)] EXCEPT ![k] = v]
      BY <2>1
    <2>3. Map!MapNext
      BY <2>2 DEF Map!MapNext, Map!Put
    <2> QED
      BY <1>4, <2>3
  <1>5. CASE reply' \notin {"new", "updated"}
    <2>1. \A x \in Key : Search(x)' = Search(x)
      BY <1>1, <1>2, <1>3, <1>5
    <2> QED
      BY <1>5, <2>1
  <1> QED
    BY <1>4, <1>5

\* The tree is a map as long as every leaf has a route (tree.rs:58-240): an
\* insert that returns gives its key the payload and touches no other key,
\* whichever way it splits, and one that panics or fails changes nothing a
\* search could see.
THEOREM TreeImplementsMap == Spec => ImplementsMap
  <1>1. Init => Map!MapInit
    <2> SUFFICES ASSUME Init PROVE Map!MapInit
      OBVIOUS
    <2>1. \A x \in Key : Search(x) = Absent
      BY TreeInvInit, TreeShape, SearchFacts DEF TreeInv
    <2> QED
      BY <2>1 DEF Map!MapInit
  <1>2. TreeInv /\ TreeInv' /\ [Next]_vars =>
          [~orphaned' => IF reply' \in {"new", "updated"} THEN Map!MapNext
                         ELSE UNCHANGED [k \in Key |-> Search(k)]]_vars
    BY InsertIsPut DEF Next
  <1> QED
    BY <1>1, <1>2, TreeInvAlways, PTL DEF Spec, ImplementsMap

-----------------------------------------------------------------------------
\* The space of the pages.

PageFits(c) ==
  IF c.type = "interior"
    THEN Len(c.cells) * (PointerBytes + InteriorCellBytes) <= PageSpace
    ELSE Bytes(c.cells) <= PageSpace

Fit(pg) == \A p \in PageId : PageFits(pg[p])

LEMMA RecordsMap == \A c : Records(c) => RecordMap(c)
  BY DEF Records, RecordMap

LEMMA LeafFits == \A c, n, b : Bytes(c) <= PageSpace => PageFits(Leaf(c, n, b))
  <1>1. \A c, n, b : Leaf(c, n, b).cells = c /\ Leaf(c, n, b).type # "interior"
    BY LeafFacts, TreeFacts
  <1> QED
    BY <1>1 DEF PageFits

LEMMA FitByStore ==
  ASSUME TreeInv, Fit(pages), NEW k \in Key, NEW v \in Payload, RecordFits(k, v),
         NEW pq, pq = After(StoreWrites(k, v))
  PROVE  Fit(pq)
  <1> DEFINE id == LeafOf(k)
             c == pages[id].cells
             new == Leaf(AllCells(k, v), pages[id].next, pages[id].prev)
  <1>1. /\ id \in PageId /\ Records(c) /\ pages[id].type = "leaf"
        /\ pq[id] = new /\ \A p \in PageId : p # id => pq[p] = pages[p]
    <2>1. id \in PageId /\ Records(c) /\ pages[id].type = "leaf"
      BY CallFacts
    <2>2. pq[id] = new /\ \A p \in PageId : p # id => pq[p] = pages[p]
      BY StorePages
    <2> QED
      BY <2>1, <2>2
  <1>2. AllCells(k, v) = WithRecord(c, k, v) /\ Fits(c, k, v)
    BY DEF AllCells, RecordFits
  <1>3. RecordMap(c) /\ Bytes(c) <= PageSpace
    BY <1>1, RecordsMap DEF Fit, PageFits
  <1> HIDE DEF id, c
  <1>4. Bytes(AllCells(k, v)) <= PageSpace
    BY <1>2, <1>3, FitsKeepsSpace
  <1>5. PageFits(new)
    BY <1>4, LeafFits
  <1> HIDE DEF new
  <1> QED
    BY <1>1, <1>5 DEF Fit

LEMMA FitByRootSplit ==
  ASSUME TreeInv, Fit(pages), NEW k \in Key, NEW v \in Payload, RootIsFull(k, v),
         CanSplit(AllCells(k, v)),
         NEW pq, pq = After(RootWrites(AllCells(k, v), pageCount, pageCount + 1))
  PROVE  Fit(pq)
  <1> DEFINE all == AllCells(k, v)
             left == pageCount
             right == pageCount + 1
             low == Leaf(Low(all), right, NoLeaf)
             high == Leaf(High(all), NoLeaf, left)
             cells == <<[child |-> left, key |-> Separator(all)]>>
             root == Interior(cells, right)
  <1>1. /\ left \in PageId \ {Root} /\ right \in PageId \ {Root, left}
        /\ pq[left] = low /\ pq[right] = high /\ pq[Root] = root
        /\ \A p \in PageId \ {left, right, Root} : pq[p] = pages[p]
    BY RootPages
  <1>2. LeftHasKey(all) /\ Bytes(Low(all)) <= PageSpace /\ Bytes(High(all)) <= PageSpace
    BY DEF CanSplit, HalvesFit
  <1>3. PageFits(low) /\ PageFits(high)
    <2> HIDE DEF all, left, right
    <2> QED
      BY <1>2, LeafFits
  <1>4. Bytes(Low(all)) >= PointerBytes + LeafCellBytes /\ Bytes(Low(all)) \in Nat
    <2>1. Records(all)
      BY CallFacts
    <2> HIDE DEF all
    <2>2. /\ Separator(all) \in DOMAIN all /\ Separator(all) \in Key /\ Records(Low(all))
          /\ DOMAIN Low(all) = {x \in DOMAIN all : x <= Separator(all)}
      BY <1>2, <2>1, SplitFacts
    <2>3. Separator(all) \in DOMAIN Low(all)
      <3> DEFINE m == Separator(all)
      <3>1. m \in Int /\ m \in DOMAIN all
        BY <2>2, TreeFacts
      <3> HIDE DEF m
      <3>2. m <= m
        BY <3>1
      <3> QED
        BY <2>2, <3>1, <3>2 DEF m
    <2> DEFINE c == Low(all)
    <2>4. RecordMap(c) /\ DOMAIN c # {}
      BY <2>2, <2>3, RecordsMap
    <2> HIDE DEF c
    <2>5. Bytes(c) >= PointerBytes + LeafCellBytes /\ Bytes(c) \in Nat
      BY <2>4, BytesOfSome, BytesInNat
    <2> QED
      BY <2>5 DEF c
  <1>5. PageFits(root)
    <2>1. root.type = "interior" /\ root.cells = cells
      BY DEF Interior
    <2>2. Len(cells) = 1
      OBVIOUS
    <2>3. Len(cells) * (PointerBytes + InteriorCellBytes) <= PageSpace
      BY <1>2, <1>4, <2>2, SizeFacts DEF InteriorCellBytes
    <2> HIDE DEF cells, root
    <2> QED
      BY <2>1, <2>3 DEF PageFits
  <1> HIDE DEF all, left, right, low, high, root
  <1> QED
    BY <1>1, <1>3, <1>5 DEF Fit

LEMMA FitByLeafSplit ==
  ASSUME TreeInv, Fit(pages), NEW k \in Key, NEW v \in Payload, LeafIsFull(k, v),
         CanSplit(AllCells(k, v)), NEW parent \in BOOLEAN, parent => RoomInParent(pages[Root]),
         NEW pq, pq = After(SplitWrites(k, v, parent))
  PROVE  Fit(pq)
  <1> DEFINE id == LeafOf(k)
             all == AllCells(k, v)
             new == pageCount
             next == pages[id].next
             low == Leaf(Low(all), new, pages[id].prev)
             high == Leaf(High(all), next, id)
             relinked == Leaf(pages[next].cells, pages[next].next, new)
             cell == [child |-> id, key |-> Separator(all)]
             node == WithChild(pages[Root], id, Separator(all), new)
  <1>1. /\ id \in PageId \ {Root} /\ new \in PageId \ {Root, id} /\ RootNode(pages[Root])
        /\ next # NoLeaf => next \in PageId \ {Root, id, new} /\ pages[next].type = "leaf"
    BY SiblingFacts
  <1>2. /\ pq[id] = low /\ pq[new] = high
        /\ next # NoLeaf => pq[next] = relinked
        /\ pq[Root] = IF parent THEN node ELSE pages[Root]
        /\ \A p \in PageId : p \in {id, new, next, Root} \/ pq[p] = pages[p]
    BY SplitPages
  <1>3. LeftHasKey(all) /\ Bytes(Low(all)) <= PageSpace /\ Bytes(High(all)) <= PageSpace
    BY DEF CanSplit, HalvesFit
  <1>4. PageFits(low) /\ PageFits(high)
    <2> HIDE DEF all, id, next
    <2> QED
      BY <1>3, LeafFits
  <1>5. next # NoLeaf => PageFits(relinked)
    <2> HIDE DEF next
    <2>1. next # NoLeaf => Bytes(pages[next].cells) <= PageSpace
      BY <1>1 DEF Fit, PageFits
    <2> QED
      BY <2>1, LeafFits
  <1>6. PageFits(pages[Root])
    BY TreeFacts DEF Fit
  <1>7. ASSUME parent PROVE PageFits(node)
    <2>1. Records(all)
      BY CallFacts
    <2>2. Separator(all) \in Key
      <3> HIDE DEF all
      <3> QED
        BY <1>3, <2>1, SplitFacts
    <2>3. cell \in [child : PageId \ {Root}, key : Key] /\ pages[Root].cells \in Cells
      BY <1>1, <2>2 DEF RootNode
    <2>4. node.type = "interior" /\ node.cells = WithCell(pages[Root].cells, cell)
      BY DEF WithChild, Interior
    <2> HIDE DEF cell, node
    <2>5. Len(node.cells) = Len(pages[Root].cells) + 1
      BY <2>3, <2>4, WithCellFacts
    <2> QED
      BY <1>7, <2>4, <2>5 DEF PageFits, RoomInParent
  <1> HIDE DEF id, all, new, next, low, high, relinked, node
  <1> QED
    BY <1>1, <1>2, <1>4, <1>5, <1>6, <1>7, TreeFacts DEF Fit

LEMMA FitByPanic ==
  ASSUME TreeInv, Fit(pages), NEW k \in Key, NEW v \in Payload, LeafIsFull(k, v),
         NEW pq, pq = After(WritesBeforePanic(k, v))
  PROVE  Fit(pq)
  BY PanicPages DEF Fit, PageFits

LEMMA FitInsert ==
  ASSUME TreeInv, Fit(pages), NEW k \in Key, NEW v \in Payload, Insert(k, v)
  PROVE  Fit(pages')
  <1>1. CASE StoreInLeaf(k, v)
    BY <1>1, FitByStore DEF StoreInLeaf, Perform
  <1>2. CASE SplitRoot(k, v)
    BY <1>2, FitByRootSplit DEF SplitRoot, Perform
  <1>3. CASE SplitRootPanics(k, v)
    <2>1. pageCount \in Int /\ pageCount <= pageCount /\ pages' = After(<<>>)
      BY <1>3 DEF TreeInv, SplitRootPanics, Perform
    <2> QED
      BY <2>1, NothingWritten
  <1>4. ASSUME LeafIsFull(k, v) PROVE ParentOf(k) = Root
    BY <1>4, SiblingFacts, TreeShape, DescentFacts DEF TreeInv
  <1>5. CASE SplitLeaf(k, v)
    <2>1. /\ pages' = After(SplitWrites(k, v, TRUE)) /\ LeafIsFull(k, v)
          /\ CanSplit(AllCells(k, v)) /\ RoomInParent(pages[ParentOf(k)])
      BY <1>5 DEF SplitLeaf, Perform, SplitWrites
    <2>2. PICK parent \in BOOLEAN : parent /\ pages' = After(SplitWrites(k, v, parent))
      BY <2>1, Zenon
    <2> QED
      BY <1>4, <2>1, <2>2, FitByLeafSplit
  <1>6. CASE ParentIsFull(k, v)
    <2>1. /\ pages' = After(SplitWrites(k, v, FALSE)) /\ LeafIsFull(k, v)
          /\ CanSplit(AllCells(k, v))
      BY <1>6 DEF ParentIsFull, Perform, SplitWrites
    <2>2. PICK parent \in BOOLEAN : ~parent /\ pages' = After(SplitWrites(k, v, parent))
      BY <2>1, Zenon
    <2> QED
      BY <2>1, <2>2, FitByLeafSplit
  <1>7. CASE SplitLeafPanics(k, v)
    BY <1>7, FitByPanic DEF SplitLeafPanics, Perform
  <1> QED
    BY <1>1, <1>2, <1>3, <1>5, <1>6, <1>7 DEF Insert

LEMMA FitInit == Init => Fit(pages)
  <1> SUFFICES ASSUME Init PROVE Fit(pages)
    OBVIOUS
  <1>1. Bytes(<<>>) <= PageSpace
    <2>1. DOMAIN <<>> = {}
      OBVIOUS
    <2> QED
      BY <2>1, BytesNone, SizeFacts
  <1>2. PageFits(Unwritten) /\ PageFits(Leaf(<<>>, NoLeaf, NoLeaf))
    BY <1>1, LeafFits DEF PageFits, Unwritten
  <1> QED
    BY <1>2, TreeFacts DEF Init, Fit

LEMMA FitNext == TreeInv /\ Fit(pages) /\ [Next]_vars => Fit(pages)'
  <1> SUFFICES ASSUME TreeInv, Fit(pages), [Next]_vars PROVE Fit(pages)'
    OBVIOUS
  <1>1. Fit(pages)' <=> Fit(pages')
    BY DEF Fit, PageFits
  <1>2. CASE UNCHANGED vars
    BY <1>1, <1>2 DEF vars
  <1> QED
    BY <1>1, <1>2, FitInsert DEF Next

\* No page is made to hold more than its space (tree.rs:58-230, page.rs:341-414, 449-481):
\* the space check of an insert and those of both kinds of splits add up, for every
\* page size and every mix of payload lengths.
THEOREM PagesAlwaysFit == Spec => []PagesFit
  <1>1. Fit(pages) => PagesFit
    BY DEF Fit, PageFits, PagesFit
  <1> QED
    BY <1>1, FitInit, FitNext, TreeInvAlways, PTL DEF Spec

-----------------------------------------------------------------------------
\* A single page write, as CrashTree takes them.

\* next_leaf leads to another page below the root, allocated though perhaps not
\* written yet.
Follows(pg, count) ==
  \A p \in PageId :
    (pg[p].type = "leaf" /\ pg[p].next # NoLeaf) =>
      pg[p].next \notin {p, Root} /\ ~(count <= pg[p].next)

\* The pages after one write.
Replaced(pg, p, content) == [pg EXCEPT ![p] = content]

\* The record of a key in some cells.
Record(cells, k) == IF k \in DOMAIN cells THEN cells[k] ELSE Absent

LEMMA FoundRecord == \A pg, k : Found(pg, k) = Record(pg[Route(pg, k)].cells, k)
  BY DEF Found, Record

LEMMA EmptyLeaf == LeafPage(Leaf(<<>>, NoLeaf, NoLeaf))
  <1>1. Records(<<>>)
    BY FS_EmptySet DEF Records
  <1> QED
    BY <1>1, LeafFacts

\* A leaf is written, or a page no key leads to.
LEMMA PagePut ==
  ASSUME NEW pg, NEW count, Shape(pg, count), HoldsOwn(pg), Follows(pg, count),
         NEW p \in PageId, ~(count <= p), pg[p].type # "interior",
         NEW n, LeafPage(n) \/ (Blank(n) /\ pg[p].type # "leaf"),
         (n.type = "leaf" /\ n.next # NoLeaf) => n.next \notin {p, Root} /\ ~(count <= n.next),
         \A x \in Key : Route(pg, x) = p => \A y \in DOMAIN n.cells : Route(pg, y) = p,
         NEW pq, pq = Replaced(pg, p, n)
  PROVE  /\ Shape(pq, count) /\ HoldsOwn(pq) /\ Follows(pq, count)
         /\ \A x \in Key : Route(pq, x) = Route(pg, x)
         /\ \A x \in Key :
              Found(pq, x) = IF Route(pg, x) = p THEN Record(n.cells, x) ELSE Found(pg, x)
  <1>1. /\ pg = [q \in PageId |-> pg[q]] /\ Children(pg)
        /\ \A q \in PageId : count <= q => pg[q] = Unwritten
        /\ \A q \in PageId \ {Root} : Blank(pg[q]) \/ LeafPage(pg[q])
        /\ LeafPage(pg[Root]) \/ RootNode(pg[Root])
    BY DEF Shape
  <1>2. /\ pq = [q \in PageId |-> pq[q]]
        /\ pq[p] = n /\ \A q \in PageId \ {p} : pq[q] = pg[q]
    BY <1>1 DEF Replaced
  <1>3. /\ \A c : LeafPage(c) => c.type = "leaf"
        /\ \A c : RootNode(c) => c.type = "interior"
        /\ \A c : Blank(c) => c.type = "free"
    BY TreeFacts DEF LeafPage, RootNode, Blank
  <1>4. /\ LeafPage(pq[Root]) \/ RootNode(pq[Root])
        /\ pq[Root].type = "interior" <=> pg[Root].type = "interior"
        /\ pq[Root].type = "interior" => pq[Root] = pg[Root]
        /\ pq[Root].type = "leaf" <=> pg[Root].type = "leaf"
    BY <1>1, <1>2, <1>3, TreeFacts
  <1>5. Children(pq)
    <2> SUFFICES ASSUME pq[Root].type = "interior"
                 PROVE  /\ pq[pq[Root].right].type = "leaf"
                        /\ \A i \in 1..Len(pq[Root].cells) : pq[pq[Root].cells[i].child].type = "leaf"
      BY DEF Children
    <2>1. RootNode(pg[Root]) /\ pg[Root].type = "interior" /\ pq[Root] = pg[Root]
      BY <1>1, <1>3, <1>4
    <2>2. /\ pg[Root].right \in PageId
          /\ \A i \in 1..Len(pg[Root].cells) : pg[Root].cells[i].child \in PageId
      BY <2>1, CellsFacts DEF RootNode
    <2>3. \A q \in PageId : pg[q].type = "leaf" => pq[q].type = "leaf"
      BY <1>2, <1>3
    <2> QED
      BY <1>1, <2>1, <2>2, <2>3 DEF Children
  <1>6. Shape(pq, count)
    <2>1. \A q \in PageId : count <= q => pq[q] = Unwritten
      BY <1>1, <1>2
    <2>2. \A q \in PageId \ {Root} : Blank(pq[q]) \/ LeafPage(pq[q])
      BY <1>1, <1>2
    <2> QED
      BY <1>2, <1>4, <1>5, <2>1, <2>2 DEF Shape
  <1>7. \A x : Route(pq, x) = Route(pg, x)
    BY <1>4 DEF Route
  <1>8. \A x \in Key : Route(pg, x) \in PageId
    BY RouteFacts
  <1>9. HoldsOwn(pq)
    <2> SUFFICES ASSUME NEW j \in Key, NEW k \in Key, k \in DOMAIN pq[Route(pg, j)].cells
                 PROVE  Route(pg, k) = Route(pg, j)
      BY <1>7 DEF HoldsOwn
    <2>1. CASE Route(pg, j) = p
      BY <1>2, <2>1
    <2>2. CASE Route(pg, j) # p
      BY <1>2, <1>8, <2>2 DEF HoldsOwn
    <2> QED
      BY <2>1, <2>2
  <1>10. Follows(pq, count)
    BY <1>2 DEF Follows
  <1>11. \A x \in Key :
           Found(pq, x) = IF Route(pg, x) = p THEN Record(n.cells, x) ELSE Found(pg, x)
    BY <1>2, <1>7, <1>8, FoundRecord
  <1> QED
    BY <1>6, <1>7, <1>9, <1>10, <1>11

\* The header is written: page numbers are allocated.
LEMMA HeaderPut ==
  ASSUME NEW pg, NEW count \in Int, Shape(pg, count), Follows(pg, count), NEW d \in Int, count <= d
  PROVE  Shape(pg, d) /\ Follows(pg, d)
  <1>1. \A p \in PageId : d <= p => count <= p
    BY TreeFacts
  <1>2. Shape(pg, d)
    BY <1>1 DEF Shape
  <1>3. ASSUME NEW p \in PageId, pg[p].type = "leaf", pg[p].next # NoLeaf
        PROVE  pg[p].next \notin {p, Root} /\ ~(d <= pg[p].next)
    <2>1. LeafPage(pg[p])
      BY <1>3, PageTypes
    <2>2. pg[p].next \in PageId
      BY <1>3, <2>1 DEF LeafPage
    <2> QED
      BY <1>1, <1>3, <2>2 DEF Follows
  <1> QED
    BY <1>2, <1>3 DEF Follows

\* The root gives way to the parent of its two halves.
LEMMA RootPut ==
  ASSUME NEW pg, NEW count, Shape(pg, count), HoldsOwn(pg), Follows(pg, count), ~(count <= Root),
         pg[Root].type = "leaf",
         NEW left \in PageId \ {Root}, NEW right \in PageId \ {Root, left}, NEW sep \in Key,
         pg[left].type = "leaf", pg[right].type = "leaf",
         \A x \in DOMAIN pg[left].cells : x <= sep, \A x \in DOMAIN pg[right].cells : sep < x,
         NEW pq, pq = Replaced(pg, Root, Interior(<<[child |-> left, key |-> sep]>>, right))
  PROVE  /\ Shape(pq, count) /\ HoldsOwn(pq) /\ Follows(pq, count)
         /\ \A x \in Key : Route(pq, x) = IF sep < x THEN right ELSE left
         /\ \A x \in Key :
              Found(pq, x) = IF sep < x THEN Record(pg[right].cells, x) ELSE Record(pg[left].cells, x)
  <1> DEFINE cells == <<[child |-> left, key |-> sep]>>
             root == Interior(cells, right)
  <1>1. /\ pg = [q \in PageId |-> pg[q]]
        /\ \A q \in PageId : count <= q => pg[q] = Unwritten
        /\ \A q \in PageId \ {Root} : Blank(pg[q]) \/ LeafPage(pg[q])
    BY DEF Shape
  <1>2. /\ pq = [q \in PageId |-> pq[q]]
        /\ pq[Root] = root /\ \A q \in PageId \ {Root} : pq[q] = pg[q]
    BY <1>1, TreeFacts DEF Replaced
  <1>3. /\ cells \in Cells /\ Len(cells) = 1 /\ cells[1].child = left /\ cells[1].key = sep
        /\ root = Interior(cells, right) /\ root.type = "interior"
        /\ root.cells = cells /\ root.right = right
    <2>1. [child |-> left, key |-> sep] \in [child : PageId \ {Root}, key : Key]
      OBVIOUS
    <2> QED
      BY <2>1 DEF Cells, Interior
  <1> HIDE DEF cells, root
  <1>4. RootNode(root)
    <2>1. \A i \in 1..Len(cells) : i = 1
      BY <1>3
    <2>2. \A i \in 1..Len(cells) : cells[i].child # right
      BY <1>3, <2>1
    <2> QED
      BY <1>3, <2>2 DEF RootNode
  <1>5. Children(pq)
    <2>1. \A i \in 1..Len(cells) : i = 1
      BY <1>3
    <2> QED
      BY <1>2, <1>3, <2>1 DEF Children
  <1>6. Shape(pq, count)
    BY <1>1, <1>2, <1>4, <1>5, TreeFacts DEF Shape
  <1>7. ASSUME NEW x \in Key PROVE Route(pq, x) = IF sep < x THEN right ELSE left
    <2>1. Route(pq, x) = Child(root, x)
      BY <1>2, <1>3 DEF Route
    <2>2. /\ Past(cells, x) => Child(root, x) = right
          /\ \A i : First(cells, x, i) => Child(root, x) = cells[i].child
      BY <1>3, ChildFacts
    <2>3. x \in Int /\ sep \in Int
      BY TreeFacts
    <2>4. CASE sep < x
      <3>1. Past(cells, x)
        BY <1>3, <2>4 DEF Past
      <3> QED
        BY <2>1, <2>2, <2>4, <3>1
    <2>5. CASE x <= sep
      <3>1. First(cells, x, 1)
        BY <1>3, <2>5 DEF First
      <3> QED
        BY <1>3, <2>1, <2>2, <2>3, <2>5, <3>1
    <2> QED
      BY <2>3, <2>4, <2>5
  <1>8. HoldsOwn(pq)
    <2> SUFFICES ASSUME NEW j \in Key, NEW k \in Key, k \in DOMAIN pq[Route(pq, j)].cells
                 PROVE  Route(pq, k) = Route(pq, j)
      BY DEF HoldsOwn
    <2>1. j \in Int /\ k \in Int /\ sep \in Int
      BY TreeFacts
    <2>2. IF sep < j THEN k \in DOMAIN pg[right].cells ELSE k \in DOMAIN pg[left].cells
      BY <1>2, <1>7
    <2>3. sep < k <=> sep < j
      BY <2>1, <2>2
    <2> QED
      BY <1>7, <2>3
  <1>9. Follows(pq, count)
    BY <1>2, <1>3 DEF Follows
  <1>10. \A x \in Key :
           Found(pq, x) = IF sep < x THEN Record(pg[right].cells, x) ELSE Record(pg[left].cells, x)
    BY <1>2, <1>7, FoundRecord
  <1> QED
    BY <1>6, <1>7, <1>8, <1>9, <1>10

\* The parent gives the new leaf its route: the keys that come with it are those
\* above the separator that led to the lower half, if that was the rightmost child.
LEMMA ParentPut ==
  ASSUME NEW pg, NEW count, Shape(pg, count), HoldsOwn(pg), Follows(pg, count), ~(count <= Root),
         pg[Root].type = "interior",
         NEW l \in PageId \ {Root}, NEW new \in PageId \ {Root, l}, NEW sep \in Key,
         Route(pg, sep) = l, \A x \in Key : Route(pg, x) # new,
         new # pg[Root].right, \A i \in 1..Len(pg[Root].cells) : pg[Root].cells[i].child # new,
         pg[l].type = "leaf", pg[new].type = "leaf",
         \A x \in DOMAIN pg[l].cells : x <= sep,
         \A x \in DOMAIN pg[new].cells : sep < x /\ Route(pg, x) = l,
         NEW pq, pq = Replaced(pg, Root, WithChild(pg[Root], l, sep, new))
  PROVE  /\ Shape(pq, count) /\ HoldsOwn(pq) /\ Follows(pq, count)
         /\ \A x \in Key :
              Route(pq, x) = IF pg[Root].right = l /\ sep < x /\ Route(pg, x) = l
                               THEN new ELSE Route(pg, x)
         /\ \A x \in Key :
              Found(pq, x) = IF pg[Root].right = l /\ sep < x /\ Route(pg, x) = l
                               THEN Record(pg[new].cells, x) ELSE Found(pg, x)
  <1> DEFINE root == pg[Root]
             node == WithChild(root, l, sep, new)
             moved(x) == root.right = l /\ sep < x /\ Route(pg, x) = l
  <1>1. /\ pg = [q \in PageId |-> pg[q]]
        /\ \A q \in PageId : count <= q => pg[q] = Unwritten
        /\ \A q \in PageId \ {Root} : Blank(pg[q]) \/ LeafPage(pg[q])
        /\ Children(pg) /\ RootNode(root) /\ root.cells \in Cells
    BY PageTypes, TreeFacts DEF Shape, RootNode
  <1>2. /\ pq = [q \in PageId |-> pq[q]]
        /\ pq[Root] = node /\ \A q \in PageId \ {Root} : pq[q] = pg[q]
    BY <1>1, TreeFacts DEF Replaced
  <1>3. \A x \in Key : Route(pg, x) = Child(root, x)
    BY DEF Route
  <1>4. /\ RootNode(node)
        /\ node.right = IF root.right = l THEN new ELSE root.right
        /\ \A i \in 1..Len(node.cells) :
             \/ node.cells[i].child = l
             \/ \E j \in 1..Len(root.cells) : node.cells[i].child = root.cells[j].child
        /\ \A x \in Key :
             Child(node, x) = IF sep < x /\ root.right = l /\ Child(root, x) = l
                              THEN new ELSE Child(root, x)
    <2>1. Child(root, sep) = l /\ RootNode(root)
      BY <1>1, <1>3
    <2>2. new # root.right /\ \A i \in 1..Len(root.cells) : root.cells[i].child # new
      OBVIOUS
    <2> HIDE DEF root
    <2> QED
      BY <2>1, <2>2, WithChildFacts
  <1>5. node.type = "interior"
    BY TreeFacts DEF WithChild
  <1> HIDE DEF node
  <1>6. Children(pq)
    <2>1. /\ pq[l].type = "leaf" /\ pq[new].type = "leaf"
          /\ pq[root.right].type = "leaf"
          /\ \A j \in 1..Len(root.cells) : pq[root.cells[j].child].type = "leaf"
      BY <1>1, <1>2, CellsFacts DEF Children, RootNode
    <2>2. pq[node.right].type = "leaf"
      BY <1>4, <2>1
    <2>3. \A i \in 1..Len(node.cells) : pq[node.cells[i].child].type = "leaf"
      BY <1>4, <2>1
    <2> QED
      BY <1>2, <2>2, <2>3 DEF Children
  <1>7. Shape(pq, count)
    BY <1>1, <1>2, <1>4, <1>6, TreeFacts DEF Shape
  <1>8. \A x \in Key : Route(pq, x) = IF moved(x) THEN new ELSE Route(pg, x)
    <2>1. \A x \in Key : Route(pq, x) = Child(node, x)
      BY <1>2, <1>5 DEF Route
    <2> QED
      BY <1>3, <1>4, <2>1
  <1>9. \A x \in Key : Route(pg, x) \in PageId \ {Root}
    BY RouteFacts, TreeFacts
  <1>10. HoldsOwn(pq)
    <2> SUFFICES ASSUME NEW j \in Key, NEW k \in Key, k \in DOMAIN pq[Route(pq, j)].cells
                 PROVE  Route(pq, k) = Route(pq, j)
      BY DEF HoldsOwn
    <2>1. j \in Int /\ k \in Int /\ sep \in Int
      BY TreeFacts
    <2>2. CASE moved(j)
      <3>1. k \in DOMAIN pg[new].cells
        BY <1>2, <1>8, <2>2
      <3> QED
        BY <1>8, <2>2, <3>1
    <2>3. CASE ~moved(j)
      <3>1. k \in DOMAIN pg[Route(pg, j)].cells /\ Route(pq, j) = Route(pg, j)
        BY <1>2, <1>8, <1>9, <2>3
      <3>2. Route(pg, k) = Route(pg, j)
        BY <3>1 DEF HoldsOwn
      <3>3. ~moved(k)
        BY <2>1, <3>1, <3>2
      <3> QED
        BY <1>8, <3>1, <3>2, <3>3
    <2> QED
      BY <2>2, <2>3
  <1>11. Follows(pq, count)
    BY <1>2, <1>5, TreeFacts DEF Follows
  <1>12. \A x \in Key : Found(pq, x) = IF moved(x) THEN Record(pg[new].cells, x) ELSE Found(pg, x)
    BY <1>2, <1>8, <1>9, FoundRecord
  <1> QED
    BY <1>7, <1>8, <1>10, <1>11, <1>12

================================================================================
