------------------------------ MODULE BTreeChain ------------------------------
(***************************************************************************)
(* Theorems about the leaf chain, for every number of pages and every set  *)
(* of keys: next_leaf leads through every leaf and ends, no acknowledged   *)
(* record leaves it, prev_leaf is the way back but for the links a         *)
(* panicking split spoils, and a range scan along it agrees with search as *)
(* long as every leaf has a route.                                         *)
(***************************************************************************)
EXTENDS BTreeProofs

-----------------------------------------------------------------------------
\* The inductive invariant.

LeastKey == Min(Key)

LeafAt(pg, p) == pg[p].type = "leaf"

\* The chain as a sequence s of n pages, from the leaf the least key leads to.
Line(pg, n, s) ==
  /\ n \in Nat /\ 1 <= n
  /\ s \in [1..n -> PageId]
  /\ \A i, j \in 1..n : s[i] = s[j] => i = j
  /\ s[1] = Route(pg, LeastKey)
  /\ \A i \in 1..n :
       LeafAt(pg, s[i]) /\ pg[s[i]].next = IF i < n THEN s[i + 1] ELSE NoLeaf

\* Every leaf is on it.
Whole(pg, n, s) ==
  /\ Line(pg, n, s)
  /\ \A p \in PageId : LeafAt(pg, p) => \E i \in 1..n : s[i] = p

Chained(pg) == \E n, s : Whole(pg, n, s)

\* The root is a leaf only as long as it is the only one.
Lone(pg) == LeafAt(pg, Root) => \A p \in PageId : LeafAt(pg, p) => p = Root

\* Some leaf holds the record of each key an insert was acknowledged for.
Holds(pg, k, S) == \E p \in PageId : LeafAt(pg, p) /\ k \in DOMAIN pg[p].cells /\ pg[p].cells[k] \in S
Kept(pg, e) == \A k \in Key : Absent \notin e[k] => Holds(pg, k, e[k])

ChainInv == TreeInv /\ Lone(pages) /\ Chained(pages) /\ Kept(pages, expected)

-----------------------------------------------------------------------------
\* Lines.

LEMMA LeastKeyFacts == LeastKey \in Key /\ \A x \in Key : LeastKey <= x
  BY LeastKeyAssumption DEF HasLeast, LeastKey, Min

\* Writes that keep the types and the links of the pages keep the line.
LEMMA LineSame ==
  ASSUME NEW pg, NEW pq, NEW n, NEW s, Whole(pg, n, s),
         \A p \in PageId : LeafAt(pq, p) <=> LeafAt(pg, p),
         \A p \in PageId : LeafAt(pg, p) => pq[p].next = pg[p].next,
         Route(pq, LeastKey) = Route(pg, LeastKey)
  PROVE  Whole(pq, n, s)
  <1>1. Line(pq, n, s)
    <2>1. \A i \in 1..n : s[i] \in PageId
      BY DEF Whole, Line
    <2> QED
      BY <2>1 DEF Whole, Line
  <1> QED
    BY <1>1 DEF Whole

LEMMA ChainedSame ==
  ASSUME NEW pg, NEW pq, Chained(pg),
         \A p \in PageId : LeafAt(pq, p) <=> LeafAt(pg, p),
         \A p \in PageId : LeafAt(pg, p) => pq[p].next = pg[p].next,
         Route(pq, LeastKey) = Route(pg, LeastKey)
  PROVE  Chained(pq)
  BY LineSame DEF Chained

\* The line with a new leaf behind its j-th one.
Behind(n, s, j, new) ==
  [i \in 1..n + 1 |-> IF i <= j THEN s[i] ELSE IF i = j + 1 THEN new ELSE s[i - 1]]

LEMMA LineGrows ==
  ASSUME NEW pg, NEW pq, NEW n, NEW s, Whole(pg, n, s), NEW j \in 1..n,
         NEW id \in PageId, s[j] = id, NEW new \in PageId, ~LeafAt(pg, new),
         \A p \in PageId : LeafAt(pq, p) <=> (LeafAt(pg, p) \/ p = new),
         pq[id].next = new, pq[new].next = pg[id].next,
         \A p \in PageId : LeafAt(pg, p) /\ p # id => pq[p].next = pg[p].next,
         Route(pq, LeastKey) = Route(pg, LeastKey)
  PROVE  Whole(pq, n + 1, Behind(n, s, j, new))
  <1>1. /\ n \in Nat /\ 1 <= n /\ \A i \in 1..n : s[i] \in PageId
        /\ \A i, j1 \in 1..n : s[i] = s[j1] => i = j1
        /\ s[1] = Route(pg, LeastKey)
        /\ \A i \in 1..n : LeafAt(pg, s[i]) /\ pg[s[i]].next = IF i < n THEN s[i + 1] ELSE NoLeaf
        /\ \A p \in PageId : LeafAt(pg, p) => \E i \in 1..n : s[i] = p
    BY DEF Whole, Line
  <1>2. s[j] = id /\ LeafAt(pg, id)
    BY <1>1
  <1> DEFINE t == Behind(n, s, j, new)
  <1>3. /\ \A i \in 1..n + 1 : i <= j => i \in 1..n /\ t[i] = s[i]
        /\ j + 1 \in 1..n + 1 /\ t[j + 1] = new
        /\ \A i \in 1..n + 1 : i > j + 1 => i - 1 \in 1..n /\ t[i] = s[i - 1]
    BY <1>1 DEF Behind
  <1>4. t \in [1..n + 1 -> PageId]
    BY <1>1 DEF Behind
  <1> HIDE DEF t
  <1>5. \A i \in 1..n : s[i] # new
    BY <1>1
  <1>6. ASSUME NEW a \in 1..n + 1, NEW b \in 1..n + 1, t[a] = t[b] PROVE a = b
    <2>1. a \in Nat /\ b \in Nat /\ j \in Nat
      BY <1>1
    <2>2. CASE a <= j
      BY <1>1, <1>3, <1>5, <1>6, <2>1, <2>2
    <2>3. CASE a = j + 1
      BY <1>1, <1>3, <1>5, <1>6, <2>1, <2>3
    <2>4. CASE a > j + 1
      BY <1>1, <1>3, <1>5, <1>6, <2>1, <2>4
    <2> QED
      BY <2>1, <2>2, <2>3, <2>4
  <1>7. t[1] = Route(pq, LeastKey)
    BY <1>1, <1>3
  <1>8. ASSUME NEW i \in 1..n + 1
        PROVE  LeafAt(pq, t[i]) /\ pq[t[i]].next = IF i < n + 1 THEN t[i + 1] ELSE NoLeaf
    <2>1. i \in Nat /\ j \in Nat
      BY <1>1
    <2>2. CASE i < j
      <3>1. /\ t[i] = s[i] /\ i < n /\ t[i + 1] = s[i + 1] /\ s[i] # id /\ i \in 1..n
        BY <1>1, <1>2, <1>3, <2>1, <2>2
      <3> QED
        BY <1>1, <2>1, <3>1
    <2>3. CASE i = j
      <3>1. t[i] = id /\ i < n + 1 /\ t[i + 1] = new
        BY <1>1, <1>2, <1>3, <2>1, <2>3
      <3> QED
        BY <1>2, <3>1
    <2>4. CASE i = j + 1
      <3>1. t[i] = new /\ pq[new].next = IF j < n THEN s[j + 1] ELSE NoLeaf
        BY <1>1, <1>2, <1>3, <2>4
      <3>2. j < n => i + 1 \in 1..n + 1 /\ t[i + 1] = s[j + 1] /\ i < n + 1
        BY <1>1, <1>3, <2>1, <2>4
      <3>3. j < n <=> i < n + 1
        BY <1>1, <2>1, <2>4
      <3> QED
        BY <3>1, <3>2, <3>3
    <2>5. CASE i > j + 1
      <3>1. t[i] = s[i - 1] /\ i - 1 \in 1..n /\ i - 1 # j
        BY <1>3, <2>1, <2>5
      <3>2. s[i - 1] # id
        BY <1>1, <1>2, <3>1
      <3>3. pq[t[i]].next = IF i - 1 < n THEN s[i - 1 + 1] ELSE NoLeaf
        BY <1>1, <3>1, <3>2
      <3>4. i < n + 1 => t[i + 1] = s[i - 1 + 1]
        BY <1>1, <1>3, <2>1, <2>5
      <3>5. i - 1 < n <=> i < n + 1
        BY <1>1, <2>1
      <3> QED
        BY <1>1, <3>1, <3>3, <3>4, <3>5
    <2> QED
      BY <2>1, <2>2, <2>3, <2>4, <2>5
  <1>9. ASSUME NEW p \in PageId, LeafAt(pq, p) PROVE \E i \in 1..n + 1 : t[i] = p
    <2>1. CASE p = new
      BY <1>3, <2>1
    <2>2. CASE LeafAt(pg, p)
      <3>1. PICK i \in 1..n : s[i] = p
        BY <1>1, <2>2
      <3>2. CASE i <= j
        BY <1>1, <1>3, <3>1, <3>2
      <3>3. CASE i > j
        <4>1. i + 1 \in 1..n + 1 /\ i + 1 > j + 1 /\ i + 1 - 1 = i
          BY <1>1, <3>3
        <4>2. t[i + 1] = s[i]
          BY <1>3, <4>1
        <4> QED
          BY <3>1, <4>1, <4>2
      <3> QED
        BY <1>1, <3>2, <3>3
    <2> QED
      BY <1>9, <2>1, <2>2
  <1>10. n + 1 \in Nat /\ 1 <= n + 1
    BY <1>1
  <1>11. Whole(pq, n + 1, t)
    BY <1>4, <1>6, <1>7, <1>8, <1>9, <1>10 DEF Whole, Line
  <1> QED
    BY <1>11 DEF t

\* The line of two leaves a root split leaves behind.
LEMMA LineOfTwo ==
  ASSUME NEW pg, NEW left \in PageId, NEW right \in PageId, left # right,
         \A p \in PageId : LeafAt(pg, p) <=> p \in {left, right},
         pg[left].next = right, pg[right].next = NoLeaf, Route(pg, LeastKey) = left
  PROVE  Whole(pg, 2, [i \in 1..2 |-> IF i = 1 THEN left ELSE right])
  <1> DEFINE t == [i \in 1..2 |-> IF i = 1 THEN left ELSE right]
  <1>1. /\ t \in [1..2 -> PageId] /\ t[1] = left /\ t[2] = right
        /\ \A i \in 1..2 : i = 1 \/ i = 2
    OBVIOUS
  <1> HIDE DEF t
  <1>2. /\ \A i \in 1..2 : LeafAt(pg, t[i]) /\ pg[t[i]].next = IF i < 2 THEN t[i + 1] ELSE NoLeaf
        /\ \A i, j \in 1..2 : t[i] = t[j] => i = j
    BY <1>1
  <1>3. \A p \in PageId : LeafAt(pg, p) => \E i \in 1..2 : t[i] = p
    BY <1>1
  <1>4. Whole(pg, 2, t)
    BY <1>1, <1>2, <1>3 DEF Whole, Line
  <1> QED
    BY <1>4 DEF t

\* The line of the root alone.
LEMMA LineOfOne ==
  ASSUME NEW pg, LeafAt(pg, Root), Lone(pg), pg[Root].next = NoLeaf, Route(pg, LeastKey) = Root
  PROVE  Whole(pg, 1, [i \in 1..1 |-> Root])
  <1> DEFINE t == [i \in 1..1 |-> Root]
  <1>1. t \in [1..1 -> PageId] /\ t[1] = Root /\ \A i \in 1..1 : i = 1
    BY TreeFacts
  <1> HIDE DEF t
  <1>2. Whole(pg, 1, t)
    BY <1>1 DEF Whole, Line, Lone
  <1> QED
    BY <1>2 DEF t

-----------------------------------------------------------------------------
\* The chain as far as it goes.  Where a crash has kept the upper half of a leaf
\* from being written, it leads to a page that is no leaf.

\* The leaves s from that of the least key on, each the next of the one before.
Thread(pg, n, s) ==
  /\ n \in Nat /\ 1 <= n
  /\ s \in [1..n -> PageId]
  /\ \A i, j \in 1..n : s[i] = s[j] => i = j
  /\ s[1] = Route(pg, LeastKey)
  /\ \A i \in 1..n : LeafAt(pg, s[i]) /\ (i < n => pg[s[i]].next = s[i + 1])

Cut(pg, n, s) == pg[s[n]].next # NoLeaf /\ ~LeafAt(pg, pg[s[n]].next)

Has(pg, p, x, S) == x \in DOMAIN pg[p].cells /\ pg[p].cells[x] \in S

\* A thread that ends has every leaf a search ends at, and the records wanted.
Complete(pg, n, s, want) ==
  /\ pg[s[n]].next = NoLeaf
  /\ \A x \in Key : \E i \in 1..n : s[i] = Route(pg, x)
  /\ \A x \in Key : Absent \notin want[x] => \E i \in 1..n : Has(pg, s[i], x, want[x])

Threaded(pg, want) ==
  /\ LeafAt(pg, Root) => pg[Root].next = NoLeaf
  /\ \E n, s : Thread(pg, n, s) /\ (Cut(pg, n, s) \/ Complete(pg, n, s, want))

\* next_leaf is a page.
Links(pg) == \A p \in PageId : LeafAt(pg, p) => pg[p].next \in PageId \union {NoLeaf}

LEMMA ShapeLinks ==
  ASSUME NEW pg, NEW count, Shape(pg, count)
  PROVE  Links(pg)
  BY PageTypes, LeafFacts DEF Links, LeafAt

LEMMA ThreadFacts ==
  ASSUME NEW pg, NEW n, NEW s, Thread(pg, n, s)
  PROVE  /\ n \in Nat /\ 1 <= n /\ n \in 1..n /\ 1 \in 1..n
         /\ \A i \in 1..n : s[i] \in PageId /\ LeafAt(pg, s[i])
         /\ \A i \in 1..n : i < n => i + 1 \in 1..n /\ pg[s[i]].next = s[i + 1]
         /\ \A i, j \in 1..n : s[i] = s[j] => i = j
         /\ s[1] = Route(pg, LeastKey)
  BY DEF Thread

\* Fewer records are wanted, or of more payloads.
LEMMA ThreadMore ==
  ASSUME NEW pg, NEW want, NEW more, Threaded(pg, want),
         \A x \in Key : Absent \notin more[x] => Absent \notin want[x] /\ want[x] \subseteq more[x]
  PROVE  Threaded(pg, more)
  <1>1. PICK n, s : Thread(pg, n, s) /\ (Cut(pg, n, s) \/ Complete(pg, n, s, want))
    BY DEF Threaded
  <1>2. Complete(pg, n, s, want) => Complete(pg, n, s, more)
    BY DEF Complete, Has
  <1> QED
    BY <1>1, <1>2 DEF Threaded

\* Writes that keep the leaves and their links keep the thread.
LEMMA ThreadPut ==
  ASSUME NEW pg, NEW pq, NEW want, NEW more, Threaded(pg, want), Links(pg),
         \A p \in PageId : LeafAt(pq, p) <=> LeafAt(pg, p),
         \A p \in PageId : LeafAt(pg, p) => pq[p].next = pg[p].next,
         \A x \in Key : Route(pq, x) = Route(pg, x),
         \A x \in Key : Absent \notin more[x] =>
           \/ Has(pq, Route(pg, x), x, more[x])
           \/ /\ Absent \notin want[x]
              /\ \A p \in PageId : LeafAt(pg, p) /\ Has(pg, p, x, want[x]) => Has(pq, p, x, more[x])
  PROVE  Threaded(pq, more)
  <1>1. PICK n, s : Thread(pg, n, s) /\ (Cut(pg, n, s) \/ Complete(pg, n, s, want))
    BY DEF Threaded
  <1>2. /\ n \in Nat /\ 1 <= n /\ n \in 1..n
        /\ \A i \in 1..n : s[i] \in PageId /\ LeafAt(pg, s[i]) /\ pq[s[i]].next = pg[s[i]].next
    BY <1>1, ThreadFacts
  <1>3. Route(pq, LeastKey) = Route(pg, LeastKey)
    BY LeastKeyFacts
  <1>4. Thread(pq, n, s)
    BY <1>1, <1>2, <1>3 DEF Thread
  <1>5. ASSUME Cut(pg, n, s) PROVE Cut(pq, n, s)
    <2>1. pg[s[n]].next \in PageId
      BY <1>2, <1>5 DEF Cut, Links
    <2> QED
      BY <1>2, <1>5, <2>1 DEF Cut
  <1>6. ASSUME Complete(pg, n, s, want) PROVE Complete(pq, n, s, more)
    <2>1. \A x \in Key : \E i \in 1..n : s[i] = Route(pg, x)
      BY <1>6 DEF Complete
    <2>2. ASSUME NEW x \in Key, Absent \notin more[x] PROVE \E i \in 1..n : Has(pq, s[i], x, more[x])
      <3>1. CASE Has(pq, Route(pg, x), x, more[x])
        BY <2>1, <3>1
      <3>2. CASE /\ Absent \notin want[x]
                 /\ \A p \in PageId : LeafAt(pg, p) /\ Has(pg, p, x, want[x]) => Has(pq, p, x, more[x])
        <4>1. PICK i \in 1..n : Has(pg, s[i], x, want[x])
          BY <1>6, <3>2 DEF Complete
        <4> QED
          BY <1>2, <3>2, <4>1
      <3> QED
        BY <2>2, <3>1, <3>2
    <2>3. pq[s[n]].next = NoLeaf
      BY <1>2, <1>6 DEF Complete
    <2> QED
      BY <2>1, <2>2, <2>3 DEF Complete
  <1>7. LeafAt(pq, Root) => pq[Root].next = NoLeaf
    BY TreeFacts DEF Threaded
  <1> QED
    BY <1>1, <1>4, <1>5, <1>6, <1>7 DEF Threaded

\* A root leaf is all of the chain.
LEMMA ThreadOfOne ==
  ASSUME NEW pg, NEW want, LeafAt(pg, Root), pg[Root].next = NoLeaf,
         \A x \in Key : Absent \notin want[x] => Has(pg, Root, x, want[x])
  PROVE  Threaded(pg, want)
  <1> DEFINE t == [i \in 1..1 |-> Root]
  <1>1. t \in [1..1 -> PageId] /\ t[1] = Root /\ \A i \in 1..1 : i = 1
    BY TreeFacts
  <1> HIDE DEF t
  <1>2. \A x \in Key : Route(pg, x) = Root
    BY DEF Route, LeafAt
  <1>3. Thread(pg, 1, t)
    BY <1>1, <1>2, LeastKeyFacts DEF Thread
  <1>4. Complete(pg, 1, t, want)
    BY <1>1, <1>2 DEF Complete
  <1> QED
    BY <1>3, <1>4 DEF Threaded

LEMMA RootHolds ==
  ASSUME NEW pg, NEW want, Threaded(pg, want), LeafAt(pg, Root)
  PROVE  /\ pg[Root].next = NoLeaf
         /\ \A x \in Key : Absent \notin want[x] => Has(pg, Root, x, want[x])
  <1>1. PICK n, s : Thread(pg, n, s) /\ (Cut(pg, n, s) \/ Complete(pg, n, s, want))
    BY DEF Threaded
  <1>2. pg[Root].next = NoLeaf
    BY DEF Threaded
  <1>3. s[1] = Root
    BY <1>1, ThreadFacts DEF Route, LeafAt
  <1>4. n = 1
    <2> SUFFICES ASSUME n # 1 PROVE FALSE
      OBVIOUS
    <2>1. n \in Nat /\ 1 <= n /\ 1 \in 1..n /\ 1 < n
      BY <1>1, ThreadFacts
    <2>2. pg[s[1]].next = s[2] /\ s[2] \in PageId
      BY <1>1, <2>1, ThreadFacts
    <2> QED
      BY <1>2, <1>3, <2>2, TreeFacts
  <1>5. Complete(pg, n, s, want)
    BY <1>1, <1>2, <1>3, <1>4 DEF Cut
  <1>6. \A i \in 1..n : s[i] = Root
    BY <1>3, <1>4
  <1> QED
    BY <1>2, <1>5, <1>6 DEF Complete

\* Two leaves below a root are all of the chain.
LEMMA ThreadOfTwo ==
  ASSUME NEW pg, NEW want, NEW left \in PageId, NEW right \in PageId, left # right,
         LeafAt(pg, left), LeafAt(pg, right), ~LeafAt(pg, Root),
         pg[left].next = right, pg[right].next = NoLeaf, Route(pg, LeastKey) = left,
         \A x \in Key : Route(pg, x) \in {left, right},
         \A x \in Key : Absent \notin want[x] => Found(pg, x) \in want[x]
  PROVE  Threaded(pg, want)
  <1> DEFINE t == [i \in 1..2 |-> IF i = 1 THEN left ELSE right]
  <1>1. /\ t \in [1..2 -> PageId] /\ t[1] = left /\ t[2] = right
        /\ 1 \in 1..2 /\ 2 \in 1..2 /\ \A i \in 1..2 : i = 1 \/ i = 2
    OBVIOUS
  <1> HIDE DEF t
  <1>2. Thread(pg, 2, t)
    BY <1>1 DEF Thread
  <1>3. \A x \in Key : \E i \in 1..2 : t[i] = Route(pg, x)
    BY <1>1
  <1>4. ASSUME NEW x \in Key, Absent \notin want[x] PROVE \E i \in 1..2 : Has(pg, t[i], x, want[x])
    <2>1. Has(pg, Route(pg, x), x, want[x])
      BY <1>4 DEF Has, Found
    <2> QED
      BY <1>3, <2>1
  <1>5. Complete(pg, 2, t, want)
    BY <1>1, <1>3, <1>4 DEF Complete
  <1> QED
    BY <1>2, <1>5 DEF Threaded

\* The lower half of a leaf is written, and leads to a page that is not there.
LEMMA ThreadCut ==
  ASSUME NEW pg, NEW pq, NEW want, NEW more, Threaded(pg, want), Links(pg), ~LeafAt(pg, Root),
         NEW k \in Key, NEW id \in PageId, id = Route(pg, k), LeafAt(pg, id),
         NEW new \in PageId, ~LeafAt(pg, new),
         \A p \in PageId : LeafAt(pq, p) <=> LeafAt(pg, p), pq[id].next = new,
         \A p \in PageId : LeafAt(pg, p) /\ p # id => pq[p].next = pg[p].next,
         Route(pq, LeastKey) = Route(pg, LeastKey)
  PROVE  Threaded(pq, more)
  <1>1. PICK n, s : Thread(pg, n, s) /\ (Cut(pg, n, s) \/ Complete(pg, n, s, want))
    BY DEF Threaded
  <1>2. /\ n \in Nat /\ 1 <= n /\ n \in 1..n
        /\ \A i \in 1..n : s[i] \in PageId /\ LeafAt(pg, s[i])
        /\ \A i \in 1..n : i < n => i + 1 \in 1..n /\ pg[s[i]].next = s[i + 1]
        /\ \A i, j \in 1..n : s[i] = s[j] => i = j
        /\ s[1] = Route(pg, LeastKey)
    BY <1>1, ThreadFacts
  <1>3. ~LeafAt(pq, Root) /\ new # NoLeaf
    BY TreeFacts
  <1>4. CASE \E j \in 1..n : s[j] = id
    <2>1. PICK j \in 1..n : s[j] = id
      BY <1>4
    <2> DEFINE t == [i \in 1..j |-> s[i]]
    <2>2. /\ j \in Nat /\ 1 <= j /\ t \in [1..j -> PageId] /\ 1 \in 1..j
          /\ \A i \in 1..j : t[i] = s[i] /\ i \in 1..n
          /\ \A i \in 1..j : i < j => i + 1 \in 1..j /\ i < n /\ i # j
      BY <1>2
    <2> HIDE DEF t
    <2>3. ASSUME NEW i \in 1..j PROVE LeafAt(pq, t[i]) /\ (i < j => pq[t[i]].next = t[i + 1])
      <3>1. LeafAt(pq, t[i])
        BY <1>2, <2>2
      <3>2. ASSUME i < j PROVE pq[t[i]].next = t[i + 1]
        <4>1. i # j /\ i < n /\ t[i] = s[i] /\ t[i + 1] = s[i + 1] /\ i \in 1..n
          BY <2>2, <3>2
        <4>2. s[i] # id
          BY <1>2, <2>1, <4>1
        <4> QED
          BY <1>2, <4>1, <4>2
      <3> QED
        BY <3>1, <3>2
    <2>4. \A i, m \in 1..j : t[i] = t[m] => i = m
      BY <1>2, <2>2
    <2>5. Thread(pq, j, t)
      BY <1>2, <2>2, <2>3, <2>4 DEF Thread
    <2>6. Cut(pq, j, t)
      BY <1>3, <2>1, <2>2 DEF Cut
    <2> QED
      BY <1>3, <2>5, <2>6 DEF Threaded
  <1>5. CASE \A j \in 1..n : s[j] # id
    <2>1. Cut(pg, n, s)
      BY <1>1, <1>5 DEF Complete
    <2>2. Thread(pq, n, s)
      BY <1>1, <1>2, <1>5 DEF Thread
    <2>3. Cut(pq, n, s)
      <3>1. pg[s[n]].next \in PageId
        BY <1>2, <2>1 DEF Cut, Links
      <3> QED
        BY <1>2, <1>5, <2>1, <3>1 DEF Cut
    <2> QED
      BY <1>3, <2>2, <2>3 DEF Threaded
  <1> QED
    BY <1>4, <1>5

\* Both halves are there, the new leaf behind the other one.
LEMMA ThreadSplit ==
  ASSUME NEW pg, NEW pq, NEW want, NEW more, Threaded(pg, want), Links(pg), ~LeafAt(pg, Root),
         NEW k \in Key, NEW id \in PageId, id = Route(pg, k), LeafAt(pg, id),
         NEW new \in PageId \ {Root}, ~LeafAt(pg, new),
         \A p \in PageId : LeafAt(pg, p) => pg[p].next # new,
         \A p \in PageId : LeafAt(pq, p) <=> (LeafAt(pg, p) \/ p = new),
         pq[id].next = new, pq[new].next = pg[id].next,
         \A p \in PageId : LeafAt(pg, p) /\ p # id => pq[p].next = pg[p].next,
         \A x \in Key : Route(pq, x) = Route(pg, x),
         \A x \in Key : Absent \notin more[x] =>
           \/ Has(pq, id, x, more[x]) \/ Has(pq, new, x, more[x])
           \/ /\ Absent \notin want[x]
              /\ \A p \in PageId : LeafAt(pg, p) /\ Has(pg, p, x, want[x]) => Has(pq, p, x, more[x])
  PROVE  Threaded(pq, more)
  <1>1. PICK n, s : Thread(pg, n, s) /\ (Cut(pg, n, s) \/ Complete(pg, n, s, want))
    BY DEF Threaded
  <1>2. /\ n \in Nat /\ 1 <= n /\ n \in 1..n /\ 1 \in 1..n
        /\ \A i \in 1..n : s[i] \in PageId /\ LeafAt(pg, s[i])
        /\ \A i \in 1..n : i < n => i + 1 \in 1..n /\ pg[s[i]].next = s[i + 1]
        /\ \A i, j \in 1..n : s[i] = s[j] => i = j
        /\ s[1] = Route(pg, LeastKey)
    BY <1>1, ThreadFacts
  <1>3. ~LeafAt(pq, Root) /\ new # NoLeaf /\ Route(pq, LeastKey) = Route(pg, LeastKey)
    BY TreeFacts, LeastKeyFacts
  <1>4. \A i \in 1..n : s[i] # new
    BY <1>2
  <1>5. CASE \A j \in 1..n : s[j] # id
    <2>1. Cut(pg, n, s)
      BY <1>1, <1>5 DEF Complete
    <2>2. Thread(pq, n, s)
      BY <1>1, <1>2, <1>3, <1>5 DEF Thread
    <2>3. Cut(pq, n, s)
      <3>1. pg[s[n]].next \in PageId /\ pg[s[n]].next # new
        BY <1>2, <2>1 DEF Cut, Links
      <3> QED
        BY <1>2, <1>5, <2>1, <3>1 DEF Cut
    <2> QED
      BY <1>3, <2>2, <2>3 DEF Threaded
  <1>6. CASE \E j \in 1..n : s[j] = id
    <2>1. PICK j \in 1..n : s[j] = id
      BY <1>6
    <2> DEFINE t == [i \in 1..n + 1 |-> IF i <= j THEN s[i] ELSE IF i = j + 1 THEN new ELSE s[i - 1]]
    <2>2. /\ \A i \in 1..n + 1 : i <= j => i \in 1..n /\ t[i] = s[i]
          /\ j + 1 \in 1..n + 1 /\ t[j + 1] = new
          /\ \A i \in 1..n + 1 : i > j + 1 => i - 1 \in 1..n /\ t[i] = s[i - 1]
      BY <1>2
    <2>3. t \in [1..n + 1 -> PageId]
      BY <1>2
    <2> HIDE DEF t
    <2>4. /\ n \in Nat /\ n + 1 \in Nat /\ 1 <= n + 1 /\ j \in Nat /\ 1 <= j /\ j <= n
          /\ \A i \in 1..n + 1 : i \in Nat /\ (i <= j \/ i = j + 1 \/ i > j + 1)
      BY <1>2
    <2>5. ASSUME NEW a \in 1..n + 1, NEW b \in 1..n + 1, t[a] = t[b] PROVE a = b
      <3>1. CASE a <= j
        BY <1>2, <1>4, <2>2, <2>4, <2>5, <3>1
      <3>2. CASE a = j + 1
        BY <1>2, <1>4, <2>2, <2>4, <2>5, <3>2
      <3>3. CASE a > j + 1
        BY <1>2, <1>4, <2>2, <2>4, <2>5, <3>3
      <3> QED
        BY <2>4, <3>1, <3>2, <3>3
    <2>6. ASSUME NEW i \in 1..n + 1 PROVE LeafAt(pq, t[i])
      <3>1. t[i] = new \/ \E m \in 1..n : t[i] = s[m]
        BY <2>2, <2>4
      <3> QED
        BY <1>2, <3>1
    <2>7. ASSUME NEW i \in 1..n + 1, i < n + 1 PROVE pq[t[i]].next = t[i + 1]
      <3>1. CASE i < j
        <4>1. /\ t[i] = s[i] /\ i < n /\ t[i + 1] = s[i + 1] /\ s[i] # id /\ i \in 1..n
          BY <1>2, <2>1, <2>2, <2>4, <3>1
        <4> QED
          BY <1>2, <4>1
      <3>2. CASE i = j
        <4>1. t[i] = id /\ t[i + 1] = new
          BY <2>1, <2>2, <2>4, <3>2
        <4> QED
          BY <4>1
      <3>3. CASE i = j + 1
        <4>1. t[i] = new /\ j < n /\ t[i + 1] = s[j + 1]
          <5>1. i + 1 \in 1..n + 1 /\ i + 1 > j + 1 /\ i + 1 - 1 = j + 1 /\ j < n
            BY <2>4, <2>7, <3>3
          <5> QED
            BY <2>2, <3>3, <5>1
        <4>2. pq[new].next = s[j + 1]
          BY <1>2, <2>1, <4>1
        <4> QED
          BY <4>1, <4>2
      <3>4. CASE i > j + 1
        <4>1. t[i] = s[i - 1] /\ i - 1 \in 1..n /\ i - 1 # j /\ i - 1 < n /\ i - 1 + 1 = i
          BY <2>2, <2>4, <2>7, <3>4
        <4>2. t[i + 1] = s[i]
          <5>1. i + 1 \in 1..n + 1 /\ i + 1 > j + 1 /\ i + 1 - 1 = i
            BY <2>4, <2>7, <3>4
          <5> QED
            BY <2>2, <5>1
        <4>3. s[i - 1] # id
          BY <1>2, <2>1, <4>1
        <4>4. pg[s[i - 1]].next = s[i - 1 + 1]
          BY <1>2, <4>1
        <4>5. pq[s[i - 1]].next = pg[s[i - 1]].next
          BY <1>2, <4>1, <4>3
        <4> QED
          BY <4>1, <4>2, <4>4, <4>5
      <3> QED
        BY <2>4, <3>1, <3>2, <3>3, <3>4
    <2>8. t[1] = s[1]
      BY <1>2, <2>2, <2>4
    <2>9. Thread(pq, n + 1, t)
      BY <1>2, <1>3, <2>3, <2>4, <2>5, <2>6, <2>7, <2>8 DEF Thread
    <2>10. pq[t[n + 1]].next = pg[s[n]].next
      <3>1. CASE j = n
        BY <2>1, <2>2, <3>1
      <3>2. CASE j < n
        <4>1. t[n + 1] = s[n] /\ s[n] # id
          <5>1. n + 1 \in 1..n + 1 /\ n + 1 > j + 1 /\ n + 1 - 1 = n /\ n # j
            BY <2>4, <3>2
          <5> QED
            BY <1>2, <2>1, <2>2, <5>1
        <4> QED
          BY <1>2, <4>1
      <3> QED
        BY <2>4, <3>1, <3>2
    <2>11. ASSUME NEW i \in 1..n PROVE \E m \in 1..n + 1 : t[m] = s[i]
      <3>1. CASE i <= j
        <4>1. i \in 1..n + 1
          BY <2>4
        <4> QED
          BY <2>2, <3>1, <4>1
      <3>2. CASE i > j
        <4>1. i + 1 \in 1..n + 1 /\ i + 1 > j + 1 /\ i + 1 - 1 = i
          BY <2>4, <3>2
        <4> QED
          BY <2>2, <4>1
      <3> QED
        BY <2>4, <3>1, <3>2
    <2>12. ASSUME Cut(pg, n, s) PROVE Cut(pq, n + 1, t)
      <3>1. pg[s[n]].next \in PageId /\ pg[s[n]].next # new
        BY <1>2, <2>12 DEF Cut, Links
      <3> QED
        BY <2>10, <2>12, <3>1 DEF Cut
    <2>13. ASSUME Complete(pg, n, s, want) PROVE Complete(pq, n + 1, t, more)
      <3>1. \A x \in Key : \E m \in 1..n + 1 : t[m] = Route(pq, x)
        BY <2>11, <2>13 DEF Complete
      <3>2. ASSUME NEW x \in Key, Absent \notin more[x]
            PROVE  \E m \in 1..n + 1 : Has(pq, t[m], x, more[x])
        <4>1. CASE Has(pq, id, x, more[x])
          BY <2>1, <2>11, <4>1
        <4>2. CASE Has(pq, new, x, more[x])
          BY <2>2, <4>2
        <4>3. CASE /\ Absent \notin want[x]
                   /\ \A p \in PageId : LeafAt(pg, p) /\ Has(pg, p, x, want[x]) => Has(pq, p, x, more[x])
          <5>1. PICK i \in 1..n : Has(pg, s[i], x, want[x])
            BY <2>13, <4>3 DEF Complete
          <5>2. Has(pq, s[i], x, more[x])
            BY <1>2, <4>3, <5>1
          <5> QED
            BY <2>11, <5>2
        <4> QED
          BY <3>2, <4>1, <4>2, <4>3
      <3>3. pq[t[n + 1]].next = NoLeaf
        BY <2>10, <2>13 DEF Complete
      <3> QED
        BY <3>1, <3>2, <3>3 DEF Complete
    <2> QED
      BY <1>1, <1>3, <2>9, <2>12, <2>13 DEF Threaded
  <1> QED
    BY <1>5, <1>6

\* A leaf gets a route: it is in the thread already, as the one before it is.
LEMMA ThreadRoute ==
  ASSUME NEW pg, NEW pq, NEW want, Threaded(pg, want), Links(pg), ~LeafAt(pg, Root), ~LeafAt(pq, Root),
         NEW sep \in Key, NEW l \in PageId, NEW new \in PageId,
         Route(pg, sep) = l, LeafAt(pg, l), pg[l].next = new, LeafAt(pg, new),
         \A p \in PageId \ {Root} : pq[p] = pg[p],
         \A x \in Key : Route(pq, x) = Route(pg, x) \/ Route(pq, x) = new,
         Route(pq, LeastKey) = Route(pg, LeastKey)
  PROVE  Threaded(pq, want)
  <1>1. PICK n, s : Thread(pg, n, s) /\ (Cut(pg, n, s) \/ Complete(pg, n, s, want))
    BY DEF Threaded
  <1>2. /\ n \in Nat /\ 1 <= n /\ n \in 1..n
        /\ \A i \in 1..n : s[i] \in PageId /\ LeafAt(pg, s[i])
        /\ \A i \in 1..n : i < n => i + 1 \in 1..n /\ pg[s[i]].next = s[i + 1]
    BY <1>1, ThreadFacts
  <1>3. \A i \in 1..n : s[i] # Root /\ pq[s[i]] = pg[s[i]]
    BY <1>2
  <1>4. Thread(pq, n, s)
    BY <1>1, <1>3 DEF Thread, LeafAt
  <1>5. ASSUME Cut(pg, n, s) PROVE Cut(pq, n, s)
    <2>1. pg[s[n]].next \in PageId
      BY <1>2, <1>5 DEF Cut, Links
    <2> QED
      BY <1>2, <1>3, <1>5, <2>1 DEF Cut, LeafAt
  <1>6. ASSUME Complete(pg, n, s, want) PROVE Complete(pq, n, s, want)
    <2>1. PICK j \in 1..n : s[j] = l
      BY <1>6 DEF Complete
    <2>2. j # n
      BY <1>6, <2>1, TreeFacts DEF Complete
    <2>3. j + 1 \in 1..n /\ s[j + 1] = new
      BY <1>2, <2>1, <2>2
    <2>4. \A x \in Key : \E i \in 1..n : s[i] = Route(pq, x)
      BY <1>6, <2>3 DEF Complete
    <2>5. \A x \in Key : Absent \notin want[x] => \E i \in 1..n : Has(pq, s[i], x, want[x])
      BY <1>3, <1>6 DEF Complete, Has
    <2>6. pq[s[n]].next = NoLeaf
      BY <1>2, <1>3, <1>6 DEF Complete
    <2> QED
      BY <2>4, <2>5, <2>6 DEF Complete
  <1> QED
    BY <1>1, <1>4, <1>5, <1>6 DEF Threaded

\* Where a search ends is for the root to say.
LEMMA RouteKept ==
  ASSUME NEW pg, NEW pq, NEW p \in PageId, pg[p].type # "interior", pq[p].type # "interior",
         \A q \in PageId \ {p} : pq[q] = pg[q]
  PROVE  \A x \in Key : Route(pq, x) = Route(pg, x)
  <1>1. CASE p = Root
    BY <1>1 DEF Route
  <1>2. CASE p # Root
    BY <1>2, TreeFacts DEF Route
  <1> QED
    BY <1>1, <1>2

-----------------------------------------------------------------------------
\* Reading the chain.

\* A thread is no longer than there are pages.
LEMMA ThreadIsShort ==
  ASSUME NEW pg, NEW n, NEW s, Thread(pg, n, s)
  PROVE  n \in Nat /\ 1 <= n /\ n <= MaxPageId
  <1>1. n \in Nat /\ 1 <= n /\ s \in [1..n -> 1..MaxPageId] /\ \A i, j \in 1..n : s[i] = s[j] => i = j
    BY DEF Thread, PageId
  <1>2. MaxPageId \in Nat
    BY PagesAssumption
  <1>3. /\ IsFiniteSet(1..n) /\ Cardinality(1..n) = n
        /\ IsFiniteSet(1..MaxPageId) /\ Cardinality(1..MaxPageId) = MaxPageId
    BY <1>1, <1>2, FS_Interval
  <1> DEFINE S == 1..n
             T == 1..MaxPageId
  <1>4. /\ IsFiniteSet(S) /\ IsFiniteSet(T) /\ s \in [S -> T]
        /\ Cardinality(S) = n /\ Cardinality(T) = MaxPageId
        /\ ~(\E x, y \in S : x # y /\ s[x] = s[y])
    BY <1>1, <1>3
  <1> HIDE DEF S, T
  <1>5. ~(Cardinality(T) < Cardinality(S))
    BY <1>4, FS_PigeonHole
  <1> QED
    BY <1>1, <1>2, <1>4, <1>5

\* The steps of the chain are the pages of the thread, the one it leads to, and
\* then none.
LEMMA StepsFacts ==
  ASSUME Shape(pages, pageCount), NEW n, NEW s, Thread(pages, n, s),
         NEW end, end = pages[s[n]].next,
         end = NoLeaf \/ (end \in PageId /\ pages[end].next = NoLeaf)
  PROVE  \A i \in 0..MaxPageId :
           ChainStep[i] = IF i < n THEN s[i + 1] ELSE IF i = n THEN end ELSE NoLeaf
  <1> DEFINE Step(f, i) == IF i = 0 THEN LeafOf(LeastKey)
                           ELSE IF f[i - 1] = NoLeaf THEN NoLeaf ELSE pages[f[i - 1]].next
             g == [i \in 0..MaxPageId |-> IF i < n THEN s[i + 1] ELSE IF i = n THEN end ELSE NoLeaf]
             leaf == CHOOSE f : f = [i \in 0..MaxPageId |-> Step(f, i)]
  <1>1. /\ n \in Nat /\ 1 <= n /\ MaxPageId \in Nat
        /\ s[1] = LeafOf(LeastKey)
        /\ \A i \in 1..n : s[i] # NoLeaf /\ pages[s[i]].next = IF i < n THEN s[i + 1] ELSE end
        /\ end # NoLeaf => pages[end].next = NoLeaf
    <2>1. s[1] = LeafOf(LeastKey) /\ MaxPageId \in Nat /\ NoLeaf \notin PageId
      BY LeastKeyFacts, DescentFacts, TreeFacts, ThreadFacts
    <2>2. n \in Nat /\ 1 <= n /\ \A i \in 1..n : s[i] \in PageId /\ (i < n => pages[s[i]].next = s[i + 1])
      BY ThreadFacts
    <2>3. \A i \in 1..n : i < n \/ i = n
      BY <2>2
    <2> QED
      BY <2>1, <2>2, <2>3
  <1>2. \A i \in 0..MaxPageId : g[i] = Step(g, i)
    <2> TAKE i \in 0..MaxPageId
    <2>1. CASE i = 0
      BY <1>1, <2>1
    <2>2. CASE i # 0
      <3>1. i - 1 \in 0..MaxPageId /\ i - 1 + 1 = i /\ i \in Nat
        BY <1>1, <2>2
      <3>2. g[i - 1] = IF i - 1 < n THEN s[i] ELSE IF i - 1 = n THEN end ELSE NoLeaf
        BY <3>1
      <3>3. CASE i - 1 < n
        <4>1. i \in 1..n
          BY <1>1, <2>2, <3>1, <3>3
        <4> QED
          BY <1>1, <2>2, <3>2, <3>3, <4>1
      <3>4. CASE i - 1 = n
        BY <1>1, <2>2, <3>1, <3>2, <3>4
      <3>5. CASE i - 1 > n
        BY <1>1, <2>2, <3>1, <3>2, <3>5
      <3> QED
        BY <1>1, <3>1, <3>3, <3>4, <3>5
    <2> QED
      BY <2>1, <2>2
  <1>3. g = [i \in 0..MaxPageId |-> Step(g, i)]
    <2> HIDE DEF Step
    <2> QED
      BY <1>2
  <1>4. leaf = [i \in 0..MaxPageId |-> Step(leaf, i)]
    <2> HIDE DEF Step, g
    <2> QED
      BY <1>3
  <1>5. \A i \in 0..MaxPageId : leaf[i] = Step(leaf, i)
    <2> HIDE DEF Step, leaf
    <2> QED
      BY <1>4
  <1>6. ChainStep = leaf
    BY DEF ChainStep, LeastKey
  <1> HIDE DEF leaf, g
  <1>7. \A i \in 0..MaxPageId : leaf[i] = g[i]
    <2> DEFINE Wrong == {i \in 0..MaxPageId : leaf[i] # g[i]}
    <2> SUFFICES ASSUME Wrong # {} PROVE FALSE
      OBVIOUS
    <2>1. Wrong \in SUBSET Nat
      BY <1>1
    <2> DEFINE m == Min(Wrong)
    <2>2. m \in Wrong /\ \A x \in Wrong : m <= x
      <3> HIDE DEF Wrong
      <3> QED
        BY <2>1, MinFacts
    <2> HIDE DEF m
    <2>3. m \in 0..MaxPageId /\ leaf[m] # g[m] /\ m \in Nat
      BY <1>1, <2>2
    <2>4. m # 0
      BY <1>2, <1>5, <2>3
    <2>5. m - 1 \in 0..MaxPageId /\ leaf[m - 1] = g[m - 1]
      BY <1>1, <2>2, <2>3, <2>4
    <2> QED
      BY <1>2, <1>5, <2>3, <2>4, <2>5
  <1> QED
    BY <1>6, <1>7 DEF g

\* So the chain reaches every leaf and ends.
LEMMA ChainFacts ==
  ASSUME Shape(pages, pageCount), Chained(pages)
  PROVE  ChainStep[MaxPageId] = NoLeaf /\ Chain = Leaves
  <1>1. PICK n, s : Whole(pages, n, s)
    BY DEF Chained
  <1>2. Line(pages, n, s)
    BY <1>1 DEF Whole
  <1>3. /\ n \in Nat /\ 1 <= n /\ n <= MaxPageId
        /\ \A i \in 0..MaxPageId : ChainStep[i] = IF i < n THEN s[i + 1] ELSE NoLeaf
    <2>1. Thread(pages, n, s) /\ pages[s[n]].next = NoLeaf
      BY <1>2 DEF Line, Thread
    <2>2. \A i \in 0..MaxPageId :
            ChainStep[i] = IF i < n THEN s[i + 1] ELSE IF i = n THEN NoLeaf ELSE NoLeaf
      BY <2>1, StepsFacts
    <2> QED
      BY <2>1, <2>2, ThreadIsShort
  <1>4. /\ \A i \in 1..n : s[i] \in PageId /\ s[i] # NoLeaf /\ LeafAt(pages, s[i])
        /\ \A p \in PageId : LeafAt(pages, p) => \E i \in 1..n : s[i] = p
    BY <1>1, <1>2, TreeFacts DEF Whole, Line
  <1>5. ChainStep[MaxPageId] = NoLeaf
    BY <1>3, PagesAssumption
  <1>6. ASSUME NEW p \in Chain PROVE p \in Leaves
    <2>1. PICK i \in 0..MaxPageId : ChainStep[i] = p /\ p # NoLeaf
      BY <1>6 DEF Chain
    <2>2. p = s[i + 1] /\ i + 1 \in 1..n
      BY <1>3, <2>1
    <2> QED
      BY <1>4, <2>2 DEF Leaves, LeafAt
  <1>7. ASSUME NEW p \in Leaves PROVE p \in Chain
    <2>1. PICK i \in 1..n : s[i] = p
      BY <1>4 DEF Leaves, LeafAt
    <2>2. i - 1 \in 0..MaxPageId /\ i - 1 < n /\ i - 1 + 1 = i
      BY <1>3, PagesAssumption
    <2>3. ChainStep[i - 1] = p /\ p # NoLeaf
      BY <1>3, <1>4, <2>1, <2>2
    <2> QED
      BY <2>2, <2>3 DEF Chain
  <1> QED
    BY <1>5, <1>6, <1>7

\* The chain is the thread and the page it leads to.  So where every page of the
\* chain is a leaf, the records wanted are in it.
LEMMA ThreadReads ==
  ASSUME Shape(pages, pageCount), Follows(pages, pageCount), NEW want, Threaded(pages, want),
         Chain \subseteq Leaves
  PROVE  \A x \in Key : Absent \notin want[x] => \E p \in Chain : Has(pages, p, x, want[x])
  <1>1. PICK n, s : Thread(pages, n, s) /\ (Cut(pages, n, s) \/ Complete(pages, n, s, want))
    BY DEF Threaded
  <1> DEFINE end == pages[s[n]].next
  <1>2. /\ n \in Nat /\ 1 <= n /\ n <= MaxPageId /\ n \in 1..n
        /\ \A i \in 1..n : s[i] \in PageId /\ s[i] # NoLeaf /\ LeafAt(pages, s[i])
    BY <1>1, ThreadFacts, ThreadIsShort, TreeFacts
  <1>3. end = NoLeaf \/ (end \in PageId /\ end # Root)
    <2>1. end \in PageId \union {NoLeaf}
      BY <1>2, ShapeLinks DEF Links
    <2>2. end # NoLeaf => end # Root
      BY <1>2 DEF Follows, LeafAt
    <2> QED
      BY <2>1, <2>2
  <1>4. ASSUME Cut(pages, n, s) PROVE FALSE
    <2>1. end \in PageId \ {Root} /\ end # NoLeaf /\ ~LeafAt(pages, end)
      BY <1>3, <1>4 DEF Cut
    <2>2. pages[end].next = NoLeaf
      <3>1. Blank(pages[end]) \/ LeafPage(pages[end])
        BY <2>1 DEF Shape
      <3>2. Blank(pages[end])
        BY <2>1, <3>1, PageTypes DEF LeafAt
      <3> HIDE DEF end
      <3> QED
        BY <3>2 DEF Blank
    <2>3. n \in 0..MaxPageId /\ ~(n < n) /\ n = n
      BY <1>2
    <2> HIDE DEF end
    <2>4. ChainStep[n] = end
      BY <1>1, <2>1, <2>2, <2>3, StepsFacts DEF end
    <2>5. end \in Chain
      BY <2>1, <2>3, <2>4 DEF Chain
    <2> QED
      BY <2>1, <2>5 DEF Leaves, LeafAt
  <1>5. Complete(pages, n, s, want) /\ end = NoLeaf
    BY <1>1, <1>4 DEF Complete
  <1>6. \A i \in 0..MaxPageId : i < n => ChainStep[i] = s[i + 1]
    <2> HIDE DEF end
    <2> QED
      BY <1>1, <1>5, StepsFacts DEF end
  <1>7. ASSUME NEW i \in 1..n PROVE s[i] \in Chain
    <2>1. i - 1 \in 0..MaxPageId /\ i - 1 < n /\ i - 1 + 1 = i
      BY <1>2, PagesAssumption
    <2>2. ChainStep[i - 1] = s[i] /\ s[i] # NoLeaf
      BY <1>2, <1>6, <2>1
    <2> QED
      BY <2>1, <2>2 DEF Chain
  <1> QED
    BY <1>5, <1>7 DEF Complete

-----------------------------------------------------------------------------
\* What an insert of k does to the chain.

\* Every record of a leaf is in some leaf afterwards, that of k perhaps replaced.
Carries(pq, k, v) ==
  \A p \in PageId, x \in Key :
    LeafAt(pages, p) /\ x \in DOMAIN pages[p].cells =>
      Holds(pq, x, {pages[p].cells[x]} \union IF x = k THEN {v} ELSE {})

InsertChains(k, v) ==
  /\ Lone(pages') /\ Chained(pages') /\ Carries(pages', k, v)
  /\ \/ Acknowledged(k, v) /\ Holds(pages', k, {v})
     \/ Doubtful(k, v)

LEMMA ChainByStore ==
  ASSUME ChainInv, NEW k \in Key, NEW v \in Payload, NEW pq, pq = After(StoreWrites(k, v))
  PROVE  Lone(pq) /\ Chained(pq) /\ Carries(pq, k, v) /\ Holds(pq, k, {v})
  <1> DEFINE id == LeafOf(k)
             all == AllCells(k, v)
             new == Leaf(all, pages[id].next, pages[id].prev)
  <1>1. TreeInv /\ Lone(pages) /\ Chained(pages)
    BY DEF ChainInv
  <1>2. /\ id \in PageId /\ pages[id].type = "leaf"
        /\ DOMAIN all = DOMAIN pages[id].cells \union {k}
        /\ \A x \in DOMAIN all : all[x] = IF x = k THEN v ELSE pages[id].cells[x]
    BY <1>1, CallFacts
  <1>3. pq[id] = new /\ \A p \in PageId : p # id => pq[p] = pages[p]
    BY <1>1, StorePages
  <1>4. new.type = "leaf" /\ new.next = pages[id].next /\ new.cells = all
    BY LeafFacts, TreeFacts
  <1>5. Route(pq, LeastKey) = Route(pages, LeastKey)
    BY <1>1, StoreKeeps, LeastKeyFacts
  <1> HIDE DEF id, all, new
  <1>6. /\ \A p \in PageId : LeafAt(pq, p) <=> LeafAt(pages, p)
        /\ \A p \in PageId : LeafAt(pages, p) => pq[p].next = pages[p].next
    BY <1>2, <1>3, <1>4 DEF LeafAt
  <1>7. Chained(pq)
    BY <1>1, <1>5, <1>6, ChainedSame
  <1>8. Lone(pq)
    BY <1>1, <1>6, TreeFacts DEF Lone
  <1>9. Carries(pq, k, v)
    <2> SUFFICES ASSUME NEW p \in PageId, NEW x \in Key, LeafAt(pages, p), x \in DOMAIN pages[p].cells
                 PROVE  Holds(pq, x, {pages[p].cells[x]} \union IF x = k THEN {v} ELSE {})
      BY DEF Carries
    <2> QED
      BY <1>2, <1>3, <1>4, <1>6 DEF Holds
  <1>10. Holds(pq, k, {v})
    BY <1>2, <1>3, <1>4, <1>6 DEF Holds, LeafAt
  <1> QED
    BY <1>7, <1>8, <1>9, <1>10

\* The records of two leaves that share the cells of a split.
LEMMA HalvesHold ==
  ASSUME NEW c, Records(c), LeftHasKey(c), NEW pq, NEW a \in PageId, NEW b \in PageId,
         LeafAt(pq, a), LeafAt(pq, b), pq[a].cells = Low(c), pq[b].cells = High(c)
  PROVE  \A x \in DOMAIN c : Holds(pq, x, {c[x]})
  <1>1. /\ DOMAIN Low(c) = {x \in DOMAIN c : x <= Separator(c)}
        /\ DOMAIN High(c) = {x \in DOMAIN c : Separator(c) < x}
        /\ \A x \in DOMAIN Low(c) : Low(c)[x] = c[x]
        /\ \A x \in DOMAIN High(c) : High(c)[x] = c[x]
        /\ Separator(c) \in Key
    BY SplitFacts
  <1>2. \A x \in DOMAIN c : x <= Separator(c) \/ Separator(c) < x
    BY <1>1, TreeFacts DEF Records
  <1> QED
    BY <1>1, <1>2 DEF Holds

LEMMA HoldsMore == \A pg, x, S, T : Holds(pg, x, S) /\ S \subseteq T => Holds(pg, x, T)
  BY DEF Holds

LEMMA ChainByRootSplit ==
  ASSUME ChainInv, NEW k \in Key, NEW v \in Payload, RootIsFull(k, v), LeftHasKey(AllCells(k, v)),
         NEW pq, pq = After(RootWrites(AllCells(k, v), pageCount, pageCount + 1))
  PROVE  Lone(pq) /\ Chained(pq) /\ Carries(pq, k, v) /\ Holds(pq, k, {v})
  <1> DEFINE all == AllCells(k, v)
             left == pageCount
             right == pageCount + 1
             low == Leaf(Low(all), right, NoLeaf)
             high == Leaf(High(all), NoLeaf, left)
             root == Interior(<<[child |-> left, key |-> Separator(all)]>>, right)
  <1>1. TreeInv /\ Lone(pages)
    BY DEF ChainInv
  <1>2. /\ pages[Root].type = "leaf" /\ Records(all)
        /\ DOMAIN all = DOMAIN pages[Root].cells \union {k}
        /\ \A x \in DOMAIN all : all[x] = IF x = k THEN v ELSE pages[Root].cells[x]
    <2>1. LeafOf(k) = Root
      BY DEF RootIsFull
    <2> HIDE DEF all
    <2>2. /\ pages[LeafOf(k)].type = "leaf" /\ Records(all)
          /\ DOMAIN all = DOMAIN pages[LeafOf(k)].cells \union {k}
          /\ \A x \in DOMAIN all : all[x] = IF x = k THEN v ELSE pages[LeafOf(k)].cells[x]
      BY <1>1, CallFacts DEF all
    <2> QED
      BY <2>1, <2>2
  <1>3. /\ left \in PageId \ {Root} /\ right \in PageId \ {Root, left}
        /\ pq[left] = low /\ pq[right] = high /\ pq[Root] = root
        /\ \A p \in PageId \ {left, right, Root} : pq[p] = pages[p]
    BY <1>1, RootPages
  <1>4. /\ low.cells = Low(all) /\ low.next = right /\ low.type = "leaf"
        /\ high.cells = High(all) /\ high.next = NoLeaf /\ high.type = "leaf"
        /\ root.type = "interior"
    BY LeafFacts, TreeFacts
  <1>5. Route(pq, LeastKey) = left
    <2>1. Route(pq, LeastKey) = IF Separator(all) < LeastKey THEN right ELSE left
      BY <1>1, RootSplitKeeps, LeastKeyFacts
    <2>2. Separator(all) \in Key
      <3> HIDE DEF all
      <3> QED
        BY <1>2, SplitFacts DEF all
    <2>3. LeastKey <= Separator(all) /\ LeastKey \in Int /\ Separator(all) \in Int
      BY <2>2, LeastKeyFacts, TreeFacts
    <2> HIDE DEF all
    <2> QED
      BY <2>1, <2>3
  <1> HIDE DEF all, low, high, root, left, right
  <1>6. \A p \in PageId : LeafAt(pq, p) <=> p \in {left, right}
    <2>1. \A p \in PageId : pages[p].type = "leaf" <=> p = Root
      BY <1>1, <1>2, TreeFacts DEF Lone, LeafAt
    <2> QED
      BY <1>3, <1>4, <2>1 DEF LeafAt
  <1>7. Chained(pq)
    <2>1. pq[left].next = right /\ pq[right].next = NoLeaf /\ left # right
      BY <1>3, <1>4
    <2> QED
      BY <1>3, <1>5, <1>6, <2>1, LineOfTwo DEF Chained
  <1>8. Lone(pq)
    BY <1>3, <1>4, TreeFacts DEF Lone, LeafAt
  <1>9. \A x \in DOMAIN all : Holds(pq, x, {all[x]})
    <2>1. LeftHasKey(all) /\ LeafAt(pq, left) /\ LeafAt(pq, right)
          /\ pq[left].cells = Low(all) /\ pq[right].cells = High(all)
      BY <1>3, <1>4, <1>6 DEF all
    <2> QED
      BY <1>2, <1>3, <2>1, HalvesHold
  <1>10. Carries(pq, k, v)
    <2> SUFFICES ASSUME NEW p \in PageId, NEW x \in Key, LeafAt(pages, p), x \in DOMAIN pages[p].cells
                 PROVE  Holds(pq, x, {pages[p].cells[x]} \union IF x = k THEN {v} ELSE {})
      BY DEF Carries
    <2>1. p = Root
      BY <1>1, <1>2 DEF Lone, LeafAt
    <2>2. x \in DOMAIN all /\ all[x] = IF x = k THEN v ELSE pages[p].cells[x]
      BY <1>2, <2>1
    <2>3. Holds(pq, x, {all[x]}) /\ {all[x]} \subseteq {pages[p].cells[x]} \union IF x = k THEN {v} ELSE {}
      BY <1>9, <2>2
    <2> QED
      BY <2>3, HoldsMore
  <1>11. Holds(pq, k, {v})
    BY <1>2, <1>9
  <1> QED
    BY <1>7, <1>8, <1>10, <1>11

\* The leaves after a leaf split: the new one is behind the other in the chain.
LeafSplits(pq, id, new, all) ==
  LET next == pages[id].next
  IN  /\ id \in PageId /\ new \in PageId \ {Root, id} /\ pages[new] = Unwritten
      /\ LeafAt(pages, id) /\ ~LeafAt(pages, new) /\ ~LeafAt(pq, Root)
      /\ next # NoLeaf => LeafAt(pages, next) /\ pq[next].prev = new
      /\ \A p \in PageId : LeafAt(pq, p) <=> (LeafAt(pages, p) \/ p = new)
      /\ pq[id].cells = Low(all) /\ pq[id].next = new /\ pq[id].prev = pages[id].prev
      /\ pq[new].cells = High(all) /\ pq[new].next = next /\ pq[new].prev = id
      /\ \A p \in PageId : LeafAt(pages, p) /\ p # id =>
           pq[p].next = pages[p].next /\ pq[p].cells = pages[p].cells
      /\ \A p \in PageId : LeafAt(pages, p) /\ p # next => pq[p].prev = pages[p].prev
      /\ \A p \in PageId \ {id, new, next, Root} : pq[p] = pages[p]

LEMMA SplitLeaves ==
  ASSUME TreeInv, NEW k \in Key, NEW v \in Payload, LeafIsFull(k, v), LeftHasKey(AllCells(k, v)),
         NEW parent \in BOOLEAN, NEW pq, pq = After(SplitWrites(k, v, parent))
  PROVE  LeafSplits(pq, LeafOf(k), pageCount, AllCells(k, v))
  <1> DEFINE id == LeafOf(k)
             all == AllCells(k, v)
             new == pageCount
             next == pages[id].next
             low == Leaf(Low(all), new, pages[id].prev)
             high == Leaf(High(all), next, id)
             relinked == Leaf(pages[next].cells, pages[next].next, new)
  <1>1. /\ id \in PageId \ {Root} /\ new \in PageId \ {Root, id}
        /\ pages[Root].type = "interior" /\ pages[new] = Unwritten
        /\ next # NoLeaf => next \in PageId \ {Root, id, new} /\ pages[next].type = "leaf"
    BY SiblingFacts
  <1>2. pages[id].type = "leaf"
    BY CallFacts
  <1>3. /\ pq[id] = low /\ pq[new] = high
        /\ next # NoLeaf => pq[next] = relinked
        /\ \A p \in PageId \ {id, new, next, Root} : pq[p] = pages[p]
    BY SplitPages
  <1>4. /\ low.cells = Low(all) /\ low.next = new /\ low.prev = pages[id].prev /\ low.type = "leaf"
        /\ high.cells = High(all) /\ high.next = next /\ high.prev = id /\ high.type = "leaf"
        /\ relinked.cells = pages[next].cells /\ relinked.next = pages[next].next
        /\ relinked.prev = new /\ relinked.type = "leaf"
    BY LeafFacts, TreeFacts
  <1>5. pq[Root].type = "interior"
    <2>1. RootNode(pq[Root])
      BY SplitRoutes
    <2> QED
      BY <2>1, TreeFacts DEF RootNode
  <1>6. next = pages[id].next /\ NoLeaf \notin PageId
    BY TreeFacts
  <1> HIDE DEF id, all, new, low, high, relinked, next
  <1>7. \A p \in PageId : p \in {id, new, next, Root} \/ pq[p] = pages[p]
    BY <1>3
  <1>8. LeafSplits(pq, id, new, all)
    BY <1>1, <1>2, <1>3, <1>4, <1>5, <1>6, <1>7, TreeFacts DEF LeafAt, LeafSplits
  <1> QED
    BY <1>8 DEF id, new, all

LEMMA ChainByLeafSplit ==
  ASSUME ChainInv, NEW k \in Key, NEW v \in Payload, LeafIsFull(k, v), LeftHasKey(AllCells(k, v)),
         NEW parent \in BOOLEAN, NEW pq, pq = After(SplitWrites(k, v, parent))
  PROVE  Lone(pq) /\ Chained(pq) /\ Carries(pq, k, v) /\ Holds(pq, k, {v})
  <1> DEFINE id == LeafOf(k)
             all == AllCells(k, v)
             new == pageCount
  <1>1. TreeInv /\ Lone(pages) /\ Chained(pages)
    BY DEF ChainInv
  <1>2. LeafSplits(pq, id, new, all)
    BY <1>1, SplitLeaves
  <1>3. /\ Records(all) /\ DOMAIN all = DOMAIN pages[id].cells \union {k}
        /\ \A x \in DOMAIN all : all[x] = IF x = k THEN v ELSE pages[id].cells[x]
    BY <1>1, CallFacts
  <1>4. Route(pq, LeastKey) = Route(pages, LeastKey)
    <2>1. Separator(all) \in Key
      <3> HIDE DEF all
      <3> QED
        BY <1>3, SplitFacts DEF all
    <2>2. LeastKey <= Separator(all) /\ LeastKey \in Int /\ Separator(all) \in Int
      BY <2>1, LeastKeyFacts, TreeFacts
    <2> DEFINE moved == parent /\ pages[Root].right = id
    <2>3. \A x \in Key :
            Route(pq, x) = IF moved /\ Separator(all) < x /\ Route(pages, x) = id THEN new
                           ELSE Route(pages, x)
      BY <1>1, SplitRoutes
    <2> HIDE DEF all, moved
    <2> QED
      BY <2>2, <2>3, LeastKeyFacts
  <1> HIDE DEF id, all, new
  <1>5. Chained(pq)
    <2>1. PICK n, s : Whole(pages, n, s)
      BY <1>1 DEF Chained
    <2>2. PICK j \in 1..n : s[j] = id
      BY <1>2, <2>1 DEF LeafSplits, Whole
    <2>3. Whole(pq, n + 1, Behind(n, s, j, new))
      BY <1>2, <1>4, <2>1, <2>2, LineGrows DEF LeafSplits
    <2> QED
      BY <2>3 DEF Chained
  <1>6. Lone(pq)
    BY <1>2 DEF LeafSplits, Lone
  <1>7. \A x \in DOMAIN all : Holds(pq, x, {all[x]})
    <2>1. LeftHasKey(all) /\ LeafAt(pq, id) /\ LeafAt(pq, new) /\ id \in PageId /\ new \in PageId
          /\ pq[id].cells = Low(all) /\ pq[new].cells = High(all)
      BY <1>2 DEF LeafSplits, all
    <2> QED
      BY <1>3, <2>1, HalvesHold
  <1>8. Carries(pq, k, v)
    <2> SUFFICES ASSUME NEW p \in PageId, NEW x \in Key, LeafAt(pages, p), x \in DOMAIN pages[p].cells
                 PROVE  Holds(pq, x, {pages[p].cells[x]} \union IF x = k THEN {v} ELSE {})
      BY DEF Carries
    <2>1. CASE p = id
      <3>1. x \in DOMAIN all /\ all[x] = IF x = k THEN v ELSE pages[p].cells[x]
        BY <1>3, <2>1
      <3>2. Holds(pq, x, {all[x]}) /\ {all[x]} \subseteq {pages[p].cells[x]} \union IF x = k THEN {v} ELSE {}
        BY <1>7, <3>1
      <3> QED
        BY <3>2, HoldsMore
    <2>2. CASE p # id
      BY <1>2, <2>2 DEF LeafSplits, Holds
    <2> QED
      BY <2>1, <2>2
  <1>9. Holds(pq, k, {v})
    BY <1>3, <1>7
  <1> QED
    BY <1>5, <1>6, <1>8, <1>9

LEMMA ChainByPanic ==
  ASSUME ChainInv, NEW k \in Key, NEW v \in Payload, LeafIsFull(k, v),
         NEW pq, pq = After(WritesBeforePanic(k, v))
  PROVE  Lone(pq) /\ Chained(pq) /\ Carries(pq, k, v)
  <1>1. TreeInv /\ Lone(pages) /\ Chained(pages)
    BY DEF ChainInv
  <1>2. \A p \in PageId :
          /\ LeafAt(pq, p) <=> LeafAt(pages, p)
          /\ pq[p].cells = pages[p].cells /\ pq[p].next = pages[p].next
    BY <1>1, PanicPages DEF LeafAt
  <1>3. Route(pq, LeastKey) = Route(pages, LeastKey)
    BY <1>1, PanicKeeps, LeastKeyFacts
  <1>4. Chained(pq)
    BY <1>1, <1>2, <1>3, ChainedSame
  <1>5. Lone(pq)
    BY <1>1, <1>2, TreeFacts DEF Lone
  <1>6. Carries(pq, k, v)
    BY <1>2 DEF Carries, Holds
  <1> QED
    BY <1>4, <1>5, <1>6

LEMMA InsertKeepsChain ==
  ASSUME ChainInv, NEW k \in Key, NEW v \in Payload, Insert(k, v)
  PROVE  InsertChains(k, v)
  <1>1. CASE StoreInLeaf(k, v)
    <2>1. pages' = After(StoreWrites(k, v)) /\ Acknowledged(k, v)
      BY <1>1 DEF StoreInLeaf, Perform
    <2> QED
      BY <2>1, ChainByStore DEF InsertChains
  <1>2. CASE SplitRoot(k, v)
    <2>1. /\ pages' = After(RootWrites(AllCells(k, v), pageCount, pageCount + 1))
          /\ RootIsFull(k, v) /\ LeftHasKey(AllCells(k, v)) /\ Acknowledged(k, v)
      BY <1>2 DEF SplitRoot, Perform, CanSplit
    <2> QED
      BY <2>1, ChainByRootSplit DEF InsertChains
  <1>3. CASE SplitRootPanics(k, v)
    <2>1. pages' = After(<<>>) /\ Doubtful(k, v)
      BY <1>3 DEF SplitRootPanics, Perform
    <2>2. pageCount \in Int /\ pageCount <= pageCount
      BY DEF ChainInv, TreeInv
    <2>3. pages' = pages
      BY <2>1, <2>2, NothingWritten DEF ChainInv
    <2>4. Carries(pages', k, v)
      BY <2>3 DEF Carries, Holds
    <2> QED
      BY <2>1, <2>3, <2>4 DEF InsertChains, ChainInv
  <1>4. CASE SplitLeaf(k, v)
    <2>1. /\ pages' = After(SplitWrites(k, v, TRUE))
          /\ LeafIsFull(k, v) /\ LeftHasKey(AllCells(k, v)) /\ Acknowledged(k, v)
      BY <1>4 DEF SplitLeaf, Perform, CanSplit, SplitWrites
    <2>2. PICK parent \in BOOLEAN : pages' = After(SplitWrites(k, v, parent))
      BY <2>1, Zenon
    <2> QED
      BY <2>1, <2>2, ChainByLeafSplit DEF InsertChains
  <1>5. CASE ParentIsFull(k, v)
    <2>1. /\ pages' = After(SplitWrites(k, v, FALSE))
          /\ LeafIsFull(k, v) /\ LeftHasKey(AllCells(k, v)) /\ Doubtful(k, v)
      BY <1>5 DEF ParentIsFull, Perform, CanSplit, SplitWrites
    <2>2. PICK parent \in BOOLEAN : pages' = After(SplitWrites(k, v, parent))
      BY <2>1, Zenon
    <2> QED
      BY <2>1, <2>2, ChainByLeafSplit DEF InsertChains
  <1>6. CASE SplitLeafPanics(k, v)
    <2>1. pages' = After(WritesBeforePanic(k, v)) /\ LeafIsFull(k, v) /\ Doubtful(k, v)
      BY <1>6 DEF SplitLeafPanics, Perform
    <2> QED
      BY <2>1, ChainByPanic DEF InsertChains
  <1> QED
    BY <1>1, <1>2, <1>3, <1>4, <1>5, <1>6 DEF Insert

\* An acknowledged insert leaves its record in some leaf, and carries the others.
LEMMA InsertKeepsRecords ==
  ASSUME ChainInv, NEW k \in Key, NEW v \in Payload, InsertChains(k, v)
  PROVE  Kept(pages', expected')
  <1>1. Carries(pages', k, v) /\ Kept(pages, expected)
    BY DEF InsertChains, ChainInv
  <1>2. expected \in [Key -> SUBSET (Payload \union {Absent})]
    BY DEF ChainInv, TreeInv
  <1> SUFFICES ASSUME NEW x \in Key, Absent \notin expected'[x] PROVE Holds(pages', x, expected'[x])
    BY DEF Kept
  <1>3. ASSUME Absent \notin expected[x],
               expected[x] \union (IF x = k THEN {v} ELSE {}) \subseteq expected'[x]
        PROVE  Holds(pages', x, expected'[x])
    <2>1. PICK p \in PageId : LeafAt(pages, p) /\ x \in DOMAIN pages[p].cells /\ pages[p].cells[x] \in expected[x]
      BY <1>1, <1>3 DEF Kept, Holds
    <2>2. Holds(pages', x, {pages[p].cells[x]} \union IF x = k THEN {v} ELSE {})
      BY <1>1, <2>1 DEF Carries
    <2>3. {pages[p].cells[x]} \union (IF x = k THEN {v} ELSE {}) \subseteq expected'[x]
      BY <1>3, <2>1
    <2> QED
      BY <2>2, <2>3, HoldsMore
  <1>4. CASE Acknowledged(k, v) /\ Holds(pages', k, {v})
    <2>1. CASE x = k
      BY <1>2, <1>4, <2>1 DEF Acknowledged
    <2>2. CASE x # k
      <3>1. expected'[x] = expected[x]
        BY <1>2, <1>4, <2>2 DEF Acknowledged
      <3> QED
        BY <1>3, <2>2, <3>1
    <2> QED
      BY <2>1, <2>2
  <1>5. CASE Doubtful(k, v)
    <2>1. expected'[x] = IF x = k THEN expected[x] \union {v} ELSE expected[x]
      BY <1>2, <1>5 DEF Doubtful
    <2> QED
      BY <1>3, <2>1
  <1> QED
    BY <1>4, <1>5 DEF InsertChains

LEMMA ChainInvNext == ChainInv /\ [Next]_vars => ChainInv'
  <1> SUFFICES ASSUME ChainInv, [Next]_vars PROVE ChainInv'
    OBVIOUS
  <1>1. TreeInv'
    BY TreeInvNext DEF ChainInv
  <1>2. /\ Lone(pages)' <=> Lone(pages')
        /\ Chained(pages)' <=> Chained(pages')
        /\ Kept(pages, expected)' <=> Kept(pages', expected')
    BY DEF Lone, LeafAt, Chained, Whole, Line, Route, Kept, Holds
  <1>3. CASE UNCHANGED vars
    <2>1. pages' = pages /\ expected' = expected
      BY <1>3 DEF vars
    <2> QED
      BY <1>1, <1>2, <2>1 DEF ChainInv
  <1>4. ASSUME NEW k \in Key, NEW v \in Payload, Insert(k, v) PROVE ChainInv'
    <2>1. InsertChains(k, v)
      BY <1>4, InsertKeepsChain
    <2>2. Lone(pages') /\ Chained(pages') /\ Kept(pages', expected')
      BY <2>1, InsertKeepsRecords DEF InsertChains
    <2> QED
      BY <1>1, <1>2, <2>2 DEF ChainInv
  <1> QED
    BY <1>3, <1>4 DEF Next

LEMMA ChainInvInit == Init => ChainInv
  <1> SUFFICES ASSUME Init PROVE ChainInv
    OBVIOUS
  <1>1. TreeInv
    BY TreeInvInit
  <1>2. /\ pages[Root] = Leaf(<<>>, NoLeaf, NoLeaf)
        /\ \A p \in PageId \ {Root} : pages[p] = Unwritten
        /\ expected = [k \in Key |-> {Absent}]
    BY TreeFacts DEF Init
  <1>3. LeafAt(pages, Root) /\ pages[Root].next = NoLeaf /\ Lone(pages)
    BY <1>2, TreeFacts, LeafFacts DEF LeafAt, Lone
  <1>4. Route(pages, LeastKey) = Root
    BY <1>3 DEF Route, LeafAt
  <1>5. Chained(pages)
    BY <1>3, <1>4, LineOfOne DEF Chained
  <1>6. Kept(pages, expected)
    BY <1>2 DEF Kept
  <1> QED
    BY <1>1, <1>3, <1>5, <1>6 DEF ChainInv

LEMMA ChainInvAlways == Spec => []ChainInv
  BY ChainInvInit, ChainInvNext, PTL DEF Spec

-----------------------------------------------------------------------------
\* The theorems.

LEMMA ChainReads == ChainInv => ChainIsComplete /\ LatestInChain
  <1> SUFFICES ASSUME ChainInv PROVE ChainIsComplete /\ LatestInChain
    OBVIOUS
  <1>1. ChainStep[MaxPageId] = NoLeaf /\ Chain = Leaves
    BY ChainFacts, TreeShape DEF ChainInv, TreeInv
  <1>2. LatestInChain
    BY <1>1 DEF ChainInv, Kept, Holds, LatestInChain, Leaves, LeafAt
  <1> QED
    BY <1>1, <1>2 DEF ChainIsComplete

\* next_leaf leads from the leaf of the least key through every leaf, each of
\* them once, and ends (tree.rs:168-231): whatever split where, failed for a full
\* parent or panicked halfway, a scan of all keys terminates and misses no leaf.
THEOREM ChainAlwaysComplete == Spec => []ChainIsComplete
  BY ChainReads, ChainInvAlways, PTL

\* No acknowledged record leaves the leaf chain (tree.rs:146-231), also one a split
\* has put out of the reach of a search.
THEOREM LatestAlwaysInChain == Spec => []LatestInChain
  BY ChainReads, ChainInvAlways, PTL

-----------------------------------------------------------------------------
\* The way back along the chain.

\* The pages that were allocated and never written.
Dead(pg, count) == {p \in PageId : p < count /\ pg[p] = Unwritten}

\* Each leaf is the one before the next one, and the next of the one before, but
\* for links to the pages in D.
Backs(pg, D) ==
  \A p \in PageId :
    LeafAt(pg, p) =>
      /\ pg[p].next # NoLeaf => pg[pg[p].next].prev \in D \union {p}
      /\ pg[p].prev # NoLeaf =>
           pg[p].prev \in D \/ (LeafAt(pg, pg[p].prev) /\ pg[pg[p].prev].next = p)

\* next_leaf and prev_leaf are pages.
LEMMA LinkTypes ==
  ASSUME NEW pg, NEW count, Shape(pg, count)
  PROVE  \A p \in PageId : LeafAt(pg, p) =>
           pg[p].next \in PageId \union {NoLeaf} /\ pg[p].prev \in PageId \union {NoLeaf}
  BY PageTypes, LeafFacts DEF LeafAt

\* No two leaves have the same next one.
LEMMA NextIsUnique ==
  ASSUME NEW pg, Chained(pg), NEW p \in PageId, NEW q \in PageId, LeafAt(pg, p), LeafAt(pg, q),
         pg[p].next = pg[q].next, pg[p].next # NoLeaf
  PROVE  p = q
  <1>1. PICK n, s : Whole(pg, n, s)
    BY DEF Chained
  <1>2. /\ n \in Nat /\ \A i, j \in 1..n : s[i] = s[j] => i = j
        /\ \A i \in 1..n : pg[s[i]].next = IF i < n THEN s[i + 1] ELSE NoLeaf
    BY <1>1 DEF Whole, Line
  <1>3. PICK i \in 1..n : s[i] = p
    BY <1>1 DEF Whole
  <1>4. PICK j \in 1..n : s[j] = q
    BY <1>1 DEF Whole
  <1>5. i < n /\ j < n /\ s[i + 1] = s[j + 1] /\ i + 1 \in 1..n /\ j + 1 \in 1..n
    BY <1>2, <1>3, <1>4
  <1>6. i + 1 = j + 1
    BY <1>2, <1>5
  <1> QED
    BY <1>2, <1>3, <1>4, <1>6

SameLinks(pg, pq) ==
  \A p \in PageId :
    /\ LeafAt(pq, p) <=> LeafAt(pg, p)
    /\ LeafAt(pg, p) => pq[p].next = pg[p].next
    /\ pq[p].prev = pg[p].prev

LEMMA BacksSame ==
  ASSUME NEW pg, NEW pq, NEW count, Shape(pg, count), NEW D, Backs(pg, D), SameLinks(pg, pq)
  PROVE  Backs(pq, D)
  <1> SUFFICES ASSUME NEW p \in PageId, LeafAt(pg, p)
               PROVE  /\ pq[p].next # NoLeaf => pq[pq[p].next].prev \in D \union {p}
                      /\ pq[p].prev # NoLeaf =>
                           pq[p].prev \in D \/ (LeafAt(pq, pq[p].prev) /\ pq[pq[p].prev].next = p)
    BY DEF Backs, SameLinks
  <1>1. pg[p].next \in PageId \union {NoLeaf} /\ pg[p].prev \in PageId \union {NoLeaf}
    BY LinkTypes
  <1>2. pq[p].next = pg[p].next /\ pq[p].prev = pg[p].prev
    BY DEF SameLinks
  <1> QED
    BY <1>1, <1>2 DEF Backs, SameLinks

\* A new leaf behind another one is linked both ways.
LEMMA BacksGrow ==
  ASSUME NEW pg, NEW pq, NEW D, Backs(pg, D), Chained(pg), Linked(pg),
         \A p \in PageId : LeafAt(pg, p) =>
           pg[p].next \in PageId \union {NoLeaf} /\ pg[p].prev \in PageId \union {NoLeaf},
         NEW id \in PageId, LeafAt(pg, id), NEW new \in PageId, ~LeafAt(pg, new),
         NEW next, next = pg[id].next, next # NoLeaf => LeafAt(pg, next) /\ pq[next].prev = new,
         \A p \in PageId : LeafAt(pq, p) <=> (LeafAt(pg, p) \/ p = new),
         pq[id].next = new, pq[id].prev = pg[id].prev, pq[new].next = next, pq[new].prev = id,
         \A p \in PageId : LeafAt(pg, p) /\ p # id => pq[p].next = pg[p].next,
         \A p \in PageId : LeafAt(pg, p) /\ p # next => pq[p].prev = pg[p].prev
  PROVE  Backs(pq, D)
  <1>1. NoLeaf \notin PageId /\ next \in PageId \union {NoLeaf} /\ id # new
    BY TreeFacts
  <1>2. \A p \in PageId : (LeafAt(pg, p) /\ pg[p].next # NoLeaf) =>
          pg[p].next # p /\ LeafAt(pg, pg[p].next)
    BY DEF Linked, LeafAt
  <1>3. ASSUME NEW p \in PageId, LeafAt(pq, p), pq[p].next # NoLeaf
        PROVE  pq[pq[p].next].prev \in D \union {p}
    <2>1. CASE p = id
      BY <2>1
    <2>2. CASE p = new
      BY <1>3, <2>2
    <2>3. CASE p # id /\ p # new
      <3> DEFINE q == pg[p].next
      <3>1. LeafAt(pg, p) /\ pq[p].next = q /\ q # NoLeaf
        BY <1>3, <2>3
      <3>2. q \in PageId /\ LeafAt(pg, q) /\ pg[q].prev \in D \union {p}
        BY <1>2, <3>1 DEF Backs
      <3>3. q # next
        BY <2>3, <3>1, NextIsUnique
      <3> HIDE DEF q
      <3>4. pq[q].prev = pg[q].prev
        BY <3>2, <3>3
      <3> QED
        BY <3>1, <3>2, <3>4
    <2> QED
      BY <2>1, <2>2, <2>3
  <1>4. ASSUME NEW p \in PageId, LeafAt(pq, p), pq[p].prev # NoLeaf
        PROVE  pq[p].prev \in D \/ (LeafAt(pq, pq[p].prev) /\ pq[pq[p].prev].next = p)
    <2>1. CASE p = new
      BY <2>1
    <2>2. CASE p = next /\ p # new
      BY <1>1, <2>2
    <2>3. CASE p # new /\ p # next
      <3> DEFINE r == pg[p].prev
      <3>1. LeafAt(pg, p) /\ pq[p].prev = r /\ r # NoLeaf
        BY <1>4, <2>3
      <3>2. r \in PageId
        BY <3>1
      <3>3. r \in D \/ (LeafAt(pg, r) /\ pg[r].next = p)
        BY <3>1 DEF Backs
      <3> HIDE DEF r
      <3>4. CASE LeafAt(pg, r) /\ pg[r].next = p
        BY <2>3, <3>1, <3>2, <3>4
      <3> QED
        BY <3>1, <3>3, <3>4
    <2> QED
      BY <2>1, <2>2, <2>3
  <1> QED
    BY <1>3, <1>4 DEF Backs


\* The links of the two leaves of a new root.
LEMMA BacksOfTwo ==
  ASSUME NEW pg, NEW D, NEW left \in PageId, NEW right \in PageId,
         \A p \in PageId : LeafAt(pg, p) <=> p \in {left, right},
         pg[left].next = right, pg[right].next = NoLeaf,
         pg[left].prev = NoLeaf, pg[right].prev = left
  PROVE  Backs(pg, D)
  BY DEF Backs

\* What an insert does to the links.
LEMMA LinksByStore ==
  ASSUME ChainInv, NEW k \in Key, NEW v \in Payload, NEW pq, pq = After(StoreWrites(k, v)),
         NEW D, Backs(pages, D), D \subseteq Dead(pages, pageCount)
  PROVE  Backs(pq, D) /\ D \subseteq Dead(pq, pageCount)
  <1> DEFINE id == LeafOf(k)
             new == Leaf(AllCells(k, v), pages[id].next, pages[id].prev)
  <1>1. TreeInv /\ Shape(pages, pageCount)
    BY TreeShape DEF ChainInv, TreeInv
  <1>2. /\ id \in PageId /\ pages[id].type = "leaf"
        /\ pq[id] = new /\ \A p \in PageId : p # id => pq[p] = pages[p]
    <2>1. id \in PageId /\ pages[id].type = "leaf"
      BY <1>1, CallFacts
    <2>2. pq[id] = new /\ \A p \in PageId : p # id => pq[p] = pages[p]
      BY <1>1, StorePages
    <2> QED
      BY <2>1, <2>2
  <1>3. new.type = "leaf" /\ new.next = pages[id].next /\ new.prev = pages[id].prev
    BY LeafFacts, TreeFacts
  <1> HIDE DEF id, new
  <1>4. SameLinks(pages, pq)
    <2> SUFFICES ASSUME NEW p \in PageId
                 PROVE  /\ LeafAt(pq, p) <=> LeafAt(pages, p)
                        /\ LeafAt(pages, p) => pq[p].next = pages[p].next
                        /\ pq[p].prev = pages[p].prev
      BY DEF SameLinks
    <2>1. CASE p = id
      BY <1>2, <1>3, <2>1 DEF LeafAt
    <2>2. CASE p # id
      BY <1>2, <2>2 DEF LeafAt
    <2> QED
      BY <2>1, <2>2
  <1>5. Backs(pq, D)
    BY <1>1, <1>4, BacksSame
  <1>6. D \subseteq Dead(pq, pageCount)
    <2>1. \A p \in PageId : pages[p] = Unwritten => p # id
      BY <1>2, TreeFacts
    <2> QED
      BY <1>2, <2>1 DEF Dead
  <1> QED
    BY <1>5, <1>6

LEMMA LinksByRootSplit ==
  ASSUME ChainInv, NEW k \in Key, NEW v \in Payload, RootIsFull(k, v),
         NEW pq, pq = After(RootWrites(AllCells(k, v), pageCount, pageCount + 1)),
         NEW D, D \subseteq Dead(pages, pageCount)
  PROVE  Backs(pq, D) /\ D \subseteq Dead(pq, pageCount + 2)
  <1> DEFINE all == AllCells(k, v)
             left == pageCount
             right == pageCount + 1
             low == Leaf(Low(all), right, NoLeaf)
             high == Leaf(High(all), NoLeaf, left)
             root == Interior(<<[child |-> left, key |-> Separator(all)]>>, right)
  <1>1. TreeInv /\ Lone(pages) /\ pageCount \in Int
    BY DEF ChainInv, TreeInv
  <1>2. pages[Root].type = "leaf"
    <2>1. LeafOf(k) = Root
      BY DEF RootIsFull
    <2> QED
      BY <1>1, <2>1, CallFacts
  <1>3. /\ left \in PageId \ {Root} /\ right \in PageId \ {Root, left}
        /\ pq[left] = low /\ pq[right] = high /\ pq[Root] = root
        /\ \A p \in PageId \ {left, right, Root} : pq[p] = pages[p]
    BY <1>1, RootPages
  <1>4. /\ low.next = right /\ low.prev = NoLeaf /\ low.type = "leaf"
        /\ high.next = NoLeaf /\ high.prev = left /\ high.type = "leaf"
        /\ root.type = "interior"
    BY LeafFacts, TreeFacts
  <1>5. D \subseteq Dead(pq, pageCount + 2)
    <2>1. \A p \in Dead(pages, pageCount) :
            p \in PageId \ {left, right, Root} /\ p < pageCount + 2 /\ pages[p] = Unwritten
      BY <1>1, <1>2, TreeFacts DEF Dead
    <2> HIDE DEF left, right
    <2> QED
      BY <1>3, <2>1 DEF Dead
  <1> HIDE DEF all, low, high, root, left, right
  <1>6. \A p \in PageId : LeafAt(pq, p) <=> p \in {left, right}
    <2>1. \A p \in PageId : pages[p].type = "leaf" <=> p = Root
      BY <1>1, <1>2, TreeFacts DEF Lone, LeafAt
    <2> QED
      BY <1>3, <1>4, <2>1 DEF LeafAt
  <1>7. Backs(pq, D)
    BY <1>3, <1>4, <1>6, BacksOfTwo
  <1> QED
    BY <1>5, <1>7

LEMMA LinksByLeafSplit ==
  ASSUME ChainInv, NEW k \in Key, NEW v \in Payload, LeafIsFull(k, v), LeftHasKey(AllCells(k, v)),
         NEW parent \in BOOLEAN, NEW pq, pq = After(SplitWrites(k, v, parent)),
         NEW D, Backs(pages, D), D \subseteq Dead(pages, pageCount)
  PROVE  Backs(pq, D) /\ D \subseteq Dead(pq, pageCount + 1)
  <1> DEFINE id == LeafOf(k)
             all == AllCells(k, v)
             new == pageCount
             next == pages[id].next
  <1>1. TreeInv /\ Chained(pages) /\ Linked(pages) /\ Shape(pages, pageCount) /\ pageCount \in Int
    BY TreeShape DEF ChainInv, TreeInv
  <1>2. LeafSplits(pq, id, new, all)
    BY <1>1, SplitLeaves
  <1>3. pages[Root].type = "interior"
    BY <1>1, SiblingFacts
  <1> HIDE DEF id, all, new
  <1>4. \A p \in Dead(pages, pageCount) :
          p \in PageId \ {id, next, Root} /\ p \in Int /\ p < pageCount /\ pages[p] = Unwritten
    BY <1>1, <1>2, <1>3, TreeFacts DEF LeafSplits, Dead, LeafAt
  <1>5. D \subseteq Dead(pq, pageCount + 1)
    <2>1. \A p \in Dead(pages, pageCount) :
            p \in PageId \ {id, new, next, Root} /\ p < pageCount + 1 /\ pages[p] = Unwritten
      BY <1>1, <1>4 DEF new
    <2> HIDE DEF next
    <2> QED
      BY <1>2, <2>1 DEF LeafSplits, Dead, next
  <1>6. \A p \in PageId : LeafAt(pages, p) =>
           pages[p].next \in PageId \union {NoLeaf} /\ pages[p].prev \in PageId \union {NoLeaf}
    BY <1>1, LinkTypes
  <1>7. Backs(pq, D)
    BY <1>1, <1>2, <1>6, BacksGrow DEF LeafSplits
  <1> QED
    BY <1>5, <1>7

\* The panic in the middle of a split: the page it allocated is dead, and the
\* sibling's back link may lead there.
LEMMA LinksByPanic ==
  ASSUME ChainInv, NEW k \in Key, NEW v \in Payload, LeafIsFull(k, v),
         NEW pq, pq = After(WritesBeforePanic(k, v)),
         NEW D, Backs(pages, D), D \subseteq Dead(pages, pageCount)
  PROVE  LET E == IF HalvesFit(AllCells(k, v)) THEN D \union {pageCount} ELSE D
         IN  Backs(pq, E) /\ E \subseteq Dead(pq, pageCount + 1)
  <1> DEFINE fits == HalvesFit(AllCells(k, v))
             E == IF fits THEN D \union {pageCount} ELSE D
  <1>1. TreeInv /\ Shape(pages, pageCount) /\ pageCount \in Int
    BY TreeShape DEF ChainInv, TreeInv
  <1>2. pageCount \in PageId /\ pages[pageCount] = Unwritten
    BY <1>1, SiblingFacts
  <1>3. \A p \in PageId :
          /\ LeafAt(pq, p) <=> LeafAt(pages, p)
          /\ pq[p].next = pages[p].next
          /\ pq[p].prev = pages[p].prev \/ (fits /\ pq[p].prev = pageCount)
          /\ ~LeafAt(pages, p) => pq[p] = pages[p]
    <2>1. \A p \in PageId :
            /\ pq[p].type = pages[p].type /\ pq[p].next = pages[p].next
            /\ \/ pq[p].prev = pages[p].prev
               \/ HalvesFit(AllCells(k, v)) /\ p = pages[LeafOf(k)].next /\ pq[p].prev = pageCount
            /\ pq[p] = pages[p] \/ (LeafPage(pq[p]) /\ ~(pageCount <= p))
      BY <1>1, PanicPages
    <2>2. \A c : LeafPage(c) => c.type = "leaf"
      BY TreeFacts DEF LeafPage
    <2> QED
      BY <2>1, <2>2 DEF LeafAt
  <1> HIDE DEF fits
  <1>4. E \subseteq Dead(pq, pageCount + 1)
    <2>1. \A p \in Dead(pages, pageCount) \union {pageCount} :
            p \in PageId /\ p < pageCount + 1 /\ pages[p] = Unwritten
      BY <1>1, <1>2, TreeFacts DEF Dead
    <2>2. E \subseteq Dead(pages, pageCount) \union {pageCount}
      OBVIOUS
    <2>3. \A p \in E : p \in PageId /\ p < pageCount + 1 /\ pages[p].type = "free" /\ pages[p] = Unwritten
      BY <2>1, <2>2, TreeFacts
    <2> HIDE DEF E
    <2>4. \A p \in E : pq[p] = Unwritten
      BY <1>3, <2>3 DEF LeafAt
    <2> QED
      BY <2>3, <2>4 DEF Dead
  <1>5. Backs(pq, E)
    <2> SUFFICES ASSUME NEW p \in PageId, LeafAt(pages, p)
                 PROVE  /\ pq[p].next # NoLeaf => pq[pq[p].next].prev \in E \union {p}
                        /\ pq[p].prev # NoLeaf =>
                             pq[p].prev \in E \/ (LeafAt(pq, pq[p].prev) /\ pq[pq[p].prev].next = p)
      BY <1>3 DEF Backs
    <2>1. pages[p].next \in PageId \union {NoLeaf} /\ pages[p].prev \in PageId \union {NoLeaf}
      BY <1>1, LinkTypes
    <2>2. D \subseteq E /\ (fits => pageCount \in E)
      OBVIOUS
    <2> HIDE DEF E
    <2>3. pq[p].next # NoLeaf => pq[pq[p].next].prev \in E \union {p}
      BY <1>3, <2>1, <2>2 DEF Backs
    <2>4. pq[p].prev # NoLeaf =>
            pq[p].prev \in E \/ (LeafAt(pq, pq[p].prev) /\ pq[pq[p].prev].next = p)
      BY <1>3, <2>1, <2>2 DEF Backs
    <2> QED
      BY <2>3, <2>4
  <1> QED
    BY <1>4, <1>5 DEF fits

\* The panic that spoils a back link.
SpoilsLink(k, v) == SplitLeafPanics(k, v) /\ HalvesFit(AllCells(k, v))

LEMMA InsertKeepsLinks ==
  ASSUME ChainInv, NEW k \in Key, NEW v \in Payload, Insert(k, v),
         NEW D, Backs(pages, D), D \subseteq Dead(pages, pageCount)
  PROVE  \E E : /\ E = D \/ (E = D \union {pageCount} /\ SpoilsLink(k, v))
                /\ Backs(pages', E) /\ E \subseteq Dead(pages', pageCount')
  <1>0. TreeInv /\ pageCount \in Int
    BY DEF ChainInv, TreeInv
  <1>1. CASE StoreInLeaf(k, v)
    <2>1. pages' = After(StoreWrites(k, v)) /\ pageCount' = pageCount
      BY <1>0, <1>1 DEF StoreInLeaf, Perform
    <2>2. Backs(pages', D) /\ D \subseteq Dead(pages', pageCount)
      BY <2>1, LinksByStore
    <2> QED
      BY <2>1, <2>2
  <1>2. CASE SplitRoot(k, v)
    <2>1. /\ pages' = After(RootWrites(AllCells(k, v), pageCount, pageCount + 1))
          /\ RootIsFull(k, v) /\ pageCount' = pageCount + 2
      BY <1>2 DEF SplitRoot, Perform
    <2>2. Backs(pages', D) /\ D \subseteq Dead(pages', pageCount + 2)
      BY <2>1, LinksByRootSplit
    <2> QED
      BY <2>1, <2>2
  <1>3. CASE SplitRootPanics(k, v)
    <2>1. pages' = After(<<>>) /\ pageCount' = pageCount + 2
      BY <1>3 DEF SplitRootPanics, Perform
    <2>2. pages' = pages
      <3>1. pageCount <= pageCount
        BY <1>0
      <3> QED
        BY <1>0, <2>1, <3>1, NothingWritten
    <2>3. D \subseteq Dead(pages', pageCount')
      BY <1>0, <2>1, <2>2, TreeFacts DEF Dead
    <2> QED
      BY <2>2, <2>3
  <1>4. CASE SplitLeaf(k, v)
    <2>1. /\ pages' = After(SplitWrites(k, v, TRUE)) /\ pageCount' = pageCount + 1
          /\ LeafIsFull(k, v) /\ LeftHasKey(AllCells(k, v))
      BY <1>4 DEF SplitLeaf, Perform, CanSplit, SplitWrites
    <2>2. PICK parent \in BOOLEAN : pages' = After(SplitWrites(k, v, parent))
      BY <2>1, Zenon
    <2>3. Backs(pages', D) /\ D \subseteq Dead(pages', pageCount + 1)
      BY <2>1, <2>2, LinksByLeafSplit
    <2> QED
      BY <2>1, <2>3
  <1>5. CASE ParentIsFull(k, v)
    <2>1. /\ pages' = After(SplitWrites(k, v, FALSE)) /\ pageCount' = pageCount + 1
          /\ LeafIsFull(k, v) /\ LeftHasKey(AllCells(k, v))
      BY <1>5 DEF ParentIsFull, Perform, CanSplit, SplitWrites
    <2>2. PICK parent \in BOOLEAN : pages' = After(SplitWrites(k, v, parent))
      BY <2>1, Zenon
    <2>3. Backs(pages', D) /\ D \subseteq Dead(pages', pageCount + 1)
      BY <2>1, <2>2, LinksByLeafSplit
    <2> QED
      BY <2>1, <2>3
  <1>6. CASE SplitLeafPanics(k, v)
    <2>1. pages' = After(WritesBeforePanic(k, v)) /\ LeafIsFull(k, v) /\ pageCount' = pageCount + 1
      BY <1>6 DEF SplitLeafPanics, Perform
    <2> DEFINE E == IF HalvesFit(AllCells(k, v)) THEN D \union {pageCount} ELSE D
    <2>2. Backs(pages', E) /\ E \subseteq Dead(pages', pageCount + 1)
      BY <2>1, LinksByPanic
    <2>3. E = D \/ (E = D \union {pageCount} /\ SpoilsLink(k, v))
      BY <1>6 DEF SpoilsLink
    <2> HIDE DEF E
    <2> QED
      BY <2>1, <2>2, <2>3
  <1> QED
    BY <1>1, <1>2, <1>3, <1>4, <1>5, <1>6 DEF Insert


\* The links after any run: those astray lead to dead pages.
LinkInv == ChainInv /\ Backs(pages, Dead(pages, pageCount))

LEMMA BacksMore ==
  ASSUME NEW pg, NEW D, NEW E, Backs(pg, D), D \subseteq E
  PROVE  Backs(pg, E)
  BY DEF Backs

LEMMA BacksInit == Init => Backs(pages, {})
  <1> SUFFICES ASSUME Init PROVE Backs(pages, {})
    OBVIOUS
  <1>1. pages[Root] = Leaf(<<>>, NoLeaf, NoLeaf) /\ \A p \in PageId \ {Root} : pages[p] = Unwritten
    BY TreeFacts DEF Init
  <1> QED
    BY <1>1, LeafFacts, TreeFacts DEF Backs, LeafAt

LEMMA BacksPrimed ==
  ASSUME NEW D
  PROVE  /\ Backs(pages, D)' <=> Backs(pages', D')
         /\ Dead(pages, pageCount)' = Dead(pages', pageCount')
  BY DEF Backs, Dead, LeafAt

LEMMA LinkInvInit == Init => LinkInv
  BY ChainInvInit, BacksInit, BacksMore DEF LinkInv

LEMMA LinkInvNext == LinkInv /\ [Next]_vars => LinkInv'
  <1> SUFFICES ASSUME LinkInv, [Next]_vars PROVE LinkInv'
    OBVIOUS
  <1>1. ChainInv /\ ChainInv'
    BY ChainInvNext DEF LinkInv
  <1> DEFINE D == Dead(pages, pageCount)
  <1>2. Backs(pages, D) /\ D \subseteq Dead(pages, pageCount)
    BY DEF LinkInv
  <1>3. Backs(pages', Dead(pages', pageCount')) => LinkInv'
    BY <1>1 DEF LinkInv, Backs, Dead, LeafAt
  <1>4. CASE UNCHANGED vars
    <2>1. pages' = pages /\ pageCount' = pageCount
      BY <1>4 DEF vars
    <2> QED
      BY <1>2, <1>3, <2>1
  <1>5. ASSUME NEW k \in Key, NEW v \in Payload, Insert(k, v) PROVE LinkInv'
    <2> HIDE DEF D
    <2>1. PICK E : Backs(pages', E) /\ E \subseteq Dead(pages', pageCount')
      BY <1>1, <1>2, <1>5, InsertKeepsLinks
    <2> QED
      BY <1>3, <2>1, BacksMore
  <1> QED
    BY <1>4, <1>5 DEF Next

LEMMA LinkInvAlways == Spec => []LinkInv
  BY LinkInvInit, LinkInvNext, PTL DEF Spec

LEMMA LinksRead == LinkInv => SpoiledLinksAreDead
  <1> SUFFICES ASSUME LinkInv, NEW p \in Leaves
               PROVE  /\ pages[p].next # NoLeaf =>
                           LET back == pages[pages[p].next].prev
                           IN  back = p \/ (back \in PageId /\ back < pageCount /\ pages[back] = Unwritten)
                      /\ pages[p].prev # NoLeaf =>
                           LET before == pages[pages[p].prev]
                           IN  \/ before.type = "leaf" /\ before.next = p
                               \/ pages[p].prev < pageCount /\ before = Unwritten
    BY DEF SpoiledLinksAreDead
  <1>1. p \in PageId /\ LeafAt(pages, p)
    BY DEF Leaves, LeafAt
  <1> QED
    BY <1>1 DEF LinkInv, Backs, Dead, LeafAt

\* Whatever splits, errors and panics came before, a leaf's back link is right, or
\* leads to a page that a split allocated and, panicking, never wrote
\* (tree.rs:178-185).
THEOREM LinksSpoiledByPanicOnly == Spec => []SpoiledLinksAreDead
  BY LinksRead, LinkInvAlways, PTL

-----------------------------------------------------------------------------
\* Records that leave a page room to grow beside themselves.

GrowthLeavesRoom ==
  \A u, v \in Payload :
    Length[u] < Length[v] /\ PointerBytes + CellSize(v) <= PageSpace
      => PointerBytes + CellSize(u) + CellSize(v) <= PageSpace

\* Then a leaf that is split into halves that fit has two records at least.
LEMMA SplitHasTwo ==
  ASSUME GrowthLeavesRoom, NEW c, Records(c), NEW k \in Key, NEW v \in Payload,
         ~Fits(c, k, v), HalvesFit(WithRecord(c, k, v))
  PROVE  LeftHasKey(WithRecord(c, k, v))
  <1> SUFFICES ASSUME ~LeftHasKey(WithRecord(c, k, v)) PROVE FALSE
    OBVIOUS
  <1> DEFINE all == WithRecord(c, k, v)
             S == DOMAIN all
  <1>1. Records(all) /\ S = DOMAIN c \union {k} /\ \A x \in S : all[x] = IF x = k THEN v ELSE c[x]
    <2>1. all = [x \in DOMAIN c \union {k} |-> IF x = k THEN v ELSE c[x]]
      BY DEF WithRecord
    <2> HIDE DEF all
    <2>2. IsFiniteSet(DOMAIN c \union {k})
      BY FS_AddElement DEF Records
    <2> QED
      BY <2>1, <2>2 DEF Records
  <1>2. LowKeys(S) = {} /\ IsFiniteSet(S) /\ S \in SUBSET Int /\ k \in S
    BY <1>1, TreeFacts DEF LeftHasKey, Records
  <1>3. S = {k}
    <2> HIDE DEF all, S
    <2>1. \A x \in S : ~(Cardinality(Below(S, x)) < Cardinality(S) \div 2)
      BY <1>2 DEF LowKeys, Below
    <2> SUFFICES ASSUME NEW x \in S, x # k PROVE FALSE
      BY <1>2
    <2>2. \E m \in S : Below(S, m) = {}
      <3>1. S # {} /\ \A y \in S : Cardinality(Below(S, y)) \in Nat
        <4>1. \A y \in S : Below(S, y) \in SUBSET S
          BY DEF Below
        <4> QED
          BY <1>2, <4>1, FS_Subset, FS_CardinalityType
      <3> DEFINE ranks == {Cardinality(Below(S, y)) : y \in S}
      <3>2. PICK m \in S : \A y \in S : Cardinality(Below(S, m)) <= Cardinality(Below(S, y))
        <4>1. ranks \in SUBSET Nat /\ ranks # {}
          BY <3>1
        <4>2. Min(ranks) \in ranks /\ \A r \in ranks : Min(ranks) <= r
          <5> HIDE DEF ranks
          <5> QED
            BY <4>1, MinFacts
        <4> QED
          BY <4>2
      <3>3. \A y \in S : ~(y < m)
        BY <1>2, <3>2, <3>1, BelowGrows
      <3> QED
        BY <3>3 DEF Below
    <2>3. Cardinality(S) \in Nat /\ Cardinality({}) = 0
      BY <1>2, FS_CardinalityType, FS_EmptySet
    <2>4. Cardinality({x, k}) = 2 /\ {x, k} \in SUBSET S
      <3>1. Cardinality({x}) = 1 /\ IsFiniteSet({x}) /\ k \notin {x}
        BY <1>2, FS_Singleton
      <3>2. Cardinality({x} \union {k}) = Cardinality({x}) + 1
        BY <3>1, FS_AddElement
      <3>3. {x, k} = {x} \union {k} /\ {x, k} \in SUBSET S
        BY <1>2
      <3> QED
        BY <3>1, <3>2, <3>3
    <2>5. 2 <= Cardinality(S)
      BY <1>2, <2>4, FS_Subset
    <2> QED
      BY <2>1, <2>2, <2>3, <2>5
  <1>4. Bytes(all) <= PageSpace
    <2>1. High(all) = Restrict(all, S)
      BY <1>2 DEF High
    <2>2. Restrict(all, S) = all
      BY <1>1 DEF Restrict, Records
    <2> QED
      BY <2>1, <2>2 DEF HalvesFit
  <1>5. RecordMap(c) /\ DOMAIN c \subseteq {k}
    BY <1>1, <1>3, RecordsMap
  <1>6. /\ Bytes(c) \in Nat
        /\ k \notin DOMAIN c => Bytes(all) = Bytes(c) + PointerBytes + CellSize(v)
    BY <1>5, BytesWithRecord
  <1>7. CASE k \notin DOMAIN c
    BY <1>4, <1>6, <1>7 DEF Fits
  <1>8. CASE k \in DOMAIN c
    <2>1. c[k] \in Payload
      BY <1>8 DEF Records
    <2>2. Bytes(c) = PointerBytes + CellSize(c[k]) /\ Bytes(all) = PointerBytes + CellSize(v)
      <3> DEFINE none == [x \in {} |-> v]
      <3>1. DOMAIN none = {} /\ RecordMap(none) /\ Bytes(none) = 0
        BY BytesNone, FS_EmptySet DEF RecordMap
      <3>2. Without(c, none, k) /\ Without(all, none, k)
        BY <1>3, <1>5, <1>8, <3>1 DEF Without
      <3>3. RecordMap(all) /\ all[k] = v /\ k \in DOMAIN all
        BY <1>1, RecordsMap
      <3> HIDE DEF none, all
      <3>4. Bytes(c) = PointerBytes + CellSize(c[k]) + Bytes(none)
        BY <1>5, <1>8, <3>1, <3>2, BytesWithout
      <3>5. Bytes(all) = PointerBytes + CellSize(all[k]) + Bytes(none)
        BY <3>1, <3>2, <3>3, BytesWithout
      <3> QED
        BY <2>1, <3>1, <3>3, <3>4, <3>5, SizeFacts
    <2>3. ~(Length[v] <= Length[c[k]]) /\ ~(Bytes(c) + CellSize(v) <= PageSpace)
      BY <1>8 DEF Fits
    <2> HIDE DEF all
    <2> QED
      BY <1>4, <2>1, <2>2, <2>3, SizeFacts DEF GrowthLeavesRoom
  <1> QED
    BY <1>7, <1>8

LEMMA NoLinkIsSpoiled ==
  ASSUME GrowthLeavesRoom, ChainInv, NEW k \in Key, NEW v \in Payload
  PROVE  ~SpoilsLink(k, v)
  <1> SUFFICES ASSUME SpoilsLink(k, v) PROVE FALSE
    OBVIOUS
  <1> DEFINE c == pages[LeafOf(k)].cells
  <1>1. Records(c)
    BY CallFacts DEF ChainInv
  <1>2. ~Fits(c, k, v) /\ HalvesFit(WithRecord(c, k, v)) /\ ~LeftHasKey(WithRecord(c, k, v))
    BY DEF SpoilsLink, SplitLeafPanics, LeafIsFull, RecordFits, CanSplit, AllCells
  <1> HIDE DEF c
  <1> QED
    BY <1>1, <1>2, SplitHasTwo

BackInv == ChainInv /\ Backs(pages, {})

LEMMA BackInvNext == GrowthLeavesRoom /\ BackInv /\ [Next]_vars => BackInv'
  <1> SUFFICES ASSUME GrowthLeavesRoom, BackInv, [Next]_vars PROVE BackInv'
    OBVIOUS
  <1>1. ChainInv /\ ChainInv' /\ Backs(pages, {})
    BY ChainInvNext DEF BackInv
  <1>2. Backs(pages', {}) => BackInv'
    BY <1>1 DEF BackInv, Backs, LeafAt
  <1>3. CASE UNCHANGED vars
    <2>1. pages' = pages
      BY <1>3 DEF vars
    <2> QED
      BY <1>1, <1>2, <2>1
  <1>4. ASSUME NEW k \in Key, NEW v \in Payload, Insert(k, v) PROVE BackInv'
    <2>1. {} \subseteq Dead(pages, pageCount)
      OBVIOUS
    <2>2. PICK E : (E = {} \/ SpoilsLink(k, v)) /\ Backs(pages', E)
      BY <1>1, <1>4, <2>1, InsertKeepsLinks
    <2>3. E = {}
      BY <1>1, <2>2, NoLinkIsSpoiled
    <2> QED
      BY <1>2, <2>2, <2>3
  <1> QED
    BY <1>3, <1>4 DEF Next

LEMMA BackInvAlways == GrowthLeavesRoom => (Spec => []BackInv)
  <1> SUFFICES ASSUME GrowthLeavesRoom PROVE Spec => []BackInv
    OBVIOUS
  <1>1. Init => BackInv
    BY ChainInvInit, BacksInit DEF BackInv
  <1>2. BackInv /\ [Next]_vars => BackInv'
    BY BackInvNext
  <1> QED
    BY <1>1, <1>2, PTL DEF Spec

LEMMA BacksRead == BackInv => BackLinks
  BY DEF BackInv, Backs, BackLinks, Leaves, LeafAt

\* Where a record alone in a leaf always has room to grow, no split is left without
\* a lower half, and prev_leaf is always the way back along the chain
\* (tree.rs:168-188).
THEOREM BackLinksKept == GrowthLeavesRoom => (Spec => []BackLinks)
  BY BackInvAlways, BacksRead, PTL

-----------------------------------------------------------------------------
\* The keys in ascending order.

\* The key at a place is the one with as many keys below it.
Ranked(S) ==
  /\ Cardinality(S) \in Nat /\ DOMAIN Ascending(S) = 1..Cardinality(S)
  /\ \A i \in 1..Cardinality(S) :
       Ascending(S)[i] \in S /\ Cardinality(Below(S, Ascending(S)[i])) = i - 1
  /\ \A x \in S, i \in 1..Cardinality(S) :
       Cardinality(Below(S, x)) = i - 1 => Ascending(S)[i] = x

LEMMA AscendingFacts ==
  ASSUME NEW S \in SUBSET Int, IsFiniteSet(S)
  PROVE  Ranked(S)
  <1> DEFINE T == 1..Cardinality(S)
             rank == [x \in S |-> Cardinality(Below(S, x)) + 1]
  <1>1. Cardinality(S) \in Nat /\ DOMAIN Ascending(S) = T
    BY FS_CardinalityType DEF Ascending
  <1>2. ASSUME NEW x \in S
        PROVE  Cardinality(Below(S, x)) \in Nat /\ Cardinality(Below(S, x)) < Cardinality(S)
    <2>1. Below(S, x) \in SUBSET S /\ x \notin Below(S, x)
      BY DEF Below
    <2>2. IsFiniteSet(Below(S, x)) /\ Cardinality(Below(S, x)) <= Cardinality(S)
      BY <2>1, FS_Subset
    <2>3. Cardinality(Below(S, x)) # Cardinality(S)
      BY <2>1, FS_Subset
    <2>4. Cardinality(Below(S, x)) \in Nat
      BY <2>2, FS_CardinalityType
    <2> QED
      BY <1>1, <2>2, <2>3, <2>4
  <1>3. \A x, y \in S : Cardinality(Below(S, x)) = Cardinality(Below(S, y)) => x = y
    <2> SUFFICES ASSUME NEW x \in S, NEW y \in S, x # y
                 PROVE  Cardinality(Below(S, x)) # Cardinality(Below(S, y))
      OBVIOUS
    <2>1. CASE x < y
      BY <2>1, BelowGrows
    <2>2. CASE y < x
      BY <2>2, BelowGrows
    <2> QED
      BY <2>1, <2>2
  <1>4. rank \in [S -> T] /\ \A x \in S : rank[x] = Cardinality(Below(S, x)) + 1
    BY <1>1, <1>2
  <1>5. IsFiniteSet(T) /\ Cardinality(T) = Cardinality(S)
    BY <1>1, FS_Interval
  <1> HIDE DEF rank, T
  <1>6. rank \in Injection(S, T)
    BY <1>2, <1>3, <1>4 DEF Injection, IsInjective
  <1>7. rank \in Surjection(S, T)
    BY <1>5, <1>6, FS_Injection
  <1>8. \A i \in T : \E x \in S : Cardinality(Below(S, x)) = i - 1
    <2> TAKE i \in T
    <2>1. PICK x \in S : rank[x] = i
      BY <1>7 DEF Surjection
    <2> QED
      BY <1>2, <1>4, <2>1
  <1>9. \A i \in T : Ascending(S)[i] = CHOOSE x \in S : Cardinality(Below(S, x)) = i - 1
    BY DEF Ascending, Below, T
  <1>10. \A i \in T : Ascending(S)[i] \in S /\ Cardinality(Below(S, Ascending(S)[i])) = i - 1
    BY <1>8, <1>9
  <1>11. \A x \in S, i \in T : Cardinality(Below(S, x)) = i - 1 => Ascending(S)[i] = x
    BY <1>3, <1>10
  <1> QED
    BY <1>1, <1>10, <1>11 DEF T, Ranked

LEMMA DisjointUnion ==
  ASSUME NEW A, IsFiniteSet(A), NEW B, IsFiniteSet(B), \A x \in A : x \notin B,
         NEW C, C = A \union B
  PROVE  IsFiniteSet(C) /\ Cardinality(C) = Cardinality(A) + Cardinality(B)
  <1> DEFINE D == A \cap B
             E == A \cup B
  <1>1. IsFiniteSet(E) /\ Cardinality(E) = Cardinality(A) + Cardinality(B) - Cardinality(D)
    BY ONLY FS_Union, IsFiniteSet(A), IsFiniteSet(B), Zenon
  <1>2. D = {} /\ E = C
    OBVIOUS
  <1>3. Cardinality(A) \in Nat /\ Cardinality(B) \in Nat /\ Cardinality({}) = 0
    BY FS_CardinalityType, FS_EmptySet
  <1> HIDE DEF D, E
  <1> QED
    BY <1>1, <1>2, <1>3

\* The keys of two sets, those of the one below those of the other.
LEMMA AscendingJoin ==
  ASSUME NEW S \in SUBSET Int, IsFiniteSet(S), NEW T \in SUBSET Int, IsFiniteSet(T),
         \A x \in S, y \in T : x < y
  PROVE  /\ Cardinality(S \union T) = Cardinality(S) + Cardinality(T)
         /\ \A i \in 1..Cardinality(S) : Ascending(S \union T)[i] = Ascending(S)[i]
         /\ \A i \in 1..Cardinality(T) :
              Ascending(S \union T)[Cardinality(S) + i] = Ascending(T)[i]
  <1> DEFINE U == S \union T
  <1>1. U \in SUBSET Int /\ \A a \in S, b \in T : a < b /\ ~(b < a) /\ a # b
    OBVIOUS
  <1>2. /\ Cardinality(S) \in Nat /\ Cardinality(T) \in Nat
        /\ IsFiniteSet(U) /\ Cardinality(U) = Cardinality(S) + Cardinality(T)
    <2>1. Cardinality(S) \in Nat /\ Cardinality(T) \in Nat
      BY FS_CardinalityType
    <2>2. \A x \in S : x \notin T
      OBVIOUS
    <2> QED
      BY <2>1, <2>2, DisjointUnion
  <1>3. ASSUME NEW x \in S PROVE x \in U /\ Below(U, x) = Below(S, x)
    <2>1. \A y : y \in Below(U, x) <=> y \in Below(S, x)
      BY <1>1 DEF Below
    <2> QED
      BY <2>1
  <1>4. ASSUME NEW x \in T
        PROVE  x \in U /\ Cardinality(Below(U, x)) = Cardinality(S) + Cardinality(Below(T, x))
    <2> DEFINE B == Below(U, x)
               C == Below(T, x)
    <2>1. C \in SUBSET T /\ \A y : (y \in B <=> y \in S \/ y \in C) /\ ~(y \in S /\ y \in C)
      BY <1>1 DEF Below
    <2> HIDE DEF B, C
    <2>2. IsFiniteSet(C) /\ B = S \union C
      BY <2>1, FS_Subset
    <2>3. Cardinality(B) = Cardinality(S) + Cardinality(C)
      BY <2>1, <2>2, DisjointUnion
    <2> QED
      BY <2>3 DEF B, C
  <1> HIDE DEF U
  <1>5. Ranked(S) /\ Ranked(T) /\ Ranked(U)
    BY <1>1, <1>2, AscendingFacts
  <1>6. ASSUME NEW i \in 1..Cardinality(S) PROVE Ascending(U)[i] = Ascending(S)[i]
    <2>1. Ascending(S)[i] \in S /\ Cardinality(Below(S, Ascending(S)[i])) = i - 1
      BY <1>5 DEF Ranked
    <2>2. Ascending(S)[i] \in U /\ Cardinality(Below(U, Ascending(S)[i])) = i - 1
      BY <1>3, <2>1
    <2>3. i \in 1..Cardinality(U)
      BY <1>2
    <2> QED
      BY <1>5, <2>2, <2>3 DEF Ranked
  <1>7. ASSUME NEW i \in 1..Cardinality(T) PROVE Ascending(U)[Cardinality(S) + i] = Ascending(T)[i]
    <2>1. Ascending(T)[i] \in T /\ Cardinality(Below(T, Ascending(T)[i])) = i - 1
      BY <1>5 DEF Ranked
    <2>2. Ascending(T)[i] \in U /\ Cardinality(Below(U, Ascending(T)[i])) = Cardinality(S) + i - 1
      BY <1>2, <1>4, <2>1
    <2>3. Cardinality(S) + i \in 1..Cardinality(U)
      BY <1>2
    <2> QED
      BY <1>5, <2>2, <2>3 DEF Ranked
  <1> QED
    BY <1>2, <1>6, <1>7 DEF U

\* What a scan returns of the records m of the keys S.
Pairs(S, m) == [i \in DOMAIN Ascending(S) |-> <<Ascending(S)[i], m[Ascending(S)[i]]>>]

LEMMA PairsSame ==
  ASSUME NEW S \in SUBSET Int, IsFiniteSet(S), NEW m, NEW w, \A x \in S : m[x] = w[x]
  PROVE  Pairs(S, m) = Pairs(S, w)
  <1>1. \A i \in DOMAIN Ascending(S) : Ascending(S)[i] \in S
    BY AscendingFacts DEF Ranked
  <1> QED
    BY <1>1 DEF Pairs

LEMMA PairsJoin ==
  ASSUME NEW S \in SUBSET Int, IsFiniteSet(S), NEW T \in SUBSET Int, IsFiniteSet(T),
         \A x \in S, y \in T : x < y, NEW m
  PROVE  Pairs(S \union T, m) = Pairs(S, m) \o Pairs(T, m)
  <1> DEFINE U == S \union T
             s == Pairs(S, m)
             t == Pairs(T, m)
             u == Pairs(U, m)
  <1>1. IsFiniteSet(U) /\ U \in SUBSET Int
    BY FS_Union
  <1>9. Ranked(S) /\ Ranked(T) /\ Ranked(U)
    <2> HIDE DEF U
    <2> QED
      BY <1>1, AscendingFacts
  <1>2. /\ Cardinality(S) \in Nat /\ Cardinality(T) \in Nat
        /\ s = [i \in 1..Cardinality(S) |-> s[i]] /\ t = [i \in 1..Cardinality(T) |-> t[i]]
    BY <1>9 DEF Pairs, Ranked
  <1>3. u = [i \in 1..Cardinality(U) |-> u[i]] /\ Cardinality(U) = Cardinality(S) + Cardinality(T)
    <2>1. DOMAIN Ascending(U) = 1..Cardinality(U)
      BY <1>9 DEF Ranked
    <2>2. Cardinality(U) = Cardinality(S) + Cardinality(T)
      BY AscendingJoin
    <2> QED
      BY <2>1, <2>2 DEF Pairs
  <1>4. \A i \in 1..Cardinality(S) : u[i] = s[i]
    <2> TAKE i \in 1..Cardinality(S)
    <2>1. Ascending(U)[i] = Ascending(S)[i]
      BY AscendingJoin
    <2>2. i \in DOMAIN Ascending(S) /\ i \in DOMAIN Ascending(U)
      BY <1>2, <1>3, <1>9 DEF Ranked
    <2> QED
      BY <2>1, <2>2 DEF Pairs
  <1>5. \A i \in 1..Cardinality(T) : u[Cardinality(S) + i] = t[i]
    <2> TAKE i \in 1..Cardinality(T)
    <2>1. Ascending(U)[Cardinality(S) + i] = Ascending(T)[i]
      BY AscendingJoin
    <2>2. i \in DOMAIN Ascending(T) /\ Cardinality(S) + i \in DOMAIN Ascending(U)
      BY <1>2, <1>3, <1>9 DEF Ranked
    <2> QED
      BY <2>1, <2>2 DEF Pairs
  <1> HIDE DEF U, s, t, u
  <1>6. /\ s \o t = [i \in 1..Cardinality(S) + Cardinality(T) |->
                       IF i <= Cardinality(S) THEN s[i] ELSE t[i - Cardinality(S)]]
    <2>1. Len(s) = Cardinality(S) /\ Len(t) = Cardinality(T)
      BY <1>2
    <2> QED
      BY <2>1, <1>2
  <1>7. ASSUME NEW i \in 1..Cardinality(S) + Cardinality(T)
        PROVE  u[i] = IF i <= Cardinality(S) THEN s[i] ELSE t[i - Cardinality(S)]
    <2>1. CASE i <= Cardinality(S)
      BY <1>2, <1>4, <2>1
    <2>2. CASE ~(i <= Cardinality(S))
      <3>1. i - Cardinality(S) \in 1..Cardinality(T) /\ Cardinality(S) + (i - Cardinality(S)) = i
        BY <1>2, <2>2
      <3>2. u[Cardinality(S) + (i - Cardinality(S))] = t[i - Cardinality(S)]
        BY <1>5, <3>1
      <3> QED
        BY <2>2, <3>1, <3>2
    <2> QED
      BY <2>1, <2>2
  <1>8. u = s \o t
    BY <1>3, <1>6, <1>7
  <1> QED
    BY <1>8 DEF u, s, t, U

-----------------------------------------------------------------------------
\* A tree in which every leaf has its keys to itself, in the order of the chain.

\* A leaf holds only keys that are routed to it.
Owned(pg) ==
  \A p \in PageId, y \in Key : LeafAt(pg, p) /\ y \in DOMAIN pg[p].cells => Route(pg, y) = p

\* A greater key is routed no less far along the chain.
InOrder(pg, n, s) ==
  \A x, y \in Key, i, j \in 1..n :
    x < y /\ Route(pg, x) = s[i] /\ Route(pg, y) = s[j] => i <= j

Sorted(pg) == Owned(pg) /\ \E n, s : Whole(pg, n, s) /\ InOrder(pg, n, s)

\* What a scan takes from one leaf, when it ends there, and what it returns from
\* that leaf on.
InRange(p, low, high) == {k \in DOMAIN pages[p].cells : low <= k /\ k <= high}
Stops(p, high) == (\E k \in DOMAIN pages[p].cells : k > high) \/ pages[p].next = NoLeaf
ScanStep(f, p, low, high) ==
  IF Stops(p, high) THEN Pairs(InRange(p, low, high), pages[p].cells)
  ELSE Pairs(InRange(p, low, high), pages[p].cells) \o f[pages[p].next]

\* The keys of the range in the leaves from the i-th on.
Ahead(n, s, i, low, high) == {k \in Key : \E j \in i..n : k \in InRange(s[j], low, high)}

LEMMA ScanRecursion ==
  ASSUME NEW low, NEW high, NEW g, g = [p \in Leaves |-> ScanStep(g, p, low, high)]
  PROVE  \E f : /\ \A p \in Leaves : f[p] = ScanStep(f, p, low, high)
                /\ RangeScan(low, high) = f[LeafOf(low)]
  <1> DEFINE from == CHOOSE f : f = [p \in Leaves |-> ScanStep(f, p, low, high)]
  <1>1. from = [p \in Leaves |-> ScanStep(from, p, low, high)]
    BY Zenon
  <1>2. RangeScan(low, high) = from[LeafOf(low)]
    BY DEF RangeScan, ScanStep, Stops, InRange, Pairs
  <1> HIDE DEF from
  <1>3. \A p \in Leaves : from[p] = ScanStep(from, p, low, high)
    BY <1>1, Zenon
  <1> QED
    BY <1>2, <1>3

\* The leaves of the chain hold the records a search finds, in key order.
CellsSorted(n, s) ==
  /\ n \in Nat
  /\ \A i \in 1..n :
       /\ s[i] \in Leaves /\ pages[s[i]].next = IF i < n THEN s[i + 1] ELSE NoLeaf
       /\ i < n => s[i + 1] # NoLeaf
       /\ DOMAIN pages[s[i]].cells \subseteq Key /\ IsFiniteSet(DOMAIN pages[s[i]].cells)
       /\ \A y \in DOMAIN pages[s[i]].cells : Search(y) = pages[s[i]].cells[y] /\ Search(y) # Absent
  /\ \A i, j \in 1..n : i < j =>
       \A x \in DOMAIN pages[s[i]].cells, y \in DOMAIN pages[s[j]].cells : x < y
  /\ \A k \in Key : \E i \in 1..n :
       /\ LeafOf(k) = s[i] /\ (Search(k) # Absent => k \in DOMAIN pages[s[i]].cells)
       /\ \A j \in 1..n : j < i => \A y \in DOMAIN pages[s[j]].cells : y < k

LEMMA SortedCells ==
  ASSUME Shape(pages, pageCount), Owned(pages), NEW n, NEW s, Whole(pages, n, s),
         InOrder(pages, n, s)
  PROVE  CellsSorted(n, s)
  <1>1. /\ n \in Nat /\ \A i, j \in 1..n : s[i] = s[j] => i = j
        /\ \A i \in 1..n : s[i] \in PageId /\ LeafAt(pages, s[i])
        /\ \A i \in 1..n : pages[s[i]].next = IF i < n THEN s[i + 1] ELSE NoLeaf
        /\ \A i \in 1..n : i < n => s[i + 1] # NoLeaf
        /\ \A p \in PageId : LeafAt(pages, p) => \E i \in 1..n : s[i] = p
    <2>1. n \in Nat /\ \A i \in 1..n : s[i] \in PageId
      BY DEF Whole, Line
    <2>2. \A i \in 1..n : i < n => s[i + 1] # NoLeaf
      BY <2>1, TreeFacts
    <2> QED
      BY <2>1, <2>2 DEF Whole, Line
  <1>2. \A k \in Key : LeafOf(k) = Route(pages, k) /\ Search(k) = Found(pages, k)
    BY DescentFacts, SearchFacts
  <1>3. ASSUME NEW i \in 1..n
        PROVE  /\ s[i] \in Leaves /\ Records(pages[s[i]].cells)
               /\ \A y \in DOMAIN pages[s[i]].cells : y \in Key /\ Route(pages, y) = s[i]
    <2>1. s[i] \in PageId /\ LeafAt(pages, s[i])
      BY <1>1
    <2>2. LeafPage(pages[s[i]])
      BY <2>1, PageTypes DEF LeafAt
    <2>3. Records(pages[s[i]].cells)
      BY <2>2, LeafFacts
    <2> QED
      BY <2>1, <2>3 DEF Records, Owned, Leaves, LeafAt
  <1>4. ASSUME NEW i \in 1..n, NEW y \in DOMAIN pages[s[i]].cells
        PROVE  Search(y) = pages[s[i]].cells[y] /\ Search(y) # Absent
    <2>1. Search(y) = pages[s[i]].cells[y]
      BY <1>2, <1>3 DEF Found
    <2>2. pages[s[i]].cells[y] \in Payload
      BY <1>3 DEF Records
    <2> QED
      BY <2>1, <2>2, AbsentAssumption
  <1>5. ASSUME NEW k \in Key, NEW i \in 1..n, Route(pages, k) = s[i], NEW j \in 1..n,
               NEW y \in DOMAIN pages[s[j]].cells, j < i
        PROVE  y < k
    <2>1. y \in Key /\ Route(pages, y) = s[j] /\ y \in Int /\ k \in Int
      BY <1>3, TreeFacts
    <2>2. k # y
      BY <1>1, <1>5, <2>1
    <2>3. ~(k < y)
      BY <1>1, <1>5, <2>1 DEF InOrder
    <2> QED
      BY <2>1, <2>2, <2>3
  <1>6. ASSUME NEW k \in Key
        PROVE  \E i \in 1..n :
                 /\ LeafOf(k) = s[i] /\ Route(pages, k) = s[i]
                 /\ Search(k) # Absent => k \in DOMAIN pages[s[i]].cells
    <2>1. Route(pages, k) \in PageId /\ LeafAt(pages, Route(pages, k))
      BY RouteFacts DEF LeafAt
    <2>2. PICK i \in 1..n : s[i] = Route(pages, k)
      BY <1>1, <2>1
    <2> QED
      BY <1>2, <2>2 DEF Found
  <1>7. ASSUME NEW i \in 1..n, NEW j \in 1..n, i < j,
               NEW x \in DOMAIN pages[s[i]].cells, NEW y \in DOMAIN pages[s[j]].cells
        PROVE  x < y
    <2>1. y \in Key /\ Route(pages, y) = s[j]
      BY <1>3
    <2> QED
      BY <1>5, <1>7, <2>1
  <1>8. ASSUME NEW k \in Key
        PROVE  \E i \in 1..n :
                 /\ LeafOf(k) = s[i] /\ (Search(k) # Absent => k \in DOMAIN pages[s[i]].cells)
                 /\ \A j \in 1..n : j < i => \A y \in DOMAIN pages[s[j]].cells : y < k
    <2>1. PICK i \in 1..n :
            /\ LeafOf(k) = s[i] /\ Route(pages, k) = s[i]
            /\ Search(k) # Absent => k \in DOMAIN pages[s[i]].cells
      BY <1>6
    <2>2. \A j \in 1..n : j < i => \A y \in DOMAIN pages[s[j]].cells : y < k
      BY <1>5, <2>1
    <2> QED
      BY <2>1, <2>2
  <1> QED
    BY <1>1, <1>3, <1>4, <1>7, <1>8 DEF Records, CellsSorted

LEMMA AheadFacts ==
  ASSUME NEW n, NEW s, CellsSorted(n, s), NEW low \in Key, NEW high \in Key, NEW i \in 1..n,
         NEW S, S = InRange(s[i], low, high), NEW T, T = Ahead(n, s, i + 1, low, high)
  PROVE  /\ S \in SUBSET Int /\ IsFiniteSet(S) /\ T \in SUBSET Int /\ IsFiniteSet(T)
         /\ \A x \in S, y \in T : x < y
         /\ Ahead(n, s, i, low, high) = S \union T
         /\ Stops(s[i], high) => T = {}
         /\ \A x \in S : [k \in Key |-> Search(k)][x] = pages[s[i]].cells[x]
  <1>1. n \in Nat /\ i \in Nat /\ 1 <= i /\ i <= n /\ low \in Int /\ high \in Int /\ Key \subseteq Int
    BY TreeFacts DEF CellsSorted
  <1>2. \A j \in 1..n :
          /\ InRange(s[j], low, high) \subseteq DOMAIN pages[s[j]].cells
          /\ DOMAIN pages[s[j]].cells \subseteq Key
          /\ IsFiniteSet(InRange(s[j], low, high))
    <2> TAKE j \in 1..n
    <2>1. InRange(s[j], low, high) \in SUBSET (DOMAIN pages[s[j]].cells)
      BY DEF InRange
    <2>2. IsFiniteSet(DOMAIN pages[s[j]].cells) /\ DOMAIN pages[s[j]].cells \subseteq Key
      BY DEF CellsSorted
    <2> QED
      BY <2>1, <2>2, FS_Subset
  <1>3. S \in SUBSET Int /\ IsFiniteSet(S) /\ T \in SUBSET Int
    BY <1>1, <1>2 DEF Ahead
  <1>4. IsFiniteSet(T)
    <2> DEFINE I == i + 1..n
               part == [j \in I |-> InRange(s[j], low, high)]
               parts == {part[j] : j \in I}
    <2>1. IsFiniteSet(I)
      BY <1>1, FS_Interval
    <2>2. (\A p \in parts : IsFiniteSet(p)) /\ T = UNION parts
      BY <1>1, <1>2 DEF Ahead
    <2>3. part \in Surjection(I, parts)
      BY DEF Surjection
    <2> HIDE DEF I, part, parts
    <2>4. IsFiniteSet(parts)
      BY <2>1, <2>3, FS_Surjection
    <2> QED
      BY <2>2, <2>4, FS_UNION
  <1>5. \A y \in T : \E j \in 1..n : i < j /\ y \in InRange(s[j], low, high)
    BY <1>1 DEF Ahead
  <1>6. ASSUME NEW x \in S, NEW y \in T PROVE x < y
    <2>1. PICK j \in 1..n : i < j /\ y \in InRange(s[j], low, high)
      BY <1>5
    <2>2. x \in DOMAIN pages[s[i]].cells /\ y \in DOMAIN pages[s[j]].cells
      BY <1>2, <2>1
    <2> QED
      BY <2>1, <2>2 DEF CellsSorted
  <1>7. Ahead(n, s, i, low, high) = S \union T
    <2>1. \A k : k \in Ahead(n, s, i, low, high) => k \in S \/ k \in T
      <3> SUFFICES ASSUME NEW k \in Key, NEW j \in i..n, k \in InRange(s[j], low, high)
                   PROVE  k \in S \/ k \in T
        BY DEF Ahead
      <3>1. j = i \/ j \in i + 1..n
        BY <1>1
      <3> QED
        BY <3>1 DEF Ahead
    <2>2. \A k \in S : k \in Ahead(n, s, i, low, high)
      BY <1>1, <1>2 DEF Ahead
    <2>3. \A k \in T : k \in Ahead(n, s, i, low, high)
      BY <1>1 DEF Ahead
    <2> QED
      BY <2>1, <2>2, <2>3
  <1>8. ASSUME Stops(s[i], high), NEW y \in T PROVE FALSE
    <2>1. PICK j \in 1..n : i < j /\ y \in InRange(s[j], low, high)
      BY <1>5
    <2>2. y \in DOMAIN pages[s[j]].cells /\ y <= high /\ y \in Int
      BY <1>1, <1>2, <2>1 DEF InRange
    <2>3. pages[s[i]].next # NoLeaf
      BY <1>1, <2>1 DEF CellsSorted
    <2>4. PICK x \in DOMAIN pages[s[i]].cells : x > high
      BY <1>8, <2>3 DEF Stops
    <2>5. x < y /\ x \in Int
      BY <1>1, <1>2, <2>1, <2>2 DEF CellsSorted
    <2> QED
      BY <1>1, <2>2, <2>4, <2>5
  <1>9. \A x \in S : [k \in Key |-> Search(k)][x] = pages[s[i]].cells[x]
    BY <1>2 DEF CellsSorted
  <1> QED
    BY <1>3, <1>4, <1>6, <1>7, <1>8, <1>9

\* What a scan returns from a leaf on: its part of the range, and what the next leaf
\* returns.
LEMMA AheadStep ==
  ASSUME NEW n, NEW s, CellsSorted(n, s), NEW low \in Key, NEW high \in Key, NEW i \in 1..n,
         NEW m, m = [k \in Key |-> Search(k)]
  PROVE  Pairs(Ahead(n, s, i, low, high), m) =
           IF Stops(s[i], high) THEN Pairs(InRange(s[i], low, high), pages[s[i]].cells)
           ELSE Pairs(InRange(s[i], low, high), pages[s[i]].cells)
                  \o Pairs(Ahead(n, s, i + 1, low, high), m)
  <1> DEFINE S == InRange(s[i], low, high)
             T == Ahead(n, s, i + 1, low, high)
             cells == pages[s[i]].cells
  <1>1. /\ S \in SUBSET Int /\ IsFiniteSet(S) /\ T \in SUBSET Int /\ IsFiniteSet(T)
        /\ \A x \in S, y \in T : x < y
        /\ Ahead(n, s, i, low, high) = S \union T
        /\ Stops(s[i], high) => T = {}
        /\ \A x \in S : m[x] = cells[x]
    BY AheadFacts
  <1> HIDE DEF S, T, cells
  <1>2. Pairs(S, m) = Pairs(S, cells)
    BY <1>1, PairsSame
  <1>3. Pairs(S \union T, m) = Pairs(S, m) \o Pairs(T, m)
    BY <1>1, PairsJoin
  <1>4. Stops(s[i], high) => S \union T = S
    BY <1>1
  <1> QED
    BY <1>1, <1>2, <1>3, <1>4 DEF S, T, cells

\* From any leaf on, a scan returns the keys of the range that are ahead.
LEMMA ScanFrom ==
  ASSUME NEW n, NEW s, CellsSorted(n, s), NEW low \in Key, NEW high \in Key,
         NEW m, m = [k \in Key |-> Search(k)],
         NEW f, \A p \in Leaves : f[p] = ScanStep(f, p, low, high)
  PROVE  \A i \in 1..n : f[s[i]] = Pairs(Ahead(n, s, i, low, high), m)
  <1> DEFINE Wrong == {d \in Nat : d < n /\ f[s[n - d]] # Pairs(Ahead(n, s, n - d, low, high), m)}
  <1>1. n \in Nat /\ \A i \in 1..n : s[i] \in Leaves /\ pages[s[i]].next = IF i < n THEN s[i + 1] ELSE NoLeaf
    BY DEF CellsSorted
  <1>2. Wrong = {}
    <2> SUFFICES ASSUME Wrong # {} PROVE FALSE
      OBVIOUS
    <2> DEFINE d == Min(Wrong)
    <2>1. Wrong \in SUBSET Nat
      OBVIOUS
    <2>2. d \in Wrong /\ \A e \in Wrong : d <= e
      <3> HIDE DEF Wrong
      <3> QED
        BY <2>1, MinFacts
    <2> DEFINE i == n - d
    <2> HIDE DEF d
    <2>3. d \in Nat /\ d < n /\ i \in 1..n /\ f[s[i]] # Pairs(Ahead(n, s, i, low, high), m)
      BY <1>1, <2>2
    <2>4. f[s[i]] = ScanStep(f, s[i], low, high)
      BY <1>1, <2>3
    <2>5. ~Stops(s[i], high)
      <3>1. Stops(s[i], high) =>
              Pairs(Ahead(n, s, i, low, high), m) = Pairs(InRange(s[i], low, high), pages[s[i]].cells)
        BY <2>3, AheadStep
      <3> QED
        BY <2>3, <2>4, <3>1 DEF ScanStep
    <2>6. n \in Nat /\ i < n
      BY <1>1, <2>3, <2>5 DEF Stops
    <2>7. /\ f[s[i]] = Pairs(InRange(s[i], low, high), pages[s[i]].cells) \o f[pages[s[i]].next]
          /\ pages[s[i]].next = s[i + 1]
      BY <1>1, <2>3, <2>4, <2>5, <2>6 DEF ScanStep
    <2>8. f[s[i + 1]] = Pairs(Ahead(n, s, i + 1, low, high), m)
      <3>1. n \in Nat /\ d \in Nat /\ d < n /\ n - d < n
        BY <2>3, <2>6
      <3>2. d - 1 \in Nat /\ d - 1 < n /\ n - (d - 1) = i + 1 /\ ~(d <= d - 1)
        BY ONLY <3>1
      <3>3. d - 1 \notin Wrong
        BY <2>2, <3>2
      <3> QED
        BY <3>2, <3>3
    <2>9. i \in 1..n /\ ~Stops(s[i], high)
      BY <2>3, <2>5
    <2>10. Pairs(Ahead(n, s, i, low, high), m) =
             Pairs(InRange(s[i], low, high), pages[s[i]].cells) \o Pairs(Ahead(n, s, i + 1, low, high), m)
      <3> HIDE DEF i, Wrong
      <3>1. Pairs(Ahead(n, s, i, low, high), m) =
              IF Stops(s[i], high) THEN Pairs(InRange(s[i], low, high), pages[s[i]].cells)
              ELSE Pairs(InRange(s[i], low, high), pages[s[i]].cells)
                     \o Pairs(Ahead(n, s, i + 1, low, high), m)
        BY <2>9, AheadStep
      <3> QED
        BY ONLY <2>9, <3>1
    <2> QED
      BY <2>3, <2>7, <2>8, <2>10
  <1>3. ASSUME NEW i \in 1..n PROVE n - i \in Nat /\ n - i < n /\ n - (n - i) = i
    BY <1>1
  <1> QED
    BY <1>2, <1>3

\* There is such a function.
LEMMA ScanExists ==
  ASSUME NEW n, NEW s, CellsSorted(n, s), NEW low \in Key, NEW high \in Key,
         \A i, j \in 1..n : s[i] = s[j] => i = j, \A p \in Leaves : \E i \in 1..n : s[i] = p
  PROVE  \E g : g = [p \in Leaves |-> ScanStep(g, p, low, high)]
  <1> DEFINE m == [k \in Key |-> Search(k)]
             place == [p \in Leaves |-> CHOOSE i \in 1..n : s[i] = p]
             g == [p \in Leaves |-> Pairs(Ahead(n, s, place[p], low, high), m)]
  <1>1. \A i \in 1..n : s[i] \in Leaves /\ pages[s[i]].next = IF i < n THEN s[i + 1] ELSE NoLeaf
    BY DEF CellsSorted
  <1>2. \A p \in Leaves : place[p] \in 1..n /\ s[place[p]] = p
    OBVIOUS
  <1>3. \A i \in 1..n : place[s[i]] = i
    BY <1>1, <1>2
  <1> HIDE DEF m, place
  <1>4. g = [p \in Leaves |-> g[p]] /\ \A i \in 1..n : g[s[i]] = Pairs(Ahead(n, s, i, low, high), m)
    BY <1>1, <1>3
  <1> HIDE DEF g
  <1>5. ASSUME NEW i \in 1..n PROVE g[s[i]] = ScanStep(g, s[i], low, high)
    <2>1. n \in Nat
      BY DEF CellsSorted
    <2>2. CASE Stops(s[i], high)
      <3>1. Pairs(Ahead(n, s, i, low, high), m) = Pairs(InRange(s[i], low, high), pages[s[i]].cells)
        BY <2>2, AheadStep DEF m
      <3> QED
        BY <1>4, <2>2, <3>1 DEF ScanStep
    <2>3. CASE ~Stops(s[i], high)
      <3>1. i < n /\ pages[s[i]].next = s[i + 1] /\ i + 1 \in 1..n
        BY <1>1, <2>1, <2>3 DEF Stops
      <3>2. Pairs(Ahead(n, s, i, low, high), m) =
              Pairs(InRange(s[i], low, high), pages[s[i]].cells) \o Pairs(Ahead(n, s, i + 1, low, high), m)
        BY <2>3, AheadStep DEF m
      <3> QED
        BY <1>4, <2>3, <3>1, <3>2 DEF ScanStep
    <2> QED
      BY <2>2, <2>3
  <1>6. \A p \in Leaves : g[p] = ScanStep(g, p, low, high)
    BY <1>2, <1>5
  <1>7. g = [p \in Leaves |-> ScanStep(g, p, low, high)]
    BY <1>4, <1>6
  <1> QED
    BY <1>7

\* So a scan returns what a search for each key of the range finds.
LEMMA ScanFacts ==
  ASSUME Shape(pages, pageCount), Sorted(pages), NEW low \in Key, NEW high \in Key
  PROVE  LET hits == {k \in Key : low <= k /\ k <= high /\ Search(k) # Absent}
         IN  /\ hits \in SUBSET Int /\ IsFiniteSet(hits)
             /\ RangeScan(low, high) = Pairs(hits, [k \in Key |-> Search(k)])
  <1> DEFINE m == [k \in Key |-> Search(k)]
             hits == {k \in Key : low <= k /\ k <= high /\ Search(k) # Absent}
  <1>1. PICK n, s : Whole(pages, n, s) /\ InOrder(pages, n, s)
    BY DEF Sorted
  <1>2. CellsSorted(n, s)
    BY <1>1, SortedCells DEF Sorted
  <1>3. /\ n \in Nat /\ \A i, j \in 1..n : s[i] = s[j] => i = j
        /\ \A p \in Leaves : \E i \in 1..n : s[i] = p
    BY <1>1 DEF Whole, Line, Leaves, LeafAt
  <1>4. PICK g : g = [p \in Leaves |-> ScanStep(g, p, low, high)]
    BY <1>2, <1>3, ScanExists
  <1>5. PICK f : (\A p \in Leaves : f[p] = ScanStep(f, p, low, high)) /\ RangeScan(low, high) = f[LeafOf(low)]
    BY <1>4, ScanRecursion
  <1> HIDE DEF m
  <1>6. \A i \in 1..n : f[s[i]] = Pairs(Ahead(n, s, i, low, high), m)
    BY <1>2, <1>5, ScanFrom DEF m
  <1>7. PICK a \in 1..n :
          /\ LeafOf(low) = s[a]
          /\ \A j \in 1..n : j < a => \A y \in DOMAIN pages[s[j]].cells : y < low
    BY <1>2 DEF CellsSorted
  <1>8. Ahead(n, s, a, low, high) = hits
    <2>1. ASSUME NEW k \in Ahead(n, s, a, low, high) PROVE k \in hits
      <3>1. PICK j \in a..n : k \in Key /\ k \in InRange(s[j], low, high)
        BY DEF Ahead
      <3>2. j \in 1..n
        BY <1>3
      <3> QED
        BY <1>2, <3>1, <3>2 DEF InRange, CellsSorted
    <2>2. ASSUME NEW k \in hits PROVE k \in Ahead(n, s, a, low, high)
      <3>1. PICK j \in 1..n : k \in DOMAIN pages[s[j]].cells
        BY <1>2 DEF CellsSorted
      <3>2. k \in Int /\ low \in Int /\ low <= k
        BY TreeFacts
      <3>3. ~(j < a)
        BY <1>7, <3>1, <3>2
      <3>4. j \in a..n
        BY <1>3, <3>3
      <3> QED
        BY <3>1, <3>4 DEF Ahead, InRange
    <2> QED
      BY <2>1, <2>2
  <1>9. Ahead(n, s, a, low, high) \in SUBSET Int /\ IsFiniteSet(Ahead(n, s, a, low, high))
    <2> DEFINE S == InRange(s[a], low, high)
               T == Ahead(n, s, a + 1, low, high)
    <2>1. /\ S \in SUBSET Int /\ IsFiniteSet(S) /\ T \in SUBSET Int /\ IsFiniteSet(T)
          /\ \A x \in S, y \in T : x < y
          /\ Ahead(n, s, a, low, high) = S \union T
      BY <1>2, AheadFacts
    <2> HIDE DEF S, T
    <2>2. \A x \in S : x \notin T
      BY <2>1
    <2> QED
      BY <2>1, <2>2, DisjointUnion
  <1> HIDE DEF hits
  <1> QED
    BY <1>5, <1>6, <1>7, <1>8, <1>9 DEF hits, m

-----------------------------------------------------------------------------
\* What an insert does to the order.

LEMMA SortedSame ==
  ASSUME NEW pg, NEW pq, Sorted(pg),
         \A p \in PageId : LeafAt(pq, p) <=> LeafAt(pg, p),
         \A p \in PageId : LeafAt(pg, p) => pq[p].next = pg[p].next,
         \A x \in Key : Route(pq, x) = Route(pg, x),
         \A p \in PageId, y \in Key :
           LeafAt(pg, p) /\ y \in DOMAIN pq[p].cells => y \in DOMAIN pg[p].cells \/ Route(pg, y) = p
  PROVE  Sorted(pq)
  <1>1. PICK n, s : Whole(pg, n, s) /\ InOrder(pg, n, s)
    BY DEF Sorted
  <1>2. Whole(pq, n, s)
    BY <1>1, LineSame, LeastKeyFacts
  <1>3. InOrder(pq, n, s)
    BY <1>1 DEF InOrder
  <1>4. Owned(pq)
    BY DEF Sorted, Owned
  <1> QED
    BY <1>2, <1>3, <1>4 DEF Sorted

\* The upper half of a leaf takes the keys above the separator with it.
Moves(pg, pq, sep, id, new) ==
  \A x \in Key : Route(pq, x) = IF sep < x /\ Route(pg, x) = id THEN new ELSE Route(pg, x)

NoRouteTo(pg, p) == \A x \in Key : Route(pg, x) # p

LEMMA OrderGrows ==
  ASSUME NEW pg, NEW pq, NEW n \in Nat, NEW s, InOrder(pg, n, s), NEW j \in 1..n,
         NEW id, s[j] = id, NEW new, id # new, \A i \in 1..n : s[i] # new, NoRouteTo(pg, new),
         NEW sep \in Key, Moves(pg, pq, sep, id, new)
  PROVE  InOrder(pq, n + 1, Behind(n, s, j, new))
  <1> DEFINE t == Behind(n, s, j, new)
             old(i) == IF i <= j THEN i ELSE i - 1
  <1>0. /\ \A x \in Key : Route(pg, x) # new
        /\ \A x \in Key : Route(pq, x) = IF sep < x /\ Route(pg, x) = s[j] THEN new ELSE Route(pg, x)
    BY DEF Moves, NoRouteTo
  <1>1. ASSUME NEW x \in Key, NEW i \in 1..n + 1, Route(pq, x) = t[i]
        PROVE  old(i) \in 1..n /\ Route(pg, x) = s[old(i)]
    <2>1. i \in Int /\ j \in Int /\ 1 <= j /\ j <= n /\ 1 <= i /\ i <= n + 1
      OBVIOUS
    <2>2. t[i] = IF i <= j THEN s[i] ELSE IF i = j + 1 THEN new ELSE s[i - 1]
      BY DEF Behind
    <2> HIDE DEF t
    <2>3. CASE i <= j
      <3>1. old(i) = i /\ i \in 1..n /\ t[i] = s[i]
        BY <2>1, <2>2, <2>3
      <3>2. Route(pq, x) # new
        BY <1>0, <1>1, <3>1
      <3> HIDE DEF old
      <3> QED
        BY <1>0, <1>1, <3>1, <3>2
    <2>4. CASE i = j + 1
      <3>1. old(i) = j /\ t[i] = new
        BY <2>1, <2>2, <2>4
      <3> HIDE DEF old
      <3> QED
        BY <1>0, <1>1, <3>1
    <2>5. CASE i > j + 1
      <3>1. old(i) = i - 1 /\ i - 1 \in 1..n /\ t[i] = s[i - 1]
        BY <2>1, <2>2, <2>5
      <3>2. Route(pq, x) # new
        BY <1>0, <1>1, <3>1
      <3> HIDE DEF old
      <3> QED
        BY <1>0, <1>1, <3>1, <3>2
    <2> QED
      BY <2>1, <2>3, <2>4, <2>5
  <1> SUFFICES ASSUME NEW x \in Key, NEW y \in Key, NEW a \in 1..n + 1, NEW b \in 1..n + 1,
                      x < y, Route(pq, x) = t[a], Route(pq, y) = t[b], ~(a <= b)
               PROVE  FALSE
    BY DEF InOrder
  <1>2. old(a) \in 1..n /\ old(b) \in 1..n /\ Route(pg, x) = s[old(a)] /\ Route(pg, y) = s[old(b)]
    BY <1>1
  <1>3. old(a) <= old(b)
    <2> HIDE DEF old
    <2> QED
      BY <1>2 DEF InOrder
  <1>4. a = j + 1 /\ b = j
    BY <1>3
  <1>5. t[a] = new /\ t[b] = s[j]
    BY <1>4 DEF Behind
  <1>6. sep < x /\ Route(pg, y) = s[j]
    BY <1>0, <1>2, <1>4, <1>5
  <1>7. ~(sep < y)
    BY <1>0, <1>4, <1>5, <1>6
  <1> QED
    BY <1>6, <1>7, TreeFacts

LEMMA SortedByStore ==
  ASSUME ChainInv, Sorted(pages), NEW k \in Key, NEW v \in Payload, NEW pq, pq = After(StoreWrites(k, v))
  PROVE  Sorted(pq)
  <1> DEFINE id == LeafOf(k)
             all == AllCells(k, v)
             new == Leaf(all, pages[id].next, pages[id].prev)
  <1>1. TreeInv
    BY DEF ChainInv
  <1>2. /\ id \in PageId /\ pages[id].type = "leaf" /\ id = Route(pages, k)
        /\ DOMAIN all = DOMAIN pages[id].cells \union {k}
    BY <1>1, CallFacts
  <1>3. pq[id] = new /\ \A p \in PageId : p # id => pq[p] = pages[p]
    BY <1>1, StorePages
  <1>4. new.type = "leaf" /\ new.next = pages[id].next /\ new.cells = all
    BY LeafFacts, TreeFacts
  <1>5. \A x \in Key : Route(pq, x) = Route(pages, x)
    BY <1>1, StoreKeeps
  <1> HIDE DEF id, all, new
  <1>6. /\ \A p \in PageId : LeafAt(pq, p) <=> LeafAt(pages, p)
        /\ \A p \in PageId : LeafAt(pages, p) => pq[p].next = pages[p].next
    BY <1>2, <1>3, <1>4 DEF LeafAt
  <1>7. \A p \in PageId, y \in Key :
          LeafAt(pages, p) /\ y \in DOMAIN pq[p].cells
            => y \in DOMAIN pages[p].cells \/ Route(pages, y) = p
    BY <1>2, <1>3, <1>4
  <1> QED
    BY <1>5, <1>6, <1>7, SortedSame

LEMMA SortedByRootSplit ==
  ASSUME ChainInv, NEW k \in Key, NEW v \in Payload, RootIsFull(k, v), LeftHasKey(AllCells(k, v)),
         NEW pq, pq = After(RootWrites(AllCells(k, v), pageCount, pageCount + 1))
  PROVE  Sorted(pq)
  <1> DEFINE all == AllCells(k, v)
             left == pageCount
             right == pageCount + 1
             sep == Separator(all)
             low == Leaf(Low(all), right, NoLeaf)
             high == Leaf(High(all), NoLeaf, left)
             root == Interior(<<[child |-> left, key |-> sep]>>, right)
             line == [i \in 1..2 |-> IF i = 1 THEN left ELSE right]
  <1>1. TreeInv /\ Lone(pages)
    BY DEF ChainInv
  <1>2. pages[Root].type = "leaf" /\ Records(all)
    <2>1. LeafOf(k) = Root
      BY DEF RootIsFull
    <2> HIDE DEF all
    <2>2. pages[LeafOf(k)].type = "leaf" /\ Records(all)
      BY <1>1, CallFacts DEF all
    <2> QED
      BY <2>1, <2>2
  <1>3. /\ left \in PageId \ {Root} /\ right \in PageId \ {Root, left}
        /\ pq[left] = low /\ pq[right] = high /\ pq[Root] = root
        /\ \A p \in PageId \ {left, right, Root} : pq[p] = pages[p]
    BY <1>1, RootPages
  <1>4. /\ low.cells = Low(all) /\ low.next = right /\ low.type = "leaf"
        /\ high.cells = High(all) /\ high.next = NoLeaf /\ high.type = "leaf"
        /\ root.type = "interior"
    BY LeafFacts, TreeFacts
  <1>5. \A x \in Key : Route(pq, x) = IF sep < x THEN right ELSE left
    BY <1>1, RootSplitKeeps
  <1>6. /\ sep \in Key /\ DOMAIN Low(all) = {x \in DOMAIN all : x <= sep}
        /\ DOMAIN High(all) = {x \in DOMAIN all : sep < x}
    <2> HIDE DEF all
    <2> QED
      BY <1>2, SplitFacts DEF all
  <1> HIDE DEF all, low, high, root, left, right, sep
  <1>7. \A p \in PageId : LeafAt(pq, p) <=> p \in {left, right}
    <2>1. \A p \in PageId : pages[p].type = "leaf" <=> p = Root
      BY <1>1, <1>2, TreeFacts DEF Lone, LeafAt
    <2> QED
      BY <1>3, <1>4, <2>1 DEF LeafAt
  <1>8. Owned(pq)
    <2> SUFFICES ASSUME NEW p \in PageId, NEW y \in Key, LeafAt(pq, p), y \in DOMAIN pq[p].cells
                 PROVE  Route(pq, y) = p
      BY DEF Owned
    <2>1. y \in Int /\ sep \in Int
      BY <1>6, TreeFacts
    <2>2. CASE p = left
      <3>1. ~(sep < y)
        BY <1>3, <1>4, <1>6, <2>1, <2>2
      <3> QED
        BY <1>5, <2>2, <3>1
    <2>3. CASE p = right
      <3>1. sep < y
        BY <1>3, <1>4, <1>6, <2>1, <2>3
      <3> QED
        BY <1>5, <2>3, <3>1
    <2> QED
      BY <1>7, <2>2, <2>3
  <1>9. Whole(pq, 2, line)
    <2>1. pq[left].next = right /\ pq[right].next = NoLeaf /\ left # right
      BY <1>3, <1>4
    <2>2. Route(pq, LeastKey) = left
      <3>1. LeastKey <= sep /\ LeastKey \in Int /\ sep \in Int
        BY <1>6, LeastKeyFacts, TreeFacts
      <3> QED
        BY <1>5, <3>1, LeastKeyFacts
    <2> QED
      BY <1>3, <1>7, <2>1, <2>2, LineOfTwo
  <1>10. InOrder(pq, 2, line)
    <2>1. line[1] = left /\ line[2] = right /\ left # right /\ \A i \in 1..2 : i = 1 \/ i = 2
      BY <1>3
    <2> HIDE DEF line
    <2>2. \A x, y \in Key : x < y /\ sep < x => sep < y
      BY <1>6, TreeFacts
    <2> QED
      BY <1>5, <2>1, <2>2 DEF InOrder
  <1> QED
    BY <1>8, <1>9, <1>10 DEF Sorted

\* What the split of a full leaf does to an ordered tree, once its upper half has a route.
SplitsAt(all, sep) ==
  /\ sep \in Key
  /\ DOMAIN Low(all) = {x \in DOMAIN all : x <= sep}
  /\ DOMAIN High(all) = {x \in DOMAIN all : sep < x}

LEMMA SplitKeepsOwners ==
  ASSUME Sorted(pages), NEW pq, NEW id, NEW new, NEW all, LeafSplits(pq, id, new, all),
         NEW sep, SplitsAt(all, sep), Moves(pages, pq, sep, id, new),
         NEW k \in Key, Route(pages, k) = id, DOMAIN all = DOMAIN pages[id].cells \union {k}
  PROVE  Owned(pq)
  <1> SUFFICES ASSUME NEW p \in PageId, NEW y \in Key, LeafAt(pq, p), y \in DOMAIN pq[p].cells
               PROVE  Route(pq, y) = p
    BY DEF Owned
  <1>1. y \in Int /\ sep \in Int
    BY TreeFacts DEF SplitsAt
  <1>2. y \in DOMAIN all => Route(pages, y) = id
    <2>1. LeafAt(pages, id) /\ id \in PageId
      BY DEF LeafSplits
    <2> QED
      BY <2>1 DEF Sorted, Owned
  <1>3. CASE p = id
    <2>1. y \in DOMAIN Low(all)
      BY <1>3 DEF LeafSplits
    <2>2. y \in DOMAIN all /\ y <= sep
      BY <2>1 DEF SplitsAt
    <2> QED
      BY <1>1, <1>2, <1>3, <2>2 DEF Moves
  <1>4. CASE p = new
    <2>1. y \in DOMAIN High(all)
      BY <1>4 DEF LeafSplits
    <2>2. y \in DOMAIN all /\ sep < y
      BY <2>1 DEF SplitsAt
    <2> QED
      BY <1>2, <1>4, <2>2 DEF Moves
  <1>5. CASE p # id /\ p # new
    <2>1. LeafAt(pages, p) /\ y \in DOMAIN pages[p].cells
      BY <1>5 DEF LeafSplits
    <2>2. Route(pages, y) = p
      BY <2>1 DEF Sorted, Owned
    <2> QED
      BY <1>5, <2>2 DEF Moves
  <1> QED
    BY <1>3, <1>4, <1>5

LEMMA SplitKeepsOrder ==
  ASSUME Sorted(pages), NEW pq, NEW id, NEW new, NEW all, LeafSplits(pq, id, new, all),
         NEW sep, SplitsAt(all, sep), Moves(pages, pq, sep, id, new), NoRouteTo(pages, new),
         NEW k \in Key, Route(pages, k) = id, DOMAIN all = DOMAIN pages[id].cells \union {k}
  PROVE  Sorted(pq)
  <1>1. PICK n, s : Whole(pages, n, s) /\ InOrder(pages, n, s)
    BY DEF Sorted
  <1>2. PICK j \in 1..n : s[j] = id
    BY <1>1 DEF LeafSplits, Whole
  <1>3. Route(pq, LeastKey) = Route(pages, LeastKey)
    <2>1. LeastKey \in Key /\ ~(sep < LeastKey)
      BY LeastKeyFacts, TreeFacts DEF SplitsAt
    <2> QED
      BY <2>1 DEF Moves
  <1>4. Whole(pq, n + 1, Behind(n, s, j, new))
    BY <1>1, <1>2, <1>3, LineGrows DEF LeafSplits
  <1>5. n \in Nat /\ id # new /\ sep \in Key
    BY <1>1 DEF Whole, Line, LeafSplits, SplitsAt
  <1>6. InOrder(pq, n + 1, Behind(n, s, j, new))
    <2>1. \A i \in 1..n : s[i] # new
      BY <1>1 DEF LeafSplits, Whole, Line
    <2> QED
      BY <1>1, <1>2, <1>5, <2>1, OrderGrows
  <1>7. Owned(pq)
    BY SplitKeepsOwners
  <1> QED
    BY <1>4, <1>6, <1>7 DEF Sorted

\* The split of the rightmost leaf; any other leaves a leaf without a route.
LEMMA SplitMoves ==
  ASSUME TreeInv, NEW k \in Key, NEW v \in Payload, LeafIsFull(k, v), LeftHasKey(AllCells(k, v)),
         NEW parent \in BOOLEAN, NEW pq, pq = After(SplitWrites(k, v, parent))
  PROVE  parent /\ pages[Root].right = LeafOf(k)
           => Moves(pages, pq, Separator(AllCells(k, v)), LeafOf(k), pageCount)
  <1> DEFINE id == LeafOf(k)
             all == AllCells(k, v)
             new == pageCount
             moved == parent /\ pages[Root].right = id
  <1>1. \A x \in Key :
          Route(pq, x) = IF moved /\ Separator(all) < x /\ Route(pages, x) = id THEN new
                         ELSE Route(pages, x)
    BY SplitRoutes
  <1> HIDE DEF id, all, new
  <1>2. moved => Moves(pages, pq, Separator(all), id, new)
    BY <1>1 DEF Moves
  <1> QED
    BY <1>2 DEF id, all, new

LEMMA SortedByLeafSplit ==
  ASSUME ChainInv, Sorted(pages), NEW k \in Key, NEW v \in Payload, LeafIsFull(k, v),
         LeftHasKey(AllCells(k, v)), pages[Root].right = LeafOf(k),
         NEW pq, pq = After(SplitWrites(k, v, TRUE))
  PROVE  Sorted(pq)
  <1> DEFINE id == LeafOf(k)
             all == AllCells(k, v)
             new == pageCount
             sep == Separator(all)
  <1>1. TreeInv /\ Shape(pages, pageCount)
    BY TreeShape DEF ChainInv, TreeInv
  <1>2. LeafSplits(pq, id, new, all)
    <2>1. PICK parent \in BOOLEAN : pq = After(SplitWrites(k, v, parent))
      BY Zenon
    <2> QED
      BY <1>1, <2>1, SplitLeaves
  <1>3. Moves(pages, pq, sep, id, new)
    <2>1. PICK parent \in BOOLEAN : parent /\ pq = After(SplitWrites(k, v, parent))
      BY Zenon
    <2> QED
      BY <1>1, <2>1, SplitMoves
  <1>4. /\ Records(all) /\ DOMAIN all = DOMAIN pages[id].cells \union {k} /\ Route(pages, k) = id
    BY <1>1, CallFacts
  <1>5. SplitsAt(all, sep)
    <2> HIDE DEF all
    <2> QED
      BY <1>4, SplitFacts DEF all, SplitsAt
  <1>6. \A x \in Key : LeafAt(pages, Route(pages, x)) /\ Route(pages, x) \in PageId
    BY <1>1, RouteFacts DEF LeafAt
  <1> HIDE DEF id, all, new, sep
  <1>7. NoRouteTo(pages, new)
    BY <1>2, <1>6 DEF LeafSplits, NoRouteTo
  <1> QED
    BY <1>2, <1>3, <1>4, <1>5, <1>7, SplitKeepsOrder

LEMMA SortedByPanic ==
  ASSUME ChainInv, Sorted(pages), NEW k \in Key, NEW v \in Payload, LeafIsFull(k, v),
         NEW pq, pq = After(WritesBeforePanic(k, v))
  PROVE  Sorted(pq)
  <1>1. TreeInv
    BY DEF ChainInv
  <1>2. \A p \in PageId :
          /\ LeafAt(pq, p) <=> LeafAt(pages, p)
          /\ pq[p].cells = pages[p].cells /\ pq[p].next = pages[p].next
    BY <1>1, PanicPages DEF LeafAt
  <1>3. \A x \in Key : Route(pq, x) = Route(pages, x)
    BY <1>1, PanicKeeps
  <1> QED
    BY <1>2, <1>3, SortedSame

\* The invariant: as long as every leaf has a route, the tree is in order.
ScanInv == ChainInv /\ (~orphaned => Sorted(pages))

LEMMA InsertKeepsOrder ==
  ASSUME ChainInv, Sorted(pages), NEW k \in Key, NEW v \in Payload, Insert(k, v), ~orphaned'
  PROVE  Sorted(pages')
  <1>1. CASE StoreInLeaf(k, v)
    <2>1. pages' = After(StoreWrites(k, v))
      BY <1>1 DEF StoreInLeaf, Perform
    <2> QED
      BY <2>1, SortedByStore
  <1>2. CASE SplitRoot(k, v)
    <2>1. /\ pages' = After(RootWrites(AllCells(k, v), pageCount, pageCount + 1))
          /\ RootIsFull(k, v) /\ LeftHasKey(AllCells(k, v))
      BY <1>2 DEF SplitRoot, Perform, CanSplit
    <2> QED
      BY <2>1, SortedByRootSplit
  <1>3. CASE SplitRootPanics(k, v)
    <2>1. pages' = After(<<>>)
      BY <1>3 DEF SplitRootPanics, Perform
    <2>2. pageCount \in Int /\ pageCount <= pageCount
      BY DEF ChainInv, TreeInv
    <2>3. pages' = pages
      BY <2>1, <2>2, NothingWritten DEF ChainInv
    <2> QED
      BY <2>3
  <1>4. CASE SplitLeaf(k, v)
    <2>1. /\ pages' = After(SplitWrites(k, v, TRUE))
          /\ LeafIsFull(k, v) /\ LeftHasKey(AllCells(k, v)) /\ pages[ParentOf(k)].right = LeafOf(k)
      BY <1>4 DEF SplitLeaf, Perform, CanSplit, SplitWrites
    <2>2. ParentOf(k) = Root
      <3>1. TreeInv /\ Shape(pages, pageCount)
        BY TreeShape DEF ChainInv, TreeInv
      <3>2. pages[Root].type = "interior"
        BY <2>1, <3>1, SiblingFacts
      <3> QED
        BY <3>1, <3>2, DescentFacts
    <2>3. pages[Root].right = LeafOf(k)
      BY <2>1, <2>2
    <2> QED
      BY <2>1, <2>3, SortedByLeafSplit
  <1>5. CASE ParentIsFull(k, v)
    BY <1>5 DEF ParentIsFull
  <1>6. CASE SplitLeafPanics(k, v)
    <2>1. pages' = After(WritesBeforePanic(k, v)) /\ LeafIsFull(k, v)
      BY <1>6 DEF SplitLeafPanics, Perform
    <2> QED
      BY <2>1, SortedByPanic
  <1> QED
    BY <1>1, <1>2, <1>3, <1>4, <1>5, <1>6 DEF Insert

LEMMA InsertKeepsOrphaned ==
  ASSUME NEW k \in Key, NEW v \in Payload, Insert(k, v), ~orphaned'
  PROVE  ~orphaned
  BY DEF Insert, StoreInLeaf, SplitRoot, SplitRootPanics, SplitLeaf, ParentIsFull, SplitLeafPanics

LEMMA SortedPrimed == Sorted(pages)' <=> Sorted(pages')
  BY DEF Sorted, Owned, InOrder, Whole, Line, Route, LeafAt

LEMMA ScanInvNext == ScanInv /\ [Next]_vars => ScanInv'
  <1> SUFFICES ASSUME ScanInv, [Next]_vars PROVE ScanInv'
    OBVIOUS
  <1>1. ChainInv /\ ChainInv'
    BY ChainInvNext DEF ScanInv
  <1>2. (~orphaned' => Sorted(pages')) => ScanInv'
    BY <1>1, SortedPrimed DEF ScanInv
  <1>3. CASE UNCHANGED vars
    <2>1. pages' = pages /\ orphaned' = orphaned
      BY <1>3 DEF vars
    <2> QED
      BY <1>2, <2>1 DEF ScanInv
  <1>4. ASSUME NEW k \in Key, NEW v \in Payload, Insert(k, v), ~orphaned' PROVE Sorted(pages')
    BY <1>1, <1>4, InsertKeepsOrphaned, InsertKeepsOrder DEF ScanInv
  <1> QED
    BY <1>2, <1>3, <1>4 DEF Next

LEMMA ScanInvInit == Init => ScanInv
  <1> SUFFICES ASSUME Init PROVE ScanInv
    OBVIOUS
  <1>1. ChainInv
    BY ChainInvInit
  <1>2. /\ pages[Root] = Leaf(<<>>, NoLeaf, NoLeaf)
        /\ \A p \in PageId \ {Root} : pages[p] = Unwritten
    BY TreeFacts DEF Init
  <1>3. LeafAt(pages, Root) /\ pages[Root].next = NoLeaf /\ Lone(pages) /\ \A x \in Key : Route(pages, x) = Root
    BY <1>2, TreeFacts, LeafFacts DEF LeafAt, Lone, Route
  <1>4. Owned(pages)
    BY <1>3 DEF Owned, Lone
  <1> DEFINE line == [i \in 1..1 |-> Root]
  <1>5. Whole(pages, 1, line)
    BY <1>3, LeastKeyFacts, LineOfOne
  <1>6. InOrder(pages, 1, line)
    <2>1. \A i, j \in 1..1 : i <= j
      OBVIOUS
    <2> QED
      BY <2>1 DEF InOrder
  <1> HIDE DEF line
  <1> QED
    BY <1>1, <1>4, <1>5, <1>6 DEF ScanInv, Sorted

LEMMA ScanInvAlways == Spec => []ScanInv
  BY ScanInvInit, ScanInvNext, PTL DEF Spec

LEMMA ScanReads == ScanInv => ScanAgreesWithSearch
  <1> SUFFICES ASSUME ScanInv, ~orphaned, NEW low \in Key, NEW high \in Key
               PROVE  LET found == {k \in Key : low <= k /\ k <= high /\ Search(k) # Absent}
                          keys == Ascending(found)
                      IN  RangeScan(low, high) = [i \in DOMAIN keys |-> <<keys[i], Search(keys[i])>>]
    BY DEF ScanAgreesWithSearch
  <1> DEFINE found == {k \in Key : low <= k /\ k <= high /\ Search(k) # Absent}
             keys == Ascending(found)
             m == [k \in Key |-> Search(k)]
  <1>1. RangeScan(low, high) = Pairs(found, m) /\ found \in SUBSET Int /\ IsFiniteSet(found)
    <2>1. Shape(pages, pageCount) /\ Sorted(pages)
      BY TreeShape DEF ScanInv, ChainInv, TreeInv
    <2> QED
      BY <2>1, ScanFacts
  <1>2. found \subseteq Key
    OBVIOUS
  <1>3. RangeScan(low, high) = [i \in DOMAIN keys |-> <<keys[i], m[keys[i]]>>]
    BY <1>1 DEF Pairs
  <1> HIDE DEF found
  <1>4. Ranked(found)
    BY <1>1, AscendingFacts
  <1>5. \A i \in DOMAIN keys : keys[i] \in Key
    BY <1>2, <1>4 DEF Ranked
  <1> HIDE DEF keys
  <1>6. \A i \in DOMAIN keys : m[keys[i]] = Search(keys[i])
    BY <1>5
  <1> HIDE DEF m
  <1>7. RangeScan(low, high) = [i \in DOMAIN keys |-> <<keys[i], Search(keys[i])>>]
    BY <1>3, <1>6
  <1> QED
    BY <1>7 DEF found, keys

LEMMA OrderedFinds == ScanInv /\ ~orphaned => SearchFinds
  <1> SUFFICES ASSUME ScanInv, ~orphaned, NEW k \in Key, Absent \notin expected[k]
               PROVE  Search(k) # Absent
    BY DEF SearchFinds
  <1>1. /\ Shape(pages, pageCount) /\ Owned(pages) /\ Kept(pages, expected)
    BY TreeShape DEF ScanInv, ChainInv, TreeInv, Sorted
  <1>2. PICK p \in PageId : LeafAt(pages, p) /\ k \in DOMAIN pages[p].cells
    BY <1>1 DEF Kept, Holds
  <1>3. Route(pages, k) = p
    BY <1>1, <1>2 DEF Owned
  <1>4. Search(k) = pages[p].cells[k]
    BY <1>1, <1>2, <1>3, SearchFacts DEF Found
  <1>5. pages[p].cells[k] \in Payload
    BY <1>1, <1>2, <1>3, RouteFacts DEF LeafPage
  <1> QED
    BY <1>4, <1>5, AbsentAssumption

\* Until an insert leaves a leaf without a route, what range_scan returns (tree.rs
\* lines 232-274: the leaf of the first key, then leaf after leaf up to a key beyond
\* the last one) is what search finds for each key of the range, in key order.
THEOREM ScanAlwaysAgrees == Spec => []ScanAgreesWithSearch
  BY ScanReads, ScanInvAlways, PTL

\* The missing route is all that ever hides a record: until an insert leaves a leaf
\* without one (insert_into_parent, tree.rs lines 199-228, or the error of a full
\* parent), search finds every key an insert acknowledged.
THEOREM FindsUntilOrphaned == Spec => [](~orphaned => SearchFinds)
  BY OrderedFinds, ScanInvAlways, PTL
=============================================================================
