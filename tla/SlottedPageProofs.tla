--------------------------- MODULE SlottedPageProofs ---------------------------
(***************************************************************************)
(* What SlottedPage reads and writes a page with, for every page size and  *)
(* every set of keys and payloads: the bytes the cells take, the binary    *)
(* search, and how each kind of write leaves the cells and the pointers.   *)
(* Its calls keep a page sound, and the page is the leaf its callers take  *)
(* it for.                                                                 *)
(***************************************************************************)
EXTENDS SlottedPage, LeafCellsProofs, SequenceTheorems, TLAPS

\* A page the functions below can be read of: its pointers lead to cells.
Placed(p) ==
  /\ p = [slots |-> p.slots, content |-> p.content, cells |-> p.cells]
  /\ p.slots \in Seq(Address)
  /\ p.content \in HeaderSize..PageSize
  /\ DOMAIN p.cells \subseteq Address
  /\ \A o \in DOMAIN p.cells : p.cells[o] \in Cell
  /\ \A i \in Slots(p) : p.slots[i] \in DOMAIN p.cells

-----------------------------------------------------------------------------
\* Numbers, keys and cells.
LEMMA PageFacts ==
  /\ PageSpace \in Nat /\ HeaderSize = 20 /\ PageSize \in Nat
  /\ Address \subseteq Nat /\ Key \subseteq Int
  /\ \A v \in Payload : CellSize(v) \in Nat /\ CellSize(v) >= 12
  BY SpaceAssumption, KeyAssumption, LengthAssumption
  DEF HeaderSize, PageSize, Address, CellSize, LeafCellBytes

LEMMA SlotFacts ==
  ASSUME NEW p, Placed(p)
  PROVE  /\ Len(p.slots) \in Nat /\ Slots(p) = 1..Len(p.slots)
         /\ \A i \in Slots(p) :
              /\ p.slots[i] \in Address /\ KeyAt(p, i) \in Key /\ PayloadAt(p, i) \in Payload
              /\ SizeAt(p, i) \in Nat /\ SizeAt(p, i) >= 12
              /\ EndAt(p, i) = p.slots[i] + SizeAt(p, i)
  BY PageFacts DEF Placed, Slots, KeyAt, PayloadAt, SizeAt, EndAt, Cell

-----------------------------------------------------------------------------
\* The bytes of the cells.

LEMMA UsedFacts ==
  ASSUME NEW p, Placed(p)
  PROVE  /\ Used(p) \in [0..Len(p.slots) -> Nat]
         /\ Used(p)[0] = 0
         /\ \A i \in Slots(p) : Used(p)[i] = Used(p)[i - 1] + SizeAt(p, i)
  <1> DEFINE n == Len(p.slots)
             Step(g, i) == IF i = 0 THEN 0 ELSE g[i - 1] + SizeAt(p, i)
             S == {m \in Nat : \E g \in [0..n -> Nat] :
                                 \A i \in 0..n : i <= m => g[i] = Step(g, i)}
  <1>1. n \in Nat /\ \A i \in 1..n : SizeAt(p, i) \in Nat
    BY SlotFacts
  <1>2. 0 \in S
    <2> DEFINE g == [i \in 0..n |-> 0]
    <2>1. g \in [0..n -> Nat] /\ \A i \in 0..n : i <= 0 => g[i] = Step(g, i)
      BY <1>1
    <2> QED
      BY <2>1
  <1>3. ASSUME NEW m \in Nat, m \in S PROVE m + 1 \in S
    <2>1. PICK g \in [0..n -> Nat] : \A i \in 0..n : i <= m => g[i] = Step(g, i)
      BY <1>3
    <2> DEFINE h == [i \in 0..n |-> Step(g, i)]
    <2>2. h \in [0..n -> Nat]
      <3>1. \A i \in 0..n : Step(g, i) \in Nat
        BY <1>1
      <3> QED
        BY <3>1
    <2>3. ASSUME NEW i \in 0..n, i <= m + 1 PROVE h[i] = Step(h, i)
      <3>1. CASE i = 0
        BY <3>1, <1>1
      <3>2. CASE i # 0
        <4>1. i - 1 \in 0..n /\ i - 1 <= m
          BY <2>3, <3>2, <1>1
        <4>2. h[i - 1] = g[i - 1]
          BY <2>1, <4>1
        <4> QED
          BY <3>2, <4>2
      <3> QED
        BY <3>1, <3>2
    <2>4. \A i \in 0..n : i <= m + 1 => h[i] = Step(h, i)
      BY <2>3
    <2> HIDE DEF h, Step
    <2> QED
      BY <2>2, <2>4
  <1>4. S = Nat
    <2> HIDE DEF S
    <2>1. S \in SUBSET Nat
      BY DEF S
    <2> QED
      BY <1>2, <1>3, <2>1, SetInduction
  <1>5. PICK g \in [0..n -> Nat] : \A i \in 0..n : i <= n => g[i] = Step(g, i)
    BY <1>1, <1>4
  <1>6. g = [i \in 0..n |-> Step(g, i)]
    BY <1>1, <1>5
  <1>7. Used(p) = CHOOSE f : f = [i \in 0..n |-> Step(f, i)]
    BY DEF Used
  <1>8. Used(p) = [i \in 0..n |-> Step(Used(p), i)]
    <2> HIDE DEF Step
    <2> QED
      BY <1>6, <1>7
  <1> DEFINE T == {m \in Nat : m <= n => Used(p)[m] \in Nat}
  <1>9. T = Nat
    <2>1. 0 \in T
      BY <1>1, <1>8
    <2>2. ASSUME NEW m \in Nat, m \in T PROVE m + 1 \in T
      <3>1. CASE m + 1 <= n
        <4>1. Used(p)[m + 1] = Used(p)[m] + SizeAt(p, m + 1)
          BY <1>1, <1>8, <3>1
        <4> QED
          BY <1>1, <2>2, <3>1, <4>1
      <3> QED
        BY <3>1
    <2> HIDE DEF T
    <2>3. T \in SUBSET Nat
      BY DEF T
    <2> QED
      BY <2>1, <2>2, <2>3, SetInduction
  <1>10. \A i \in 0..n : Used(p)[i] \in Nat
    BY <1>1, <1>9
  <1>11. Used(p)[0] = 0 /\ \A i \in 1..n : Used(p)[i] = Used(p)[i - 1] + SizeAt(p, i)
    BY <1>1, <1>8
  <1>12. Used(p) \in [0..n -> Nat]
    <2>1. DOMAIN Used(p) = 0..n /\ Used(p) = [i \in 0..n |-> Used(p)[i]]
      <3> HIDE DEF Step
      <3> QED
        BY <1>8
    <2> QED
      BY <1>10, <2>1
  <1> QED
    BY <1>11, <1>12 DEF Slots

\* The slots a+1..b of p have the sizes of the slots a+s+1..b+s of q, and up to
\* the first of them the sums are d apart: ..
Shifted(p, q, a, b, s, d) ==
  /\ a \in Nat /\ b \in Nat /\ a <= b /\ b <= Len(p.slots) /\ s \in Int /\ d \in Int
  /\ 0 <= a + s /\ b + s <= Len(q.slots)
  /\ \A i \in a+1..b : SizeAt(q, i + s) = SizeAt(p, i)
  /\ Used(q)[a + s] = Used(p)[a] + d

\* .. so they are at all of them.
LEMMA UsedShift ==
  ASSUME NEW p, Placed(p), NEW q, Placed(q), NEW a, NEW b, NEW s, NEW d,
         Shifted(p, q, a, b, s, d)
  PROVE  \A i \in a..b : Used(q)[i + s] = Used(p)[i] + d
  <1>0. /\ a \in Nat /\ b \in Nat /\ a <= b /\ b <= Len(p.slots) /\ s \in Int /\ d \in Int
        /\ 0 <= a + s /\ b + s <= Len(q.slots)
        /\ \A i \in a+1..b : SizeAt(q, i + s) = SizeAt(p, i)
        /\ Used(q)[a + s] = Used(p)[a] + d
    BY DEF Shifted
  <1> USE <1>0
  <1> DEFINE T == {m \in Nat : a + m <= b => Used(q)[a + m + s] = Used(p)[a + m] + d}
  <1>1. 0 \in T
    OBVIOUS
  <1>2. ASSUME NEW m \in Nat, m \in T PROVE m + 1 \in T
    <2>1. CASE a + m + 1 <= b
      <3>1. a + m + 1 \in Slots(p) /\ a + m + 1 + s \in Slots(q)
        BY <2>1, SlotFacts
      <3>2. /\ Used(p)[a + m + 1] = Used(p)[a + m] + SizeAt(p, a + m + 1)
            /\ Used(q)[a + m + 1 + s] = Used(q)[a + m + s] + SizeAt(q, a + m + 1 + s)
        <4>1. a + m + 1 - 1 = a + m /\ a + m + 1 + s - 1 = a + m + s
          OBVIOUS
        <4> QED
          BY <3>1, <4>1, UsedFacts
      <3>3. Used(q)[a + m + s] = Used(p)[a + m] + d
        BY <1>2, <2>1
      <3>4. SizeAt(q, a + m + 1 + s) = SizeAt(p, a + m + 1)
        BY <2>1
      <3>5. Used(p)[a + m] \in Nat /\ SizeAt(p, a + m + 1) \in Nat
        <4>1. a + m \in 0..Len(p.slots)
          BY <2>1, SlotFacts
        <4> QED
          BY <3>1, <4>1, UsedFacts, SlotFacts
      <3>6. Used(q)[a + m + 1 + s] = Used(p)[a + m + 1] + d
        BY <3>2, <3>3, <3>4, <3>5
      <3>7. a + (m + 1) + s = a + m + 1 + s /\ a + (m + 1) = a + m + 1
        OBVIOUS
      <3> QED
        BY <3>6, <3>7
    <2> QED
      BY <2>1
  <1>3. T = Nat
    <2> HIDE DEF T
    <2>1. T \in SUBSET Nat
      BY DEF T
    <2> QED
      BY <1>1, <1>2, <2>1, SetInduction
  <1> TAKE i \in a..b
  <1>4. i - a \in T
    <2> HIDE DEF T
    <2> QED
      BY <1>3
  <1> QED
    BY <1>4

LEMMA UsedGrows ==
  ASSUME NEW p, Placed(p), NEW i \in 0..Len(p.slots), NEW j \in 0..Len(p.slots), i <= j
  PROVE  Used(p)[i] <= Used(p)[j]
  <1> DEFINE n == Len(p.slots)
             T == {m \in Nat : i + m <= n => Used(p)[i] <= Used(p)[i + m]}
  <1>1. n \in Nat /\ \A x \in 0..n : Used(p)[x] \in Nat
    BY SlotFacts, UsedFacts
  <1>2. 0 \in T
    BY <1>1
  <1>3. ASSUME NEW m \in Nat, m \in T PROVE m + 1 \in T
    <2>1. CASE i + m + 1 <= n
      <3>1. i + m + 1 \in Slots(p) /\ i + m + 1 - 1 = i + m
        BY <2>1, SlotFacts
      <3>2. Used(p)[i + m + 1] = Used(p)[i + m] + SizeAt(p, i + m + 1)
        BY <3>1, UsedFacts
      <3>3. Used(p)[i] <= Used(p)[i + m]
        BY <1>3, <2>1, <1>1
      <3>4. SizeAt(p, i + m + 1) \in Nat /\ Used(p)[i] \in Nat /\ Used(p)[i + m] \in Nat
        BY <1>1, <2>1, <3>1, SlotFacts
      <3>5. Used(p)[i] <= Used(p)[i + m + 1] /\ i + (m + 1) = i + m + 1
        BY <3>2, <3>3, <3>4
      <3> QED
        BY <3>5
    <2> QED
      BY <1>1, <2>1
  <1>4. T = Nat
    <2> HIDE DEF T
    <2>1. T \in SUBSET Nat
      BY DEF T
    <2> QED
      BY <1>2, <1>3, <2>1, SetInduction
  <1>5. j - i \in T
    <2>1. j - i \in Nat
      BY <1>1
    <2> HIDE DEF T
    <2> QED
      BY <1>4, <2>1
  <1> QED
    BY <1>5, <1>1

-----------------------------------------------------------------------------
\* The binary search.

\* What the loop has to return for key k.
Located(p, k, at) ==
  /\ at.found \in BOOLEAN
  /\ at.found => at.slot \in Slots(p) /\ KeyAt(p, at.slot) = k
  /\ ~at.found =>
       /\ at.slot \in 1..Len(p.slots) + 1
       /\ \A i \in Slots(p) : IF i < at.slot THEN KeyAt(p, i) < k ELSE k < KeyAt(p, i)

LEMMA Halfway ==
  ASSUME NEW low \in Nat, NEW high \in Nat, low <= high
  PROVE  /\ (low + high) \div 2 \in Nat
         /\ low <= (low + high) \div 2 /\ (low + high) \div 2 <= high
  OBVIOUS

LEMMA FindFacts ==
  ASSUME NEW p, Placed(p), Sorted(p), NEW k \in Key
  PROVE  Located(p, k, FindLeafCell(p, k))
  <1> DEFINE n == Len(p.slots)
             Low == 1..n + 1
             High == 0..n
             D == Low \X High
             Mid(l, h) == (l + h) \div 2
             Found == [slot : Low, found : BOOLEAN]
             Turn(g, l, h) == Probe(p, k, l, h, g)
             Solves(g, m) == \A l \in Low, h \in High :
                               h - l < m => g[<<l, h>>] = Turn(g, l, h)
             S == {m \in Nat : \E g \in [D -> Found] : Solves(g, m)}
  <1>1. n \in Nat /\ k \in Int /\ \A i \in 1..n : KeyAt(p, i) \in Int
    BY SlotFacts, PageFacts
  <1>2. ASSUME NEW l \in Low, NEW h \in High, l <= h
        PROVE  /\ Mid(l, h) \in 1..n /\ l <= Mid(l, h) /\ Mid(l, h) <= h
               /\ Mid(l, h) + 1 \in Low /\ Mid(l, h) - 1 \in High
    <2>1. l \in Nat /\ h \in Nat
      BY <1>1
    <2>2. Mid(l, h) \in Nat /\ l <= Mid(l, h) /\ Mid(l, h) <= h
      BY <1>2, <2>1, Halfway
    <2> HIDE DEF Mid
    <2> QED
      BY <1>1, <2>1, <2>2
  <1>3. ASSUME NEW g \in [D -> Found], NEW l \in Low, NEW h \in High
        PROVE  Turn(g, l, h) \in Found
    <2> DEFINE mid == Mid(l, h)
    <2>1. Turn(g, l, h) = IF l > h THEN [slot |-> l, found |-> FALSE]
                          ELSE IF KeyAt(p, mid) = k THEN [slot |-> mid, found |-> TRUE]
                          ELSE IF KeyAt(p, mid) < k THEN g[<<mid + 1, h>>]
                          ELSE g[<<l, mid - 1>>]
      BY DEF Probe
    <2>2. CASE l > h
      BY <2>1, <2>2
    <2>3. CASE l <= h
      <3>1. mid \in Low /\ mid + 1 \in Low /\ mid - 1 \in High
        BY <1>1, <1>2, <2>3
      <3>2. <<mid + 1, h>> \in D /\ <<l, mid - 1>> \in D
        <4> HIDE DEF mid, Low, High
        <4> QED
          BY <3>1
      <3> HIDE DEF mid, Turn, D, Low
      <3> QED
        BY <2>1, <3>1, <3>2
    <2> QED
      BY <1>1, <2>2, <2>3
  <1>4. ASSUME NEW g \in [D -> Found], NEW f \in [D -> Found], NEW m \in Nat,
               NEW l \in Low, NEW h \in High, h - l <= m,
               \A x \in Low, y \in High : y - x < m => g[<<x, y>>] = f[<<x, y>>]
        PROVE  Turn(g, l, h) = Turn(f, l, h)
    <2>1. CASE l > h
      BY <2>1 DEF Probe
    <2>2. CASE l <= h
      <3> DEFINE mid == Mid(l, h)
      <3>1. /\ mid \in Int /\ l <= mid /\ mid <= h /\ mid + 1 \in Low /\ mid - 1 \in High
            /\ l \in Int /\ h \in Int
        BY <1>1, <1>2, <2>2
      <3>2. h - (mid + 1) < m /\ (mid - 1) - l < m
        <4> HIDE DEF mid
        <4> QED
          BY <1>4, <3>1
      <3>3. g[<<mid + 1, h>>] = f[<<mid + 1, h>>] /\ g[<<l, mid - 1>>] = f[<<l, mid - 1>>]
        <4> HIDE DEF mid, Low, High
        <4> QED
          BY <1>4, <3>1, <3>2
      <3> QED
        BY <3>3 DEF Probe
    <2> QED
      BY <1>1, <2>1, <2>2
  <1>5. 0 \in S
    <2> DEFINE g == [r \in D |-> [slot |-> r[1], found |-> FALSE]]
    <2>1. g \in [D -> Found]
      BY <1>1
    <2>2. ASSUME NEW l \in Low, NEW h \in High, h - l < 0 PROVE g[<<l, h>>] = Turn(g, l, h)
      <3> DEFINE r == <<l, h>>
      <3>1. r \in D /\ r[1] = l /\ l > h
        BY <1>1, <2>2
      <3>2. g[r] = [slot |-> r[1], found |-> FALSE]
        <4> HIDE DEF r, D
        <4> QED
          BY <3>1
      <3> HIDE DEF g
      <3>3. g[r] = Turn(g, l, h)
        BY <3>1, <3>2 DEF Probe
      <3> QED
        BY <3>3
    <2> HIDE DEF g, Turn
    <2> QED
      BY <2>1, <2>2
  <1>6. ASSUME NEW m \in Nat, m \in S PROVE m + 1 \in S
    <2>1. PICK g \in [D -> Found] : Solves(g, m)
      BY <1>6
    <2> DEFINE f == [r \in D |-> Turn(g, r[1], r[2])]
    <2>2. \A l \in Low, h \in High : <<l, h>> \in D /\ f[<<l, h>>] = Turn(g, l, h)
      <3> TAKE l \in Low, h \in High
      <3> DEFINE r == <<l, h>>
      <3>1. r \in D /\ r[1] = l /\ r[2] = h
        OBVIOUS
      <3> HIDE DEF r, Turn, D
      <3>2. f[r] = Turn(g, r[1], r[2])
        BY <3>1
      <3>3. f[r] = Turn(g, l, h)
        BY <3>1, <3>2
      <3> QED
        BY <3>1, <3>3 DEF r
    <2>3. f \in [D -> Found]
      <3>1. \A r \in D : r[1] \in Low /\ r[2] \in High
        <4> HIDE DEF Low, High
        <4> QED
          OBVIOUS
      <3>2. \A r \in D : Turn(g, r[1], r[2]) \in Found
        <4> HIDE DEF Low, High, Turn, Found, D
        <4> QED
          BY <1>3, <3>1
      <3> HIDE DEF D, Turn, Found
      <3> QED
        BY <3>2
    <2>4. ASSUME NEW l \in Low, NEW h \in High, h - l < m + 1
          PROVE  f[<<l, h>>] = Turn(f, l, h)
      <3>1. h - l <= m
        BY <1>1, <2>4
      <3>2. \A x \in Low, y \in High : y - x < m => g[<<x, y>>] = f[<<x, y>>]
        <4> HIDE DEF f, Turn, Low, High
        <4> QED
          BY <2>1, <2>2
      <3> HIDE DEF f, Turn, Low, High, D, Found
      <3> QED
        BY <1>4, <2>2, <2>3, <3>1, <3>2
    <2> HIDE DEF f, Turn, Low, High, D, Found
    <2> QED
      BY <2>3, <2>4
  <1>7. S = Nat
    <2> HIDE DEF S
    <2>1. S \in SUBSET Nat
      BY DEF S
    <2> QED
      BY <1>5, <1>6, <2>1, SetInduction
  <1> DEFINE search == CHOOSE f : f = [r \in D |-> Turn(f, r[1], r[2])]
  <1>8. ASSUME NEW l \in Low, NEW h \in High PROVE search[<<l, h>>] = Turn(search, l, h)
    <2>1. PICK g \in [D -> Found] : Solves(g, n + 1)
      <3>1. n + 1 \in S
        <4> HIDE DEF S
        <4> QED
          BY <1>1, <1>7
      <3> HIDE DEF D, Found, Solves
      <3> QED
        BY <3>1
    <2>2. \A x \in Low, y \in High : y - x < n + 1
      BY <1>1
    <2>3. \A r \in D : r[1] \in Low /\ r[2] \in High /\ r = <<r[1], r[2]>>
      <3> HIDE DEF Low, High
      <3> QED
        OBVIOUS
    <2>4. g = [r \in D |-> Turn(g, r[1], r[2])]
      <3>1. \A r \in D : g[r] = Turn(g, r[1], r[2])
        <4>1. \A x \in Low, y \in High : g[<<x, y>>] = Turn(g, x, y)
          BY <2>1, <2>2
        <4> HIDE DEF Low, High, Turn, Found, D
        <4> QED
          BY <2>3, <4>1
      <3> HIDE DEF Turn, Found, D
      <3> QED
        BY <3>1
    <2>5. search = [r \in D |-> Turn(search, r[1], r[2])]
      <3> HIDE DEF Turn, Found, D
      <3> QED
        BY <2>4
    <2> DEFINE r == <<l, h>>
    <2>6. r \in D /\ r[1] = l /\ r[2] = h
      OBVIOUS
    <2> HIDE DEF search, Turn, D, r
    <2>7. search[r] = Turn(search, r[1], r[2])
      BY <2>5, <2>6
    <2>8. search[r] = Turn(search, l, h)
      BY <2>6, <2>7
    <2> QED
      BY <2>8 DEF r
  <1>9. FindLeafCell(p, k) = search[<<1, n>>]
    BY DEF FindLeafCell
  <1> HIDE DEF search
  <1> DEFINE Narrowed(l, h) == \A i \in 1..n : /\ i < l => KeyAt(p, i) < k
                                               /\ i > h => k < KeyAt(p, i)
             T == {m \in Nat : \A l \in Low, h \in High :
                     h - l < m /\ Narrowed(l, h) => Located(p, k, search[<<l, h>>])}
  <1>10. ASSUME NEW l \in Low, NEW h \in High, l > h, Narrowed(l, h)
         PROVE  Located(p, k, search[<<l, h>>])
    <2>1. search[<<l, h>>] = [slot |-> l, found |-> FALSE]
      <3>1. search[<<l, h>>] = Turn(search, l, h)
        BY <1>8
      <3> QED
        BY <1>10, <3>1 DEF Probe
    <2> QED
      BY <1>1, <1>10, <2>1 DEF Located, Slots
  <1>11. 0 \in T
    <2> SUFFICES ASSUME NEW l \in Low, NEW h \in High, h - l < 0, Narrowed(l, h)
                 PROVE  Located(p, k, search[<<l, h>>])
      OBVIOUS
    <2>1. l > h
      BY <1>1
    <2> HIDE DEF Narrowed, Low, High
    <2> QED
      BY <1>10, <2>1
  <1>12. ASSUME NEW m \in Nat, m \in T PROVE m + 1 \in T
    <2> SUFFICES ASSUME NEW l \in Low, NEW h \in High, h - l < m + 1, Narrowed(l, h)
                 PROVE  Located(p, k, search[<<l, h>>])
      OBVIOUS
    <2>1. CASE l > h
      <3> HIDE DEF Narrowed, Low, High
      <3> QED
        BY <1>10, <2>1
    <2>2. CASE l <= h
      <3> DEFINE mid == Mid(l, h)
      <3>1. /\ mid \in 1..n /\ l <= mid /\ mid <= h /\ mid + 1 \in Low /\ mid - 1 \in High
            /\ l \in Int /\ h \in Int
        BY <1>1, <1>2, <2>2
      <3>2. search[<<l, h>>] = IF KeyAt(p, mid) = k THEN [slot |-> mid, found |-> TRUE]
                               ELSE IF KeyAt(p, mid) < k THEN search[<<mid + 1, h>>]
                               ELSE search[<<l, mid - 1>>]
        <4>1. search[<<l, h>>] = Turn(search, l, h) /\ ~(l > h)
          BY <1>8, <2>2, <3>1
        <4> QED
          BY <4>1 DEF Probe
      <3> HIDE DEF mid
      <3>3. \A i \in 1..n : /\ i < mid => KeyAt(p, i) < KeyAt(p, mid)
                            /\ i > mid => KeyAt(p, mid) < KeyAt(p, i)
        BY <3>1, <1>1 DEF Sorted, Slots
      <3>4. CASE KeyAt(p, mid) = k
        BY <1>1, <3>1, <3>2, <3>4 DEF Located, Slots
      <3>5. CASE KeyAt(p, mid) < k
        <4>1. Narrowed(mid + 1, h) /\ h - (mid + 1) < m
          BY <1>1, <3>1, <3>3, <3>5
        <4>2. Located(p, k, search[<<mid + 1, h>>])
          <5> HIDE DEF Narrowed, Low, High
          <5> QED
            BY <1>12, <3>1, <4>1
        <4>3. search[<<l, h>>] = search[<<mid + 1, h>>]
          BY <1>1, <3>1, <3>2, <3>5
        <4> QED
          BY <4>2, <4>3
      <3>6. CASE k < KeyAt(p, mid)
        <4>1. Narrowed(l, mid - 1) /\ (mid - 1) - l < m
          BY <1>1, <3>1, <3>3, <3>6
        <4>2. Located(p, k, search[<<l, mid - 1>>])
          <5> HIDE DEF Narrowed, Low, High
          <5> QED
            BY <1>12, <3>1, <4>1
        <4>3. search[<<l, h>>] = search[<<l, mid - 1>>]
          BY <1>1, <3>1, <3>2, <3>6
        <4> QED
          BY <4>2, <4>3
      <3> QED
        BY <1>1, <3>1, <3>4, <3>5, <3>6
    <2> QED
      BY <1>1, <2>1, <2>2
  <1>13. T = Nat
    <2> HIDE DEF T
    <2>1. T \in SUBSET Nat
      BY DEF T
    <2> QED
      BY <1>11, <1>12, <2>1, SetInduction
  <1>14. 1 \in Low /\ n \in High /\ n - 1 < n /\ Narrowed(1, n)
    BY <1>1
  <1>15. n \in T
    <2> HIDE DEF T
    <2> QED
      BY <1>1, <1>13
  <1>16. Located(p, k, search[<<1, n>>])
    <2> HIDE DEF Narrowed, Low, High
    <2> QED
      BY <1>14, <1>15
  <1> QED
    BY <1>9, <1>16

-----------------------------------------------------------------------------
\* Writing over bytes.

\* The invariant: a page that can be read, with its live cells whole, its keys
\* ascending, and room above cell_content_offset for all the live cells, which
\* is what lets defragment put them side by side.
LiveFits(p) == Used(p)[Len(p.slots)] <= PageSize - p.content
Sound(p) == Placed(p) /\ Intact(p) /\ Sorted(p) /\ LiveFits(p)

LEMMA SparedFacts ==
  ASSUME NEW cells, NEW low, NEW high
  PROVE  /\ DOMAIN Spared(cells, low, high) \subseteq DOMAIN cells
         /\ \A a \in DOMAIN Spared(cells, low, high) : Spared(cells, low, high)[a] = cells[a]
         /\ \A a \in DOMAIN cells :
              a + CellSize(cells[a].payload) <= low \/ high <= a
                => a \in DOMAIN Spared(cells, low, high)
  BY DEF Spared, Restrict

LEMMA SparedKeeps ==
  ASSUME NEW cells, NEW low, NEW high, NEW a \in DOMAIN cells, high <= a
  PROVE  a \in DOMAIN Spared(cells, low, high) /\ Spared(cells, low, high)[a] = cells[a]
  BY DEF Spared, Restrict

LEMMA WrittenFacts ==
  ASSUME NEW cells, NEW o, NEW k, NEW v
  PROVE  /\ o \in DOMAIN Written(cells, o, k, v)
         /\ Written(cells, o, k, v)[o] = [key |-> k, payload |-> v]
         /\ DOMAIN Written(cells, o, k, v) \subseteq DOMAIN cells \union {o}
         /\ \A a \in DOMAIN Written(cells, o, k, v) \ {o} :
              Written(cells, o, k, v)[a] = cells[a]
         /\ \A a \in DOMAIN cells \ {o} :
              a + CellSize(cells[a].payload) <= o \/ o + CellSize(v) <= a
                => a \in DOMAIN Written(cells, o, k, v)
  BY SparedFacts DEF Written

LEMMA WrittenKeeps ==
  ASSUME NEW cells, NEW o, NEW k, NEW v, NEW a \in DOMAIN cells, a # o,
         a + CellSize(cells[a].payload) <= o \/ o + CellSize(v) <= a
  PROVE  a \in DOMAIN Written(cells, o, k, v) /\ Written(cells, o, k, v)[a] = cells[a]
  <1> DEFINE high == o + CellSize(v)
  <1>1. a \in DOMAIN Spared(cells, o, high)
    <2>1. a + CellSize(cells[a].payload) <= o \/ high <= a
      OBVIOUS
    <2> HIDE DEF high
    <2> QED
      BY <2>1, SparedFacts
  <1>2. DOMAIN Written(cells, o, k, v) = DOMAIN Spared(cells, o, high) \union {o}
    BY DEF Written
  <1>3. a \in DOMAIN Written(cells, o, k, v)
    BY <1>1, <1>2
  <1>4. Written(cells, o, k, v)[a] = cells[a]
    BY <1>3, Zenon DEF Written
  <1> QED
    BY <1>3, <1>4

LEMMA CellsIn ==
  ASSUME NEW cells, DOMAIN cells \subseteq Address, \A a \in DOMAIN cells : cells[a] \in Cell,
         NEW o \in Address, NEW k \in Key, NEW v \in Payload
  PROVE  /\ DOMAIN Written(cells, o, k, v) \subseteq Address
         /\ \A a \in DOMAIN Written(cells, o, k, v) : Written(cells, o, k, v)[a] \in Cell
  <1> DEFINE w == Written(cells, o, k, v)
  <1>1. DOMAIN w \subseteq DOMAIN cells \union {o}
    BY WrittenFacts
  <1>2. w[o] = [key |-> k, payload |-> v] /\ \A a \in DOMAIN w \ {o} : w[a] = cells[a]
    BY WrittenFacts
  <1> HIDE DEF w
  <1>3. w[o] \in Cell
    BY <1>2 DEF Cell
  <1>4. DOMAIN w \subseteq Address /\ \A a \in DOMAIN w : w[a] \in Cell
    BY <1>1, <1>2, <1>3
  <1> QED
    BY <1>4 DEF w

\* What a call makes of the records: one has a new payload, ..
Updated(p, q, t, v) ==
  /\ Len(q.slots) = Len(p.slots)
  /\ \A i \in Slots(p) : /\ KeyAt(q, i) = KeyAt(p, i)
                         /\ PayloadAt(q, i) = IF i = t THEN v ELSE PayloadAt(p, i)

\* .. one more is there, ..
Inserted(p, q, t, k, v) ==
  /\ Len(q.slots) = Len(p.slots) + 1
  /\ KeyAt(q, t) = k /\ PayloadAt(q, t) = v
  /\ \A i \in 1..t-1 : KeyAt(q, i) = KeyAt(p, i) /\ PayloadAt(q, i) = PayloadAt(p, i)
  /\ \A i \in t..Len(p.slots) :
       KeyAt(q, i + 1) = KeyAt(p, i) /\ PayloadAt(q, i + 1) = PayloadAt(p, i)

\* .. one is gone, ..
Removed(p, q, t) ==
  /\ Len(q.slots) = Len(p.slots) - 1
  /\ \A i \in 1..t-1 : KeyAt(q, i) = KeyAt(p, i) /\ PayloadAt(q, i) = PayloadAt(p, i)
  /\ \A i \in t..Len(p.slots)-1 :
       KeyAt(q, i) = KeyAt(p, i + 1) /\ PayloadAt(q, i) = PayloadAt(p, i + 1)

\* .. or all are as before.
Same(p, q) ==
  /\ Len(q.slots) = Len(p.slots)
  /\ \A i \in Slots(p) : KeyAt(q, i) = KeyAt(p, i) /\ PayloadAt(q, i) = PayloadAt(p, i)

-----------------------------------------------------------------------------
\* An update in place.

LEMMA OverwrittenWell ==
  ASSUME NEW p, Placed(p), Intact(p), NEW t \in Slots(p), NEW k \in Key, NEW v \in Payload,
         KeyAt(p, t) = k, CellSize(v) <= SizeAt(p, t)
  PROVE  LET q == Overwritten(p, t, k, v)
         IN  Placed(q) /\ Intact(q) /\ q.content = p.content /\ Updated(p, q, t, v)
  <1> DEFINE o == p.slots[t]
             w == Written(p.cells, o, k, v)
             q == Overwritten(p, t, k, v)
  <1>1. /\ q = [slots |-> p.slots, content |-> p.content, cells |-> w]
        /\ q.slots = p.slots /\ q.content = p.content /\ q.cells = w
    BY DEF Placed, Overwritten
  <1>2. /\ o \in Address /\ w[o] = [key |-> k, payload |-> v] /\ o \in DOMAIN w
        /\ DOMAIN w \subseteq Address /\ \A a \in DOMAIN w : w[a] \in Cell
    BY SlotFacts, WrittenFacts, CellsIn DEF Placed
  <1>3. ASSUME NEW i \in Slots(p), i # t
        PROVE  p.slots[i] \in DOMAIN w /\ w[p.slots[i]] = p.cells[p.slots[i]] /\ p.slots[i] # o
    <2>1. EndAt(p, i) <= o \/ EndAt(p, t) <= p.slots[i]
      BY <1>3 DEF Intact
    <2>2. /\ p.slots[i] \in Nat /\ o \in Nat /\ CellSize(v) \in Nat
          /\ SizeAt(p, i) \in Nat /\ SizeAt(p, i) >= 12 /\ SizeAt(p, t) \in Nat /\ SizeAt(p, t) >= 12
          /\ EndAt(p, i) = p.slots[i] + SizeAt(p, i) /\ EndAt(p, t) = o + SizeAt(p, t)
          /\ SizeAt(p, i) = CellSize(p.cells[p.slots[i]].payload)
          /\ p.slots[i] \in DOMAIN p.cells
      BY SlotFacts, PageFacts DEF SizeAt, PayloadAt, Placed
    <2>3. p.slots[i] # o /\ (EndAt(p, i) <= o \/ o + CellSize(v) <= p.slots[i])
      BY <2>1, <2>2
    <2>4. CellSize(p.cells[p.slots[i]].payload) = SizeAt(p, i)
      BY DEF SizeAt, PayloadAt
    <2> HIDE DEF o
    <2> QED
      BY <2>2, <2>3, <2>4, WrittenKeeps
  <1> HIDE DEF w, q
  <1>4. Slots(q) = Slots(p) /\ Updated(p, q, t, v)
    BY <1>1, <1>2, <1>3 DEF Updated, Slots, KeyAt, PayloadAt
  <1>5. Placed(q)
    BY <1>1, <1>2, <1>3, <1>4 DEF Placed
  <1>6. \A i \in Slots(p) : EndAt(q, i) <= EndAt(p, i) /\ EndAt(q, i) \in Nat /\ EndAt(p, i) \in Nat
    <2> TAKE i \in Slots(p)
    <2>1. /\ SizeAt(q, i) = IF i = t THEN CellSize(v) ELSE SizeAt(p, i)
          /\ SizeAt(p, i) \in Nat /\ p.slots[i] \in Nat
      BY <1>4, SlotFacts, PageFacts DEF Updated, SizeAt
    <2> QED
      BY <1>1, <2>1, PageFacts DEF EndAt
  <1>7. Intact(q)
    <2>1. PointersEnd(q) = PointersEnd(p)
      BY <1>1 DEF PointersEnd
    <2>2. \A i \in Slots(p) : p.slots[i] \in Nat
      BY SlotFacts, PageFacts
    <2>3. p.content \in Nat /\ PageSize \in Nat
      BY PageFacts DEF Placed
    <2> QED
      BY <1>1, <1>2, <1>3, <1>4, <1>6, <2>1, <2>2, <2>3 DEF Intact
  <1> QED
    BY <1>1, <1>4, <1>5, <1>7 DEF q

-----------------------------------------------------------------------------
\* A new cell.

LEMMA AllocatedFacts ==
  ASSUME NEW p, Placed(p), Intact(p), NEW k \in Key, NEW v \in Payload,
         CellSize(v) <= FreeSpace(p)
  PROVE  LET q == Allocated(p, k, v)
         IN  /\ q = [slots |-> p.slots, content |-> p.content - CellSize(v), cells |-> q.cells]
             /\ q.content \in Address /\ PointersEnd(p) <= q.content
             /\ q.content + CellSize(v) = p.content
             /\ DOMAIN q.cells \subseteq Address /\ \A a \in DOMAIN q.cells : q.cells[a] \in Cell
             /\ q.content \in DOMAIN q.cells
             /\ q.cells[q.content] = [key |-> k, payload |-> v]
             /\ \A i \in Slots(p) : /\ p.slots[i] \in DOMAIN q.cells
                                    /\ q.cells[p.slots[i]] = p.cells[p.slots[i]]
  <1> DEFINE o == p.content - CellSize(v)
             w == Written(p.cells, o, k, v)
             q == Allocated(p, k, v)
  <1>1. /\ q = [slots |-> p.slots, content |-> o, cells |-> w]
        /\ q.slots = p.slots /\ q.content = o /\ q.cells = w
    BY DEF Allocated
  <1>2. /\ CellSize(v) \in Nat /\ CellSize(v) >= 12 /\ p.content \in Nat
        /\ PointersEnd(p) \in Nat /\ PointersEnd(p) >= HeaderSize /\ p.content <= PageSize
    BY PageFacts, SlotFacts DEF Placed, PointersEnd, PointerBytes
  <1>3. FreeSpace(p) = p.content - PointersEnd(p)
    BY <1>2 DEF Intact, FreeSpace
  <1>4. o \in Address /\ PointersEnd(p) <= o /\ o + CellSize(v) = p.content
    BY <1>2, <1>3, PageFacts DEF Address
  <1>5. /\ w[o] = [key |-> k, payload |-> v] /\ o \in DOMAIN w
        /\ DOMAIN w \subseteq Address /\ \A a \in DOMAIN w : w[a] \in Cell
    <2> HIDE DEF o
    <2> QED
      BY <1>4, WrittenFacts, CellsIn DEF Placed
  <1>6. ASSUME NEW i \in Slots(p)
        PROVE  p.slots[i] \in DOMAIN w /\ w[p.slots[i]] = p.cells[p.slots[i]]
    <2>1. p.slots[i] \in DOMAIN p.cells /\ p.content <= p.slots[i] /\ p.slots[i] \in Nat
      BY SlotFacts, PageFacts DEF Intact
    <2>2. p.slots[i] # o /\ o + CellSize(v) <= p.slots[i]
      BY <1>2, <1>4, <2>1
    <2> HIDE DEF o
    <2> QED
      BY <2>1, <2>2, WrittenKeeps
  <1> HIDE DEF o, w
  <1> QED
    BY <1>1, <1>2, <1>3, <1>4, <1>5, <1>6 DEF o

-----------------------------------------------------------------------------
\* Compaction.

LEMMA SameUsed ==
  ASSUME NEW p, Placed(p), NEW q, Placed(q), Same(p, q)
  PROVE  \A i \in 0..Len(p.slots) : Used(q)[i] = Used(p)[i]
  <1> DEFINE n == Len(p.slots)
  <1>1. n \in Nat /\ Len(q.slots) = n /\ Slots(p) = 1..n
    BY SlotFacts DEF Same
  <1>2. \A i \in 0+1..n : SizeAt(q, i + 0) = SizeAt(p, i)
    BY <1>1 DEF Same, SizeAt
  <1>3. Used(q)[0 + 0] = Used(p)[0] + 0
    BY UsedFacts
  <1>4. \A i \in 0..n : Used(q)[i + 0] = Used(p)[i] + 0
    <2>1. Shifted(p, q, 0, n, 0, 0)
      BY <1>1, <1>2, <1>3 DEF Shifted
    <2> HIDE DEF n
    <2> QED
      BY <2>1, UsedShift
  <1>5. \A i \in 0..n : Used(p)[i] \in Nat /\ i + 0 = i
    BY <1>1, UsedFacts
  <1> QED
    BY <1>4, <1>5

LEMMA DefragmentedWell ==
  ASSUME NEW p, Placed(p), Intact(p), LiveFits(p)
  PROVE  LET q == Defragmented(p)
         IN  /\ Placed(q) /\ Intact(q) /\ LiveFits(q) /\ Same(p, q)
             /\ FreeSpace(q) = TotalFreeSpace(p)
  <1> DEFINE n == Len(p.slots)
             used == Used(p)
             start == [i \in Slots(p) |-> PageSize - used[i]]
             owner(o) == CHOOSE i \in Slots(p) : start[i] = o
             cells == [o \in Range(start) |-> p.cells[p.slots[owner(o)]]]
             q == Defragmented(p)
  <1>1. /\ q = [slots |-> start, content |-> PageSize - used[n], cells |-> cells]
        /\ q.slots = start /\ q.content = PageSize - used[n] /\ q.cells = cells
    BY DEF Defragmented
  <1>2. /\ n \in Nat /\ Slots(p) = 1..n /\ PageSize \in Nat
        /\ \A i \in 0..n : used[i] \in Nat
        /\ used[0] = 0
        /\ \A i \in 1..n : used[i] = used[i - 1] + SizeAt(p, i)
        /\ \A i \in 1..n : SizeAt(p, i) \in Nat /\ SizeAt(p, i) >= 12
    BY SlotFacts, UsedFacts, PageFacts
  <1>3. \A i, j \in 0..n : i <= j => used[i] <= used[j]
    BY UsedGrows
  <1> HIDE DEF used, q
  <1>4. /\ p.content \in Nat /\ PointersEnd(p) \in Nat /\ PointersEnd(p) >= HeaderSize
        /\ HeaderSize = 20 /\ PointersEnd(p) <= p.content /\ p.content <= PageSize
        /\ used[n] <= PageSize - p.content
    BY <1>2, PageFacts
    DEF Placed, Intact, LiveFits, PointersEnd, PointerBytes, used
  <1>5. ASSUME NEW i \in 1..n
        PROVE  /\ start[i] = PageSize - used[i]
               /\ start[i] \in Address /\ start[i] + SizeAt(p, i) = PageSize - used[i - 1]
               /\ p.content <= start[i] /\ PageSize - used[n] <= start[i]
               /\ PageSize - used[i - 1] <= PageSize
    <2>1. /\ used[i] = used[i - 1] + SizeAt(p, i) /\ used[i - 1] \in Nat /\ used[i] \in Nat
          /\ used[n] \in Nat /\ used[i] <= used[n] /\ SizeAt(p, i) \in Nat /\ SizeAt(p, i) >= 12
      BY <1>2, <1>3
    <2>2. start[i] = PageSize - used[i] /\ PageSize \in Nat
      BY <1>2
    <2> HIDE DEF start
    <2>3. p.content <= start[i] /\ PageSize - used[n] <= start[i] /\ start[i] \in Int
      <3>1. \A a, b, c, d \in Int : a <= b /\ b <= d - c => c <= d - a /\ d - b <= d - a
        OBVIOUS
      <3>2. /\ used[i] \in Int /\ used[n] \in Int /\ p.content \in Int /\ PageSize \in Int
            /\ used[i] <= used[n] /\ used[n] <= PageSize - p.content
        BY <1>4, <2>1, <2>2
      <3>3. p.content <= PageSize - used[i] /\ PageSize - used[n] <= PageSize - used[i]
        <4> HIDE DEF n
        <4> QED
          BY <3>1, <3>2
      <3> QED
        BY <2>2, <3>2, <3>3
    <2>4. start[i] <= PageSize - 1
      BY <2>1, <2>2
    <2>5. start[i] \in Address
      BY <1>4, <2>2, <2>3, <2>4 DEF Address
    <2> QED
      BY <2>1, <2>2, <2>3, <2>5
  <1>6. ASSUME NEW i \in 1..n, NEW j \in 1..n, i < j
        PROVE  start[j] + SizeAt(p, j) <= start[i] /\ start[j] # start[i]
    <2>1. used[i] <= used[j - 1] /\ used[j - 1] \in Nat /\ used[i] \in Nat
      BY <1>2, <1>3, <1>6
    <2>2. start[j] + SizeAt(p, j) = PageSize - used[j - 1] /\ start[i] = PageSize - used[i]
      BY <1>5
    <2>3. SizeAt(p, j) \in Nat /\ SizeAt(p, j) >= 12 /\ start[j] = PageSize - used[j] /\ used[j] \in Nat
      BY <1>2, <1>5
    <2>4. PageSize \in Nat
      BY <1>2
    <2> HIDE DEF start
    <2> QED
      BY <2>1, <2>2, <2>3, <2>4
  <1>7. ASSUME NEW i \in 1..n PROVE owner(start[i]) = i
    <2>1. i \in Slots(p) /\ start[i] = start[i]
      BY <1>2
    <2>2. owner(start[i]) \in Slots(p) /\ start[owner(start[i])] = start[i]
      <3> HIDE DEF start
      <3> QED
        BY <2>1
    <2>3. \A j \in 1..n : start[j] = start[i] => j = i
      <3> TAKE j \in 1..n
      <3>1. i < j \/ j < i \/ j = i
        BY <1>2
      <3> HIDE DEF start
      <3> QED
        BY <1>6, <3>1
    <2> HIDE DEF start, owner
    <2> QED
      BY <1>2, <2>2, <2>3
  <1>8. ASSUME NEW i \in 1..n
        PROVE  start[i] \in DOMAIN cells /\ cells[start[i]] = p.cells[p.slots[i]]
    <2>1. DOMAIN start = 1..n
      BY <1>2
    <2>2. start[i] \in Range(start)
      <3> HIDE DEF start
      <3> QED
        BY <2>1 DEF Range
    <2> HIDE DEF start, owner
    <2>3. cells[start[i]] = p.cells[p.slots[owner(start[i])]]
      BY <2>2
    <2> QED
      BY <1>7, <2>2, <2>3
  <1>9. \A o \in DOMAIN cells : \E i \in 1..n : o = start[i]
    BY <1>2 DEF Range
  <1>10. start \in Seq(Address) /\ Len(start) = n
    <2>1. DOMAIN start = 1..n /\ start \in [1..n -> Address]
      BY <1>2, <1>5
    <2> HIDE DEF start
    <2> QED
      BY <1>2, <2>1
  <1> HIDE DEF start, cells
  <1>11. Same(p, q) /\ Slots(q) = 1..n
    BY <1>1, <1>2, <1>8, <1>10 DEF Same, Slots, KeyAt, PayloadAt
  <1>12. Placed(q)
    <2>1. q.content \in HeaderSize..PageSize
      <3>1. used[n] \in Nat
        BY <1>2
      <3> QED
        BY <1>1, <1>2, <1>4, <3>1
    <2>2. DOMAIN q.cells \subseteq Address
      BY <1>1, <1>5, <1>9
    <2>3. \A o \in DOMAIN q.cells : q.cells[o] \in Cell
      <3> TAKE o \in DOMAIN q.cells
      <3>1. PICK i \in 1..n : o = start[i]
        BY <1>1, <1>9
      <3> QED
        BY <1>1, <1>2, <1>8, <3>1 DEF Placed
    <2> QED
      BY <1>1, <1>8, <1>10, <1>11, <2>1, <2>2, <2>3 DEF Placed
  <1>13. \A i \in 1..n : SizeAt(q, i) = SizeAt(p, i) /\ EndAt(q, i) = start[i] + SizeAt(p, i)
    BY <1>1, <1>2, <1>11 DEF Same, SizeAt, EndAt
  <1>14. PointersEnd(q) = PointersEnd(p)
    BY <1>1, <1>10 DEF PointersEnd
  <1>15. Intact(q)
    <2>1. PointersEnd(q) <= q.content
      <3>1. used[n] \in Nat
        BY <1>2
      <3> QED
        BY <1>1, <1>2, <1>4, <1>14, <3>1
    <2>2. ASSUME NEW i \in 1..n
          PROVE  q.slots[i] \in DOMAIN q.cells /\ q.content <= q.slots[i] /\ EndAt(q, i) <= PageSize
      BY <1>1, <1>5, <1>8, <1>13
    <2>3. ASSUME NEW i \in 1..n, NEW j \in (1..n) \ {i}
          PROVE  EndAt(q, i) <= q.slots[j] \/ EndAt(q, j) <= q.slots[i]
      <3>1. i < j \/ j < i
        BY <1>2
      <3> QED
        BY <1>1, <1>6, <1>13, <3>1
    <2> QED
      BY <1>11, <2>1, <2>2, <2>3 DEF Intact
  <1>16. LiveFits(q) /\ FreeSpace(q) = TotalFreeSpace(p)
    <2>1. Len(q.slots) = n /\ Used(q)[n] = used[n] /\ used[n] \in Nat
      BY <1>1, <1>2, <1>10, <1>11, <1>12, SameUsed DEF used
    <2>2. LiveFits(q)
      BY <1>1, <1>2, <2>1 DEF LiveFits
    <2>3. FreeSpace(q) = PageSize - used[n] - PointersEnd(p)
      BY <1>1, <1>2, <1>4, <1>14, <2>1 DEF FreeSpace
    <2>4. TotalFreeSpace(p) = PageSize - (PointersEnd(p) + used[n])
      BY <1>2, <1>4, <2>1 DEF TotalFreeSpace, used
    <2> QED
      BY <1>2, <1>4, <2>1, <2>2, <2>3, <2>4
  <1> QED
    BY <1>11, <1>12, <1>15, <1>16 DEF q

\* Room for a cell, after compaction if it takes that.
LEMMA MadeRoomWell ==
  ASSUME NEW p, Placed(p), Intact(p), LiveFits(p), NEW m \in Nat, HasRoom(p, m)
  PROVE  LET q == MadeRoom(p, m)
         IN  Placed(q) /\ Intact(q) /\ LiveFits(q) /\ Same(p, q) /\ m <= FreeSpace(q)
  <1>1. FreeSpace(p) \in Nat
    <2>1. p.content \in Nat /\ PointersEnd(p) \in Nat
      BY SlotFacts, PageFacts DEF Placed, PointersEnd, PointerBytes
    <2> QED
      BY <2>1 DEF FreeSpace
  <1>2. CASE FreeSpace(p) >= m
    BY <1>1, <1>2 DEF MadeRoom, Same
  <1>3. CASE ~(FreeSpace(p) >= m)
    <2>1. MadeRoom(p, m) = Defragmented(p) /\ TotalFreeSpace(p) >= m
      BY <1>3 DEF MadeRoom, HasRoom
    <2>2. FreeSpace(Defragmented(p)) = TotalFreeSpace(p)
      BY DefragmentedWell
    <2>3. TotalFreeSpace(p) \in Nat
      <3>1. Used(p)[Len(p.slots)] \in Nat /\ PointersEnd(p) \in Nat
        BY SlotFacts, UsedFacts, PageFacts DEF PointersEnd, PointerBytes
      <3> QED
        BY <3>1, PageFacts DEF TotalFreeSpace
    <2> QED
      BY <2>1, <2>2, <2>3, DefragmentedWell
  <1> QED
    BY <1>2, <1>3

-----------------------------------------------------------------------------
\* What the calls do to the records.

\* An update beside the old cell.
LEMMA RelocatedWell ==
  ASSUME NEW p, Placed(p), Intact(p), NEW t \in Slots(p), NEW k \in Key, NEW v \in Payload,
         KeyAt(p, t) = k, LiveFits(p), HasRoom(p, CellSize(v))
  PROVE  LET r == Relocated(p, t, k, v)
         IN  Placed(r) /\ Intact(r) /\ Updated(p, r, t, v)
  <1> DEFINE q == MadeRoom(p, CellSize(v))
             a == Allocated(q, k, v)
             r == Relocated(p, t, k, v)
             n == Len(p.slots)
  <1>1. CellSize(v) \in Nat /\ CellSize(v) >= 12
    BY PageFacts
  <1>2. Placed(q) /\ Intact(q) /\ Same(p, q) /\ CellSize(v) <= FreeSpace(q)
    BY <1>1, MadeRoomWell
  <1>3. /\ Slots(p) = 1..n /\ n \in Nat /\ Len(q.slots) = n /\ Slots(q) = 1..n
        /\ q.slots \in Seq(Address)
        /\ \A i \in 1..n : KeyAt(q, i) = KeyAt(p, i) /\ PayloadAt(q, i) = PayloadAt(p, i)
    BY <1>2, SlotFacts DEF Same, Slots, Placed
  <1> HIDE DEF q, n
  <1>4. /\ a = [slots |-> q.slots, content |-> q.content - CellSize(v), cells |-> a.cells]
        /\ a.content \in Address /\ PointersEnd(q) <= a.content
        /\ a.content + CellSize(v) = q.content
        /\ DOMAIN a.cells \subseteq Address /\ \A x \in DOMAIN a.cells : a.cells[x] \in Cell
        /\ a.content \in DOMAIN a.cells
        /\ a.cells[a.content] = [key |-> k, payload |-> v]
        /\ \A i \in Slots(q) : /\ q.slots[i] \in DOMAIN a.cells
                               /\ a.cells[q.slots[i]] = q.cells[q.slots[i]]
    BY <1>2, AllocatedFacts
  <1> HIDE DEF a
  <1>5. /\ r = [slots |-> [q.slots EXCEPT ![t] = a.content], content |-> a.content, cells |-> a.cells]
        /\ r.slots = [q.slots EXCEPT ![t] = a.content]
        /\ r.content = a.content /\ r.cells = a.cells
    <2>1. r = [a EXCEPT !.slots[t] = a.content]
      BY DEF Relocated, a, q
    <2>2. a.slots = q.slots
      BY <1>4
    <2> HIDE DEF r
    <2> QED
      BY <1>4, <2>1, <2>2
  <1> HIDE DEF r
  <1>6. /\ r.slots \in Seq(Address) /\ Len(r.slots) = n /\ Slots(r) = 1..n /\ t \in 1..n
        /\ r.slots[t] = a.content /\ \A i \in (1..n) \ {t} : r.slots[i] = q.slots[i]
    <2>1. q.slots \in [1..n -> Address] /\ t \in 1..n /\ a.content \in Address
      BY <1>3, <1>4
    <2>2. /\ r.slots \in [1..n -> Address]
          /\ r.slots[t] = a.content /\ \A i \in (1..n) \ {t} : r.slots[i] = q.slots[i]
      BY <1>5, <2>1
    <2>3. r.slots \in Seq(Address) /\ Len(r.slots) = n
      BY <1>3, <2>2
    <2> QED
      BY <2>1, <2>2, <2>3 DEF Slots
  <1>7. Updated(p, r, t, v)
    <2>1. KeyAt(r, t) = KeyAt(p, t) /\ PayloadAt(r, t) = v
      <3>1. r.cells[r.slots[t]] = [key |-> k, payload |-> v]
        BY <1>4, <1>5, <1>6
      <3> QED
        BY <3>1 DEF KeyAt, PayloadAt
    <2>2. ASSUME NEW i \in 1..n, i # t
          PROVE  KeyAt(r, i) = KeyAt(p, i) /\ PayloadAt(r, i) = PayloadAt(p, i)
      <3>1. r.cells[r.slots[i]] = q.cells[q.slots[i]]
        BY <1>3, <1>4, <1>5, <1>6, <2>2
      <3>2. KeyAt(r, i) = KeyAt(q, i) /\ PayloadAt(r, i) = PayloadAt(q, i)
        BY <3>1 DEF KeyAt, PayloadAt
      <3> QED
        BY <1>3, <3>2
    <2>3. Len(r.slots) = Len(p.slots)
      BY <1>6 DEF n
    <2> QED
      BY <1>3, <2>1, <2>2, <2>3 DEF Updated
  <1>8. Placed(r)
    <2>1. r.content \in HeaderSize..PageSize
      BY <1>4, <1>5, PageFacts DEF Address
    <2> QED
      BY <1>3, <1>4, <1>5, <1>6, <2>1 DEF Placed
  <1>9. ASSUME NEW i \in 1..n
        PROVE  /\ i # t => /\ EndAt(r, i) = EndAt(q, i) /\ EndAt(q, i) \in Nat
                           /\ q.content <= q.slots[i] /\ q.slots[i] \in Nat
                           /\ EndAt(q, i) <= PageSize
               /\ i = t => EndAt(r, i) = q.content
    <2>1. /\ SizeAt(r, i) = IF i = t THEN CellSize(v) ELSE SizeAt(q, i)
          /\ SizeAt(q, i) \in Nat /\ q.slots[i] \in Nat /\ EndAt(q, i) = q.slots[i] + SizeAt(q, i)
      BY <1>2, <1>3, <1>7, SlotFacts, PageFacts DEF Updated, SizeAt
    <2> QED
      BY <1>2, <1>3, <1>4, <1>6, <2>1 DEF EndAt, Intact
  <1>10. q.content \in Nat /\ q.content <= PageSize /\ a.content \in Nat /\ PageSize \in Nat
    BY <1>2, <1>4, PageFacts DEF Placed
  <1>11. Intact(r)
    <2>1. PointersEnd(r) <= r.content
      BY <1>3, <1>4, <1>5, <1>6 DEF PointersEnd
    <2>2. ASSUME NEW i \in 1..n
          PROVE  r.slots[i] \in DOMAIN r.cells /\ r.content <= r.slots[i] /\ EndAt(r, i) <= PageSize
      <3>1. CASE i = t
        <4>1. r.slots[i] = a.content /\ r.content = a.content /\ EndAt(r, i) = q.content
          BY <1>5, <1>6, <1>9, <3>1
        <4> QED
          BY <1>4, <1>5, <1>10, <4>1
      <3>2. CASE i # t
        <4>1. r.slots[i] = q.slots[i] /\ q.slots[i] \in DOMAIN a.cells
          BY <1>3, <1>4, <1>6, <3>2
        <4>2. a.content <= q.slots[i]
          <5>1. q.content <= q.slots[i] /\ q.slots[i] \in Nat
            BY <1>9, <3>2
          <5>2. a.content + CellSize(v) = q.content
            BY <1>4
          <5> QED
            BY <1>1, <1>10, <5>1, <5>2
        <4> QED
          BY <1>5, <1>9, <3>2, <4>1, <4>2
      <3> QED
        BY <3>1, <3>2
    <2>3. ASSUME NEW i \in 1..n, NEW j \in (1..n) \ {i}
          PROVE  EndAt(r, i) <= r.slots[j] \/ EndAt(r, j) <= r.slots[i]
      <3>1. CASE i = t
        BY <1>6, <1>9, <3>1
      <3>2. CASE j = t
        BY <1>6, <1>9, <3>2
      <3>3. CASE i # t /\ j # t
        <4>1. EndAt(q, i) <= q.slots[j] \/ EndAt(q, j) <= q.slots[i]
          BY <1>2, <1>3 DEF Intact
        <4> QED
          BY <1>6, <1>9, <3>3, <4>1
      <3> QED
        BY <3>1, <3>2, <3>3
    <2> QED
      BY <1>6, <2>1, <2>2, <2>3 DEF Intact
  <1> QED
    BY <1>7, <1>8, <1>11 DEF r

\* A new cell and its pointer.
LEMMA AddedWell ==
  ASSUME NEW p, Placed(p), Intact(p), NEW k \in Key, NEW v \in Payload,
         NEW t \in 1..Len(p.slots) + 1, LiveFits(p), HasRoom(p, CellSize(v) + PointerBytes)
  PROVE  LET r == Added(p, t, k, v)
         IN  Placed(r) /\ Intact(r) /\ Inserted(p, r, t, k, v)
  <1> DEFINE q == MadeRoom(p, CellSize(v) + PointerBytes)
             a == Allocated(q, k, v)
             r == Added(p, t, k, v)
             n == Len(p.slots)
             end == PointersEnd(p)
  <1>1. CellSize(v) \in Nat /\ CellSize(v) >= 12 /\ PointerBytes = 2 /\ HeaderSize = 20
    BY PageFacts DEF PointerBytes
  <1>2. /\ Placed(q) /\ Intact(q) /\ Same(p, q)
        /\ CellSize(v) + PointerBytes <= FreeSpace(q)
    BY <1>1, MadeRoomWell
  <1>3. /\ Slots(p) = 1..n /\ n \in Nat /\ Len(q.slots) = n /\ Slots(q) = 1..n
        /\ q.slots \in Seq(Address) /\ t \in 1..n+1
        /\ \A i \in 1..n : KeyAt(q, i) = KeyAt(p, i) /\ PayloadAt(q, i) = PayloadAt(p, i)
    BY <1>2, SlotFacts DEF Same, Slots, Placed
  <1>4. /\ end = PointersEnd(q) /\ end = HeaderSize + PointerBytes * n /\ end \in Nat
        /\ q.content \in Nat /\ q.content <= PageSize
        /\ FreeSpace(q) = q.content - end
    <2>1. end = HeaderSize + PointerBytes * n /\ PointersEnd(q) = HeaderSize + PointerBytes * n
      BY <1>3 DEF PointersEnd
    <2>2. end \in Nat
      BY <1>1, <1>3, <2>1
    <2>3. q.content \in Nat /\ q.content <= PageSize /\ PointersEnd(q) <= q.content
      BY <1>2, PageFacts DEF Intact, Placed
    <2> HIDE DEF end
    <2> QED
      BY <2>1, <2>2, <2>3 DEF FreeSpace
  <1> HIDE DEF q, n
  <1>5. /\ a = [slots |-> q.slots, content |-> q.content - CellSize(v), cells |-> a.cells]
        /\ a.content \in Address /\ PointersEnd(q) <= a.content
        /\ a.content + CellSize(v) = q.content
        /\ DOMAIN a.cells \subseteq Address /\ \A x \in DOMAIN a.cells : a.cells[x] \in Cell
        /\ a.content \in DOMAIN a.cells
        /\ a.cells[a.content] = [key |-> k, payload |-> v]
        /\ \A i \in Slots(q) : /\ q.slots[i] \in DOMAIN a.cells
                               /\ a.cells[q.slots[i]] = q.cells[q.slots[i]]
    <2>1. CellSize(v) <= FreeSpace(q)
      BY <1>1, <1>2, <1>4
    <2> QED
      BY <1>2, <2>1, AllocatedFacts
  <1>6. a.slots = q.slots /\ a.content = q.content - CellSize(v)
    BY <1>5
  <1> DEFINE w == Spared(a.cells, end, end + PointerBytes)
             s == InsertAt(q.slots, t, a.content)
  <1>7. /\ r = [slots |-> s, content |-> a.content, cells |-> w]
        /\ r.slots = s /\ r.content = a.content /\ r.cells = w
    BY <1>6 DEF Added, q
  <1> HIDE DEF a, r
  <1>8. /\ s \in Seq(Address) /\ Len(s) = n + 1 /\ s[t] = a.content
        /\ \A i \in 1..t-1 : s[i] = q.slots[i]
        /\ \A i \in t..n : s[i + 1] = q.slots[i]
    <2> DEFINE x == SubSeq(q.slots, 1, t - 1)
               y == SubSeq(q.slots, t, n)
    <2>1. /\ x \in Seq(Address) /\ Len(x) = t - 1 /\ \A i \in 1..t-1 : x[i] = q.slots[i]
      BY <1>3
    <2>2. /\ y \in Seq(Address) /\ Len(y) = n - t + 1
          /\ \A i \in 1..n-t+1 : y[i] = q.slots[t + i - 1]
      BY <1>3
    <2>3. s = (x \o <<a.content>>) \o y
      BY <1>3 DEF InsertAt
    <2> HIDE DEF x, y, s
    <2>4. <<a.content>> \in Seq(Address) /\ Len(<<a.content>>) = 1 /\ <<a.content>>[1] = a.content
      BY <1>5
    <2> DEFINE z == x \o <<a.content>>
    <2>5. /\ z \in Seq(Address) /\ Len(z) = t /\ z[t] = a.content
          /\ \A i \in 1..t-1 : z[i] = q.slots[i]
      BY <1>3, <2>1, <2>4
    <2> HIDE DEF z
    <2>6. s \in Seq(Address) /\ Len(s) = n + 1 /\ \A i \in 1..t : s[i] = z[i]
      <3>1. s = z \o y
        BY <2>3 DEF z
      <3>2. z \in Seq(Address) /\ y \in Seq(Address)
        BY <2>2, <2>5
      <3>3. z \o y \in Seq(Address)
        BY <3>2, ConcatProperties, Zenon
      <3>4. Len(z \o y) = Len(z) + Len(y) /\ \A i \in 1..Len(z) + Len(y) :
              (z \o y)[i] = IF i <= Len(z) THEN z[i] ELSE y[i - Len(z)]
        BY <3>2, ConcatProperties, Zenon
      <3> QED
        BY <1>3, <2>2, <2>5, <3>1, <3>3, <3>4
    <2>7. ASSUME NEW i \in t..n PROVE s[i + 1] = q.slots[i]
      <3>1. s[i + 1] = y[i + 1 - t] /\ i + 1 - t \in 1..n-t+1 /\ t + (i + 1 - t) - 1 = i
        BY <1>3, <2>2, <2>3, <2>5 DEF z
      <3> QED
        BY <2>2, <3>1
    <2> QED
      BY <1>3, <2>5, <2>6, <2>7
  <1>9. \A o \in DOMAIN a.cells : end + PointerBytes <= o => o \in DOMAIN w /\ w[o] = a.cells[o]
    BY SparedKeeps
  <1>10. DOMAIN w \subseteq DOMAIN a.cells /\ \A o \in DOMAIN w : w[o] \in Cell
    BY <1>5, SparedFacts
  <1>11. end + PointerBytes <= a.content /\ end \in Nat /\ a.content \in Nat
    <2>1. /\ CellSize(v) + PointerBytes <= q.content - end /\ CellSize(v) \in Nat
          /\ PointerBytes \in Nat /\ end \in Nat /\ q.content \in Nat /\ a.content \in Nat
          /\ a.content + CellSize(v) = q.content
      BY <1>1, <1>2, <1>4, <1>5, PageFacts
    <2> HIDE DEF end
    <2> QED
      BY <2>1
  <1> HIDE DEF w, s
  <1>12. /\ a.content \in DOMAIN w /\ w[a.content] = [key |-> k, payload |-> v]
         /\ \A i \in 1..n : /\ q.slots[i] \in DOMAIN w
                            /\ w[q.slots[i]] = q.cells[q.slots[i]]
                            /\ q.content <= q.slots[i] /\ q.slots[i] \in Nat
    <2>1. a.content \in DOMAIN w /\ w[a.content] = [key |-> k, payload |-> v]
      BY <1>5, <1>9, <1>11
    <2> SUFFICES ASSUME NEW i \in 1..n
                 PROVE  /\ q.slots[i] \in DOMAIN w /\ w[q.slots[i]] = q.cells[q.slots[i]]
                        /\ q.content <= q.slots[i] /\ q.slots[i] \in Nat
      BY <2>1
    <2>2. q.content <= q.slots[i] /\ q.slots[i] \in Nat
      BY <1>2, <1>3, SlotFacts, PageFacts DEF Intact
    <2>3. end + PointerBytes <= q.slots[i]
      BY <1>1, <1>4, <1>5, <1>11, <2>2
    <2> QED
      BY <1>3, <1>5, <1>9, <2>2, <2>3
  <1>13. Inserted(p, r, t, k, v)
    <2>1. Len(r.slots) = n + 1 /\ KeyAt(r, t) = k /\ PayloadAt(r, t) = v
      BY <1>7, <1>8, <1>12 DEF KeyAt, PayloadAt
    <2>2. \A i \in 1..t-1 : KeyAt(r, i) = KeyAt(p, i) /\ PayloadAt(r, i) = PayloadAt(p, i)
      <3> TAKE i \in 1..t-1
      <3>1. i \in 1..n /\ r.slots[i] = q.slots[i]
        BY <1>3, <1>7, <1>8
      <3> QED
        BY <1>3, <1>7, <1>12, <3>1 DEF KeyAt, PayloadAt
    <2>3. \A i \in t..n : KeyAt(r, i + 1) = KeyAt(p, i) /\ PayloadAt(r, i + 1) = PayloadAt(p, i)
      <3> TAKE i \in t..n
      <3>1. i \in 1..n /\ r.slots[i + 1] = q.slots[i]
        BY <1>3, <1>7, <1>8
      <3> QED
        BY <1>3, <1>7, <1>12, <3>1 DEF KeyAt, PayloadAt
    <2> QED
      BY <2>1, <2>2, <2>3 DEF Inserted, n
  <1>14. /\ Slots(r) = 1..n+1
         /\ \A i \in 1..n+1 : IF i < t THEN i \in 1..n /\ r.slots[i] = q.slots[i]
                              ELSE IF i = t THEN r.slots[i] = a.content
                              ELSE i - 1 \in 1..n /\ r.slots[i] = q.slots[i - 1]
    <2>1. Slots(r) = 1..n+1
      BY <1>7, <1>8 DEF Slots
    <2>2. ASSUME NEW i \in 1..n+1, i > t PROVE i - 1 \in 1..n /\ r.slots[i] = q.slots[i - 1]
      <3>1. i - 1 \in t..n /\ i - 1 \in 1..n /\ i - 1 + 1 = i
        BY <1>3, <2>2
      <3> QED
        BY <1>7, <1>8, <3>1
    <2>3. ASSUME NEW i \in 1..n+1, i < t PROVE i \in 1..n /\ r.slots[i] = q.slots[i]
      BY <1>3, <1>7, <1>8, <2>3
    <2> QED
      BY <1>3, <1>7, <1>8, <2>1, <2>2, <2>3
  <1>15. Placed(r)
    <2>1. r.content \in HeaderSize..PageSize
      BY <1>5, <1>7, PageFacts DEF Address
    <2>2. \A i \in 1..n+1 : r.slots[i] \in DOMAIN w
      BY <1>3, <1>12, <1>14
    <2> QED
      BY <1>5, <1>7, <1>8, <1>10, <1>14, <2>1, <2>2 DEF Placed
  <1>16. ASSUME NEW i \in 1..n+1
         PROVE  /\ i < t => EndAt(r, i) = EndAt(q, i) /\ EndAt(q, i) \in Nat
                /\ i = t => EndAt(r, i) = q.content
                /\ i > t => EndAt(r, i) = EndAt(q, i - 1) /\ EndAt(q, i - 1) \in Nat
    <2>1. ASSUME NEW j \in 1..n
          PROVE  /\ EndAt(q, j) \in Nat
                 /\ r.slots[i] = q.slots[j] => EndAt(r, i) = EndAt(q, j)
      <3>1. EndAt(q, j) \in Nat
        <4>1. /\ EndAt(q, j) = q.slots[j] + SizeAt(q, j) /\ SizeAt(q, j) \in Nat
              /\ q.slots[j] \in Nat
          BY <1>2, <1>3, <1>12, SlotFacts
        <4> QED
          BY <4>1
      <3>2. r.cells[q.slots[j]] = q.cells[q.slots[j]]
        BY <1>7, <1>12
      <3> QED
        BY <3>1, <3>2 DEF EndAt, SizeAt, PayloadAt
    <2>2. r.slots[i] = a.content => EndAt(r, i) = q.content
      <3>1. r.cells[a.content].payload = v /\ a.content + CellSize(v) = q.content
        BY <1>5, <1>7, <1>12
      <3> QED
        BY <3>1 DEF EndAt, SizeAt, PayloadAt
    <2> QED
      BY <1>3, <1>14, <2>1, <2>2
  <1>17. Intact(r)
    <2>1. PointersEnd(r) <= r.content
      <3>1. PointersEnd(r) = HeaderSize + PointerBytes * (n + 1)
        BY <1>7, <1>8 DEF PointersEnd
      <3> QED
        BY <1>1, <1>3, <1>4, <1>7, <1>11, <3>1
    <2>2. ASSUME NEW j \in 1..n PROVE a.content <= q.slots[j] /\ EndAt(q, j) <= PageSize
      BY <1>1, <1>2, <1>3, <1>5, <1>11, <1>12 DEF Intact
    <2>3. ASSUME NEW i \in 1..n+1
          PROVE  r.slots[i] \in DOMAIN r.cells /\ r.content <= r.slots[i] /\ EndAt(r, i) <= PageSize
      <3>1. (r.slots[i] = a.content /\ i = t) \/ \E j \in 1..n : r.slots[i] = q.slots[j]
        BY <1>3, <1>14
      <3>2. EndAt(r, i) = q.content \/ \E j \in 1..n : EndAt(r, i) = EndAt(q, j)
        <4>1. i < t \/ i = t \/ i > t
          BY <1>3
        <4> QED
          BY <1>14, <1>16, <4>1
      <3> QED
        BY <1>4, <1>7, <1>11, <1>12, <2>2, <3>1, <3>2
    <2>4. ASSUME NEW i \in 1..n, NEW j \in 1..n, i # j
          PROVE  EndAt(q, i) <= q.slots[j] \/ EndAt(q, j) <= q.slots[i]
      BY <1>2, <1>3, <2>4 DEF Intact
    <2>5. ASSUME NEW i \in 1..n+1, NEW j \in 1..n+1, i < j
          PROVE  EndAt(r, i) <= r.slots[j] \/ EndAt(r, j) <= r.slots[i]
      <3>1. CASE i = t
        <4>1. j > t /\ j - 1 \in 1..n /\ r.slots[j] = q.slots[j - 1] /\ EndAt(r, i) = q.content
          BY <1>3, <1>14, <1>16, <2>5, <3>1
        <4> QED
          BY <1>12, <4>1
      <3>2. CASE j = t
        <4>1. i < t /\ i \in 1..n /\ r.slots[i] = q.slots[i] /\ EndAt(r, j) = q.content
          BY <1>3, <1>14, <1>16, <2>5, <3>2
        <4> QED
          BY <1>12, <4>1
      <3>3. CASE i # t /\ j # t
        <4> DEFINE x == IF i < t THEN i ELSE i - 1
                   y == IF j < t THEN j ELSE j - 1
        <4>1. /\ x \in 1..n /\ y \in 1..n /\ x # y
              /\ r.slots[i] = q.slots[x] /\ r.slots[j] = q.slots[y]
              /\ EndAt(r, i) = EndAt(q, x) /\ EndAt(r, j) = EndAt(q, y)
          <5>1. i \in Int /\ j \in Int /\ t \in Int
            BY <1>3
          <5>2. x \in 1..n /\ r.slots[i] = q.slots[x] /\ EndAt(r, i) = EndAt(q, x)
            BY <1>14, <1>16, <3>3, <5>1
          <5>3. y \in 1..n /\ r.slots[j] = q.slots[y] /\ EndAt(r, j) = EndAt(q, y)
            BY <1>14, <1>16, <3>3, <5>1
          <5>4. x # y
            BY <2>5, <3>3, <5>1
          <5> QED
            BY <5>2, <5>3, <5>4
        <4> HIDE DEF x, y
        <4> QED
          BY <2>4, <4>1
      <3> QED
        BY <3>1, <3>2, <3>3
    <2>6. ASSUME NEW i \in 1..n+1, NEW j \in (1..n+1) \ {i}
          PROVE  EndAt(r, i) <= r.slots[j] \/ EndAt(r, j) <= r.slots[i]
      <3>1. i < j \/ j < i
        BY <1>3
      <3> QED
        BY <2>5, <3>1
    <2> QED
      BY <1>14, <2>1, <2>3, <2>6 DEF Intact
  <1> QED
    BY <1>13, <1>15, <1>17 DEF r

-----------------------------------------------------------------------------
\* A deletion.

LEMMA DeletedWell ==
  ASSUME NEW p, Placed(p), Intact(p), NEW t \in Slots(p)
  PROVE  LET r == [p EXCEPT !.slots = RemoveAt(@, t)]
         IN  Placed(r) /\ Intact(r) /\ r.content = p.content /\ Removed(p, r, t)
  <1> DEFINE r == [p EXCEPT !.slots = RemoveAt(@, t)]
             n == Len(p.slots)
             s == RemoveAt(p.slots, t)
             old(i) == IF i < t THEN i ELSE i + 1
  <1>1. /\ r = [slots |-> s, content |-> p.content, cells |-> p.cells]
        /\ r.slots = s /\ r.content = p.content /\ r.cells = p.cells
    BY DEF Placed
  <1>2. Slots(p) = 1..n /\ n \in Nat /\ t \in 1..n /\ p.slots \in Seq(Address)
    BY SlotFacts DEF Placed
  <1>3. /\ s \in Seq(Address) /\ Len(s) = n - 1
        /\ \A i \in 1..n-1 : s[i] = p.slots[old(i)]
    <2> DEFINE x == SubSeq(p.slots, 1, t - 1)
               y == SubSeq(p.slots, t + 1, n)
    <2>1. /\ x \in Seq(Address) /\ Len(x) = t - 1 /\ \A i \in 1..t-1 : x[i] = p.slots[i]
      BY <1>2
    <2>2. /\ y \in Seq(Address) /\ Len(y) = n - t
          /\ \A i \in 1..n-t : y[i] = p.slots[t + i]
      BY <1>2
    <2>3. s = x \o y
      BY DEF RemoveAt
    <2> HIDE DEF x, y, s
    <2>4. x \o y \in Seq(Address)
      BY <2>1, <2>2, ConcatProperties, Zenon
    <2>5. Len(x \o y) = Len(x) + Len(y) /\ \A i \in 1..Len(x) + Len(y) :
            (x \o y)[i] = IF i <= Len(x) THEN x[i] ELSE y[i - Len(x)]
      BY <2>1, <2>2, ConcatProperties, Zenon
    <2>6. s \in Seq(Address) /\ Len(s) = n - 1
      BY <1>2, <2>1, <2>2, <2>3, <2>4, <2>5
    <2>7. ASSUME NEW i \in 1..n-1 PROVE s[i] = p.slots[old(i)]
      <3>1. CASE i < t
        BY <1>2, <2>1, <2>2, <2>3, <2>5, <3>1
      <3>2. CASE ~(i < t)
        <4>1. s[i] = y[i - (t - 1)] /\ i - (t - 1) \in 1..n-t /\ t + (i - (t - 1)) = i + 1
          BY <1>2, <2>1, <2>2, <2>3, <2>5, <3>2
        <4> QED
          BY <2>2, <3>2, <4>1
      <3> QED
        BY <3>1, <3>2
    <2> QED
      BY <2>6, <2>7
  <1> HIDE DEF s, r
  <1>4. /\ Slots(r) = 1..n-1 /\ Len(r.slots) = n - 1
        /\ \A i \in 1..n-1 : old(i) \in 1..n /\ r.slots[i] = p.slots[old(i)]
    BY <1>1, <1>2, <1>3 DEF Slots
  <1>5. \A i, j \in 1..n-1 : i # j => old(i) # old(j)
    BY <1>2
  <1> HIDE DEF n
  <1>6. \A i \in 1..n-1 : /\ EndAt(r, i) = EndAt(p, old(i)) /\ KeyAt(r, i) = KeyAt(p, old(i))
                          /\ PayloadAt(r, i) = PayloadAt(p, old(i))
    BY <1>1, <1>4 DEF EndAt, SizeAt, KeyAt, PayloadAt
  <1>7. Placed(r)
    <2> HIDE DEF old
    <2> QED
      BY <1>1, <1>2, <1>3, <1>4 DEF Placed
  <1>8. Intact(r)
    <2>1. PointersEnd(r) <= r.content
      <3>1. PointersEnd(p) <= p.content /\ p.content \in Nat
        BY PageFacts DEF Intact, Placed
      <3>2. PointersEnd(r) = HeaderSize + PointerBytes * (n - 1)
        BY <1>4 DEF PointersEnd
      <3>3. PointersEnd(p) = HeaderSize + PointerBytes * n
        BY DEF PointersEnd, n
      <3> QED
        BY <1>1, <1>2, <3>1, <3>2, <3>3, PageFacts DEF PointerBytes
    <2> HIDE DEF old
    <2>2. \A i \in 1..n-1 : /\ r.slots[i] \in DOMAIN r.cells /\ r.content <= r.slots[i]
                            /\ EndAt(r, i) <= PageSize
      BY <1>1, <1>2, <1>4, <1>6 DEF Intact
    <2>3. \A i \in 1..n-1 : \A j \in (1..n-1) \ {i} :
            EndAt(r, i) <= r.slots[j] \/ EndAt(r, j) <= r.slots[i]
      BY <1>2, <1>4, <1>5, <1>6 DEF Intact
    <2> QED
      BY <1>4, <2>1, <2>2, <2>3 DEF Intact
  <1>9. Removed(p, r, t)
    <2>1. \A i \in 1..t-1 : i \in 1..n-1 /\ old(i) = i
      BY <1>2
    <2>2. \A i \in t..n-1 : i \in 1..n-1 /\ old(i) = i + 1
      BY <1>2
    <2>3. Len(r.slots) = Len(p.slots) - 1
      BY <1>4 DEF n
    <2> HIDE DEF old
    <2>4. \A i \in 1..t-1 : KeyAt(r, i) = KeyAt(p, i) /\ PayloadAt(r, i) = PayloadAt(p, i)
      BY <1>6, <2>1
    <2>5. \A i \in t..n-1 : KeyAt(r, i) = KeyAt(p, i + 1) /\ PayloadAt(r, i) = PayloadAt(p, i + 1)
      BY <1>6, <2>2
    <2> QED
      BY <2>3, <2>4, <2>5 DEF Removed, n
  <1> QED
    BY <1>1, <1>7, <1>8, <1>9 DEF r

-----------------------------------------------------------------------------
\* The bytes of the live cells, after each.

LEMMA UsedStep ==
  ASSUME NEW p, Placed(p), NEW i \in Slots(p)
  PROVE  /\ Used(p)[i] \in Nat /\ Used(p)[i - 1] \in Nat /\ SizeAt(p, i) \in Nat
         /\ Used(p)[i] = Used(p)[i - 1] + SizeAt(p, i)
  <1>1. i \in 1..Len(p.slots) /\ Len(p.slots) \in Nat /\ SizeAt(p, i) \in Nat
    BY SlotFacts
  <1>2. i \in 0..Len(p.slots) /\ i - 1 \in 0..Len(p.slots)
    BY <1>1
  <1> QED
    BY <1>1, <1>2, UsedFacts

LEMMA UsedInNat ==
  ASSUME NEW p, Placed(p)
  PROVE  /\ Len(p.slots) \in Nat /\ Used(p)[Len(p.slots)] \in Nat
         /\ Used(p)[0] = 0 /\ p.content \in Nat /\ PageSize \in Nat
  <1>1. Len(p.slots) \in Nat
    BY SlotFacts
  <1>2. Len(p.slots) \in 0..Len(p.slots)
    BY <1>1
  <1>3. p.content \in Nat /\ PageSize \in Nat
    BY PageFacts DEF Placed
  <1> QED
    BY <1>1, <1>2, <1>3, UsedFacts

LEMMA UsedPrefix ==
  ASSUME NEW p, Placed(p), NEW q, Placed(q), NEW m \in Nat,
         m <= Len(p.slots), m <= Len(q.slots), \A i \in 1..m : SizeAt(q, i) = SizeAt(p, i)
  PROVE  Used(q)[m] = Used(p)[m]
  <1>1. Shifted(p, q, 0, m, 0, 0)
    <2>1. Used(q)[0 + 0] = Used(p)[0] + 0
      BY UsedInNat
    <2> QED
      BY <2>1 DEF Shifted
  <1>2. Used(q)[m + 0] = Used(p)[m] + 0 /\ m + 0 = m
    BY <1>1, UsedShift
  <1>3. Used(p)[m] \in Nat
    <2>1. m \in 0..Len(p.slots)
      BY UsedInNat
    <2> QED
      BY <2>1, UsedFacts
  <1> QED
    BY <1>2, <1>3

LEMMA UpdatedUsed ==
  ASSUME NEW p, Placed(p), NEW q, Placed(q), NEW t \in Slots(p), NEW v \in Payload,
         Updated(p, q, t, v)
  PROVE  Used(q)[Len(q.slots)] = Used(p)[Len(p.slots)] + CellSize(v) - SizeAt(p, t)
  <1> DEFINE n == Len(p.slots)
             d == CellSize(v) - SizeAt(p, t)
  <1>1. /\ n \in Nat /\ Len(q.slots) = n /\ Slots(p) = 1..n /\ Slots(q) = 1..n
        /\ SizeAt(p, t) \in Nat /\ CellSize(v) \in Nat /\ d \in Int
    BY SlotFacts, PageFacts DEF Updated
  <1>2. t \in 1..n /\ \A i \in 1..n : SizeAt(q, i) = IF i = t THEN CellSize(v) ELSE SizeAt(p, i)
    BY <1>1 DEF Updated, SizeAt
  <1>3. Used(q)[t - 1] = Used(p)[t - 1]
    BY <1>1, <1>2, UsedPrefix
  <1> HIDE DEF n
  <1>4. Used(q)[t] = Used(p)[t] + d
    <2>1. /\ Used(p)[t] = Used(p)[t - 1] + SizeAt(p, t) /\ Used(p)[t - 1] \in Nat
          /\ Used(q)[t] = Used(q)[t - 1] + SizeAt(q, t)
      BY <1>1, <1>2, UsedStep
    <2> QED
      BY <1>1, <1>2, <1>3, <2>1
  <1> HIDE DEF d
  <1>5. Used(q)[n + 0] = Used(p)[n] + d
    <2>1. Shifted(p, q, t, n, 0, d)
      BY <1>1, <1>2, <1>4 DEF Shifted, n
    <2> QED
      BY <1>1, <2>1, UsedShift
  <1>6. n + 0 = n /\ Used(p)[n] \in Nat
    BY <1>1, UsedInNat DEF n
  <1> QED
    BY <1>1, <1>5, <1>6 DEF n, d

LEMMA InsertedUsed ==
  ASSUME NEW p, Placed(p), NEW q, Placed(q), NEW t \in 1..Len(p.slots) + 1,
         NEW k \in Key, NEW v \in Payload, Inserted(p, q, t, k, v)
  PROVE  Used(q)[Len(q.slots)] = Used(p)[Len(p.slots)] + CellSize(v)
  <1> DEFINE n == Len(p.slots)
             c == CellSize(v)
  <1>1. /\ n \in Nat /\ Len(q.slots) = n + 1 /\ Slots(p) = 1..n /\ Slots(q) = 1..n+1
        /\ t \in 1..n+1 /\ c \in Nat
    BY SlotFacts, PageFacts DEF Inserted
  <1>2. /\ \A i \in 1..t-1 : SizeAt(q, i) = SizeAt(p, i)
        /\ SizeAt(q, t) = c
        /\ \A i \in t..n : SizeAt(q, i + 1) = SizeAt(p, i)
    BY <1>1 DEF Inserted, SizeAt
  <1> HIDE DEF c
  <1>3. Used(q)[t - 1] = Used(p)[t - 1]
    BY <1>1, <1>2, UsedPrefix
  <1> HIDE DEF n
  <1>4. Used(q)[t] = Used(p)[t - 1] + c
    <2>1. Used(q)[t] = Used(q)[t - 1] + SizeAt(q, t)
      BY <1>1, UsedStep
    <2> QED
      BY <1>2, <1>3, <2>1
  <1>5. Used(q)[n + 1] = Used(p)[n] + c
    <2>1. Shifted(p, q, t - 1, n, 1, c)
      <3>1. t - 1 + 1 = t
        BY <1>1
      <3> QED
        BY <1>1, <1>2, <1>4, <3>1 DEF Shifted, n
    <2> QED
      BY <1>1, <2>1, UsedShift
  <1> QED
    BY <1>1, <1>5 DEF n, c

LEMMA RemovedUsed ==
  ASSUME NEW p, Placed(p), NEW q, Placed(q), NEW t \in Slots(p), Removed(p, q, t)
  PROVE  Used(q)[Len(q.slots)] <= Used(p)[Len(p.slots)]
  <1> DEFINE n == Len(p.slots)
             d == 0 - SizeAt(p, t)
  <1>1. /\ n \in Nat /\ Len(q.slots) = n - 1 /\ Slots(p) = 1..n /\ Slots(q) = 1..n-1
        /\ t \in 1..n /\ SizeAt(p, t) \in Nat /\ d \in Int
    BY SlotFacts DEF Removed
  <1>2. /\ \A i \in 1..t-1 : SizeAt(q, i) = SizeAt(p, i)
        /\ \A i \in t..n-1 : SizeAt(q, i) = SizeAt(p, i + 1)
    BY <1>1 DEF Removed, SizeAt
  <1>3. Used(q)[t - 1] = Used(p)[t - 1]
    BY <1>1, <1>2, UsedPrefix
  <1> HIDE DEF n
  <1>4. Used(q)[t - 1] = Used(p)[t] + d
    <2>1. Used(p)[t] = Used(p)[t - 1] + SizeAt(p, t) /\ Used(p)[t - 1] \in Nat
      BY <1>1, UsedStep
    <2> QED
      BY <1>1, <1>3, <2>1
  <1> HIDE DEF d
  <1>5. Used(q)[n + (-1)] = Used(p)[n] + d
    <2>1. Shifted(p, q, t, n, -1, d)
      <3>1. t + (-1) = t - 1
        BY <1>1
      <3>2. \A i \in t+1..n : SizeAt(q, i + (-1)) = SizeAt(p, i)
        <4> TAKE i \in t+1..n
        <4>1. i - 1 \in t..n-1 /\ i - 1 + 1 = i /\ i + (-1) = i - 1
          BY <1>1
        <4> QED
          BY <1>2, <4>1
      <3> QED
        BY <1>1, <1>4, <3>1, <3>2 DEF Shifted, n
    <2> QED
      BY <1>1, <2>1, UsedShift
  <1>6. n + (-1) = n - 1 /\ Used(p)[n] \in Nat
    BY <1>1, UsedInNat DEF n
  <1> QED
    BY <1>1, <1>5, <1>6 DEF n, d

-----------------------------------------------------------------------------
\* The order of the keys.

LEMMA SortedFacts ==
  ASSUME NEW p, Placed(p)
  PROVE  /\ Slots(p) = 1..Len(p.slots) /\ Len(p.slots) \in Nat
         /\ \A i \in Slots(p) : KeyAt(p, i) \in Int
  BY SlotFacts, PageFacts

LEMMA UpdatedSorted ==
  ASSUME NEW p, Placed(p), Sorted(p), NEW q, NEW t, NEW v, Updated(p, q, t, v)
  PROVE  Sorted(q)
  BY SortedFacts DEF Sorted, Updated, Slots

LEMMA SameSorted ==
  ASSUME NEW p, Placed(p), Sorted(p), NEW q, Same(p, q)
  PROVE  Sorted(q)
  BY SortedFacts DEF Sorted, Same, Slots

LEMMA RemovedSorted ==
  ASSUME NEW p, Placed(p), Sorted(p), NEW q, NEW t \in Slots(p), Removed(p, q, t)
  PROVE  Sorted(q)
  <1> DEFINE n == Len(p.slots)
             old(i) == IF i < t THEN i ELSE i + 1
  <1>1. Slots(p) = 1..n /\ n \in Nat /\ t \in 1..n /\ Slots(q) = 1..n-1
    BY SortedFacts DEF Removed, Slots
  <1>2. \A i \in 1..n-1 : old(i) \in 1..n /\ KeyAt(q, i) = KeyAt(p, old(i))
    BY <1>1 DEF Removed
  <1>3. \A i, j \in 1..n-1 : i < j => old(i) < old(j)
    BY <1>1
  <1> HIDE DEF old, n
  <1> QED
    BY <1>1, <1>2, <1>3 DEF Sorted

LEMMA InsertedSorted ==
  ASSUME NEW p, Placed(p), Sorted(p), NEW q, NEW t \in 1..Len(p.slots) + 1,
         NEW k \in Key, NEW v, Inserted(p, q, t, k, v),
         \A i \in Slots(p) : IF i < t THEN KeyAt(p, i) < k ELSE k < KeyAt(p, i)
  PROVE  Sorted(q)
  <1> DEFINE n == Len(p.slots)
  <1>1. /\ Slots(p) = 1..n /\ n \in Nat /\ t \in 1..n+1 /\ Slots(q) = 1..n+1 /\ k \in Int
        /\ \A i \in 1..n : KeyAt(p, i) \in Int
    BY SortedFacts, PageFacts DEF Inserted, Slots
  <1>2. \A i \in 1..n+1 : /\ i < t => i \in 1..n /\ KeyAt(q, i) = KeyAt(p, i)
                          /\ i = t => KeyAt(q, i) = k
                          /\ i > t => i - 1 \in 1..n /\ i - 1 >= t /\ KeyAt(q, i) = KeyAt(p, i - 1)
    <2> TAKE i \in 1..n+1
    <2>1. i < t => i \in 1..n /\ KeyAt(q, i) = KeyAt(p, i)
      BY <1>1 DEF Inserted
    <2>2. i > t => i - 1 \in 1..n /\ i - 1 >= t /\ KeyAt(q, i) = KeyAt(p, i - 1)
      <3> HAVE i > t
      <3>1. i - 1 \in t..n /\ i - 1 + 1 = i
        BY <1>1
      <3> QED
        BY <1>1, <3>1 DEF Inserted
    <2> QED
      BY <2>1, <2>2 DEF Inserted
  <1>3. \A i \in 1..n : IF i < t THEN KeyAt(p, i) < k ELSE k < KeyAt(p, i)
    BY <1>1
  <1> SUFFICES ASSUME NEW i \in 1..n+1, NEW j \in 1..n+1, i < j PROVE KeyAt(q, i) < KeyAt(q, j)
    BY <1>1 DEF Sorted
  <1>4. CASE j < t
    <2>1. i < t /\ i \in 1..n /\ j \in 1..n
      BY <1>1, <1>2, <1>4
    <2> QED
      BY <1>1, <1>2, <1>4, <2>1 DEF Sorted
  <1>5. CASE j = t
    BY <1>1, <1>2, <1>3, <1>5
  <1>6. CASE i < t /\ j > t
    <2>1. i \in 1..n /\ j - 1 \in 1..n /\ i < j - 1
      BY <1>1, <1>2, <1>6
    <2> QED
      BY <1>1, <1>2, <1>6, <2>1 DEF Sorted
  <1>7. CASE i = t /\ j > t
    <2>1. j - 1 \in 1..n /\ ~(j - 1 < t)
      BY <1>1, <1>2, <1>7
    <2> QED
      BY <1>1, <1>2, <1>3, <1>7, <2>1
  <1>8. CASE i > t
    <2>1. i - 1 \in 1..n /\ j - 1 \in 1..n /\ i - 1 < j - 1 /\ j > t
      BY <1>1, <1>2, <1>8
    <2> QED
      BY <1>1, <1>2, <1>8, <2>1 DEF Sorted
  <1> QED
    BY <1>1, <1>4, <1>5, <1>6, <1>7, <1>8

-----------------------------------------------------------------------------
\* The records.

LEMMA RecordsAre ==
  ASSUME NEW p, Placed(p), Sorted(p), NEW D, NEW f, f = [x \in D |-> f[x]],
         D = {KeyAt(p, i) : i \in Slots(p)},
         \A i \in Slots(p) : f[KeyAt(p, i)] = PayloadAt(p, i)
  PROVE  Records(p) = f
  <1>1. \A i \in Slots(p), j \in Slots(p) : KeyAt(p, i) = KeyAt(p, j) => i = j
    BY SortedFacts DEF Sorted
  <1> DEFINE slot(x) == CHOOSE i \in Slots(p) : KeyAt(p, i) = x
  <1>2. \A x \in D : slot(x) \in Slots(p) /\ KeyAt(p, slot(x)) = x
    OBVIOUS
  <1>3. Records(p) = [x \in D |-> PayloadAt(p, slot(x))]
    BY DEF Records
  <1> HIDE DEF slot
  <1>4. \A x \in D : f[x] = PayloadAt(p, slot(x))
    BY <1>2
  <1> QED
    BY <1>3, <1>4

LEMMA RecordsFacts ==
  ASSUME NEW p, Placed(p), Sorted(p)
  PROVE  /\ DOMAIN Records(p) = {KeyAt(p, i) : i \in Slots(p)}
         /\ \A i \in Slots(p) : Records(p)[KeyAt(p, i)] = PayloadAt(p, i)
  <1>1. \A i \in Slots(p), j \in Slots(p) : KeyAt(p, i) = KeyAt(p, j) => i = j
    BY SortedFacts DEF Sorted
  <1> DEFINE D == {KeyAt(p, i) : i \in Slots(p)}
             slot(x) == CHOOSE i \in Slots(p) : KeyAt(p, i) = x
  <1>2. \A x \in D : slot(x) \in Slots(p) /\ KeyAt(p, slot(x)) = x
    OBVIOUS
  <1>3. Records(p) = [x \in D |-> PayloadAt(p, slot(x))]
    BY DEF Records
  <1> HIDE DEF slot
  <1>4. \A i \in Slots(p) : KeyAt(p, i) \in D
    OBVIOUS
  <1>5. \A i \in Slots(p) : slot(KeyAt(p, i)) = i
    BY <1>1, <1>2, <1>4
  <1> QED
    BY <1>3, <1>4, <1>5

LEMMA UpdatedRecords ==
  ASSUME NEW p, Placed(p), Sorted(p), NEW q, Placed(q), NEW t \in Slots(p), NEW v,
         Updated(p, q, t, v)
  PROVE  Records(q) = WithRecord(Records(p), KeyAt(p, t), v)
  <1> DEFINE k == KeyAt(p, t)
             f == WithRecord(Records(p), k, v)
             D == DOMAIN Records(p) \union {k}
  <1>1. Sorted(q) /\ Slots(q) = Slots(p) /\ \A i \in Slots(p) : KeyAt(q, i) = KeyAt(p, i)
    BY UpdatedSorted DEF Updated, Slots
  <1>2. f = [x \in D |-> IF x = k THEN v ELSE Records(p)[x]]
    BY DEF WithRecord
  <1>3. D = {KeyAt(q, i) : i \in Slots(q)}
    <2>1. DOMAIN Records(p) = {KeyAt(p, i) : i \in Slots(p)}
      BY RecordsFacts
    <2>2. k \in DOMAIN Records(p)
      BY <2>1
    <2> HIDE DEF k
    <2> QED
      BY <1>1, <2>1, <2>2
  <1>4. ASSUME NEW i \in Slots(q) PROVE f[KeyAt(q, i)] = PayloadAt(q, i)
    <2>1. KeyAt(p, i) = k <=> i = t
      BY <1>1, SortedFacts DEF Sorted
    <2>2. Records(p)[KeyAt(p, i)] = PayloadAt(p, i)
      BY <1>1, RecordsFacts
    <2>3. KeyAt(p, i) \in D
      BY <1>1, <1>3
    <2>4. PayloadAt(q, i) = IF i = t THEN v ELSE PayloadAt(p, i)
      BY <1>1 DEF Updated
    <2> HIDE DEF k, D
    <2> QED
      BY <1>1, <1>2, <2>1, <2>2, <2>3, <2>4
  <1> HIDE DEF f, D
  <1>5. f = [x \in D |-> f[x]]
    BY <1>2
  <1>6. Records(q) = f
    BY <1>1, <1>3, <1>4, <1>5, RecordsAre
  <1> QED
    BY <1>6 DEF f

LEMMA InsertedRecords ==
  ASSUME NEW p, Placed(p), Sorted(p), NEW q, Placed(q), Sorted(q),
         NEW t \in 1..Len(p.slots) + 1, NEW k, NEW v, Inserted(p, q, t, k, v),
         \A i \in Slots(p) : KeyAt(p, i) # k
  PROVE  Records(q) = WithRecord(Records(p), k, v)
  <1> DEFINE f == WithRecord(Records(p), k, v)
             D == DOMAIN Records(p) \union {k}
             n == Len(p.slots)
  <1>1. Slots(p) = 1..n /\ n \in Nat /\ Slots(q) = 1..n+1 /\ t \in 1..n+1
    BY SortedFacts DEF Inserted, Slots
  <1>2. f = [x \in D |-> IF x = k THEN v ELSE Records(p)[x]]
    BY DEF WithRecord
  <1>3. ASSUME NEW i \in 1..n+1
        PROVE  \/ i = t /\ KeyAt(q, i) = k /\ PayloadAt(q, i) = v
               \/ \E j \in 1..n : KeyAt(q, i) = KeyAt(p, j) /\ PayloadAt(q, i) = PayloadAt(p, j)
    <2>1. CASE i < t
      <3>1. i \in 1..t-1 /\ i \in 1..n
        BY <1>1, <2>1
      <3> QED
        BY <3>1 DEF Inserted
    <2>2. CASE i = t
      BY <2>2 DEF Inserted
    <2>3. CASE i > t
      <3>1. i - 1 \in t..n /\ i - 1 \in 1..n /\ i - 1 + 1 = i
        BY <1>1, <2>3
      <3> QED
        BY <3>1 DEF Inserted
    <2> QED
      BY <1>1, <2>1, <2>2, <2>3
  <1>4. \A j \in 1..n : \E i \in 1..n+1 : KeyAt(q, i) = KeyAt(p, j)
    <2> TAKE j \in 1..n
    <2>1. CASE j < t
      <3>1. j \in 1..t-1 /\ j \in 1..n+1
        BY <1>1, <2>1
      <3> QED
        BY <3>1 DEF Inserted
    <2>2. CASE ~(j < t)
      <3>1. j \in t..n /\ j + 1 \in 1..n+1
        BY <1>1, <2>2
      <3> QED
        BY <3>1 DEF Inserted
    <2> QED
      BY <2>1, <2>2
  <1>5. t \in 1..n+1 /\ KeyAt(q, t) = k
    BY <1>1 DEF Inserted
  <1> HIDE DEF n
  <1>6. D = {KeyAt(q, i) : i \in Slots(q)}
    <2>1. DOMAIN Records(p) = {KeyAt(p, i) : i \in 1..n}
      BY <1>1, RecordsFacts
    <2>2. \A i \in 1..n+1 : KeyAt(q, i) \in D
      BY <1>3, <2>1
    <2>3. \A x \in D : \E i \in 1..n+1 : x = KeyAt(q, i)
      BY <1>4, <1>5, <2>1
    <2> HIDE DEF D
    <2> QED
      BY <1>1, <2>2, <2>3
  <1>7. ASSUME NEW i \in Slots(q) PROVE f[KeyAt(q, i)] = PayloadAt(q, i)
    <2>1. KeyAt(q, i) \in D
      BY <1>6
    <2> HIDE DEF D
    <2>2. CASE i = t /\ KeyAt(q, i) = k /\ PayloadAt(q, i) = v
      BY <1>2, <2>1, <2>2
    <2>3. CASE \E j \in 1..n : KeyAt(q, i) = KeyAt(p, j) /\ PayloadAt(q, i) = PayloadAt(p, j)
      <3>1. PICK j \in 1..n : KeyAt(q, i) = KeyAt(p, j) /\ PayloadAt(q, i) = PayloadAt(p, j)
        BY <2>3
      <3>2. Records(p)[KeyAt(p, j)] = PayloadAt(p, j) /\ KeyAt(p, j) # k
        BY <1>1, RecordsFacts
      <3> QED
        BY <1>2, <2>1, <3>1, <3>2
    <2> QED
      BY <1>1, <1>3, <2>2, <2>3
  <1> HIDE DEF f, D
  <1>8. f = [x \in D |-> f[x]]
    BY <1>2
  <1>9. Records(q) = f
    BY <1>6, <1>7, <1>8, RecordsAre
  <1> QED
    BY <1>9 DEF f

LEMMA RemovedRecords ==
  ASSUME NEW p, Placed(p), Sorted(p), NEW q, Placed(q), NEW t \in Slots(p), Removed(p, q, t)
  PROVE  Records(q) = Restrict(Records(p), DOMAIN Records(p) \ {KeyAt(p, t)})
  <1> DEFINE n == Len(p.slots)
             k == KeyAt(p, t)
             D == DOMAIN Records(p) \ {k}
             f == Restrict(Records(p), D)
             old(i) == IF i < t THEN i ELSE i + 1
  <1>1. Sorted(q) /\ Slots(p) = 1..n /\ n \in Nat /\ t \in 1..n /\ Slots(q) = 1..n-1
    BY RemovedSorted, SortedFacts DEF Removed, Slots
  <1>2. \A i \in 1..n-1 : /\ old(i) \in (1..n) \ {t}
                          /\ KeyAt(q, i) = KeyAt(p, old(i)) /\ PayloadAt(q, i) = PayloadAt(p, old(i))
    BY <1>1 DEF Removed
  <1>3. \A j \in (1..n) \ {t} : \E i \in 1..n-1 : old(i) = j
    <2> TAKE j \in (1..n) \ {t}
    <2>1. CASE j < t
      BY <1>1, <2>1
    <2>2. CASE ~(j < t)
      <3>1. j - 1 \in 1..n-1 /\ ~(j - 1 < t) /\ j - 1 + 1 = j
        BY <1>1, <2>2
      <3> QED
        BY <3>1
    <2> QED
      BY <2>1, <2>2
  <1>4. \A j \in (1..n) \ {t} : KeyAt(p, j) # k
    BY <1>1, SortedFacts DEF Sorted
  <1>5. f = [x \in D |-> Records(p)[x]]
    BY DEF Restrict
  <1>6. /\ DOMAIN Records(p) = {KeyAt(p, i) : i \in 1..n}
        /\ \A i \in 1..n : Records(p)[KeyAt(p, i)] = PayloadAt(p, i)
    BY <1>1, RecordsFacts
  <1>7. D = {KeyAt(p, j) : j \in (1..n) \ {t}}
    BY <1>1, <1>4, <1>6
  <1> HIDE DEF n, k, D, f, old
  <1>8. D = {KeyAt(q, i) : i \in Slots(q)}
    <2>1. \A i \in 1..n-1 : KeyAt(q, i) \in D
      BY <1>2, <1>7
    <2>2. \A x \in D : \E i \in 1..n-1 : x = KeyAt(q, i)
      BY <1>2, <1>3, <1>7
    <2> QED
      BY <1>1, <2>1, <2>2
  <1>9. \A i \in Slots(q) : f[KeyAt(q, i)] = PayloadAt(q, i)
    BY <1>1, <1>2, <1>5, <1>6, <1>7
  <1>10. f = [x \in D |-> f[x]]
    BY <1>5
  <1>11. Records(q) = f
    BY <1>1, <1>8, <1>9, <1>10, RecordsAre
  <1> QED
    BY <1>11 DEF f, D, k

LEMMA SameRecords ==
  ASSUME NEW p, Placed(p), Sorted(p), NEW q, Placed(q), Same(p, q)
  PROVE  Records(q) = Records(p)
  <1>1. Sorted(q) /\ Slots(q) = Slots(p)
    BY SameSorted DEF Same, Slots
  <1>2. Records(p) = [x \in DOMAIN Records(p) |-> Records(p)[x]]
    BY DEF Records
  <1>3. DOMAIN Records(p) = {KeyAt(q, i) : i \in Slots(q)}
    <2>1. DOMAIN Records(p) = {KeyAt(p, i) : i \in Slots(p)}
      BY RecordsFacts
    <2>2. \A i \in Slots(p) : KeyAt(q, i) = KeyAt(p, i)
      BY DEF Same
    <2> QED
      BY <1>1, <2>1, <2>2
  <1>4. \A i \in Slots(q) : Records(p)[KeyAt(q, i)] = PayloadAt(q, i)
    BY <1>1, RecordsFacts DEF Same
  <1> QED
    BY <1>1, <1>2, <1>3, <1>4, RecordsAre

-----------------------------------------------------------------------------
\* The calls.

LEMMA OverwrittenSound ==
  ASSUME NEW p, Sound(p), NEW t \in Slots(p), NEW k \in Key, NEW v \in Payload,
         KeyAt(p, t) = k, CellSize(v) <= SizeAt(p, t)
  PROVE  LET q == Overwritten(p, t, k, v)
         IN  Sound(q) /\ Records(q) = WithRecord(Records(p), k, v)
  <1> DEFINE q == Overwritten(p, t, k, v)
  <1>1. Placed(p) /\ Intact(p) /\ Sorted(p) /\ LiveFits(p)
    BY DEF Sound
  <1>2. Placed(q) /\ Intact(q) /\ q.content = p.content /\ Updated(p, q, t, v)
    BY <1>1, OverwrittenWell
  <1> HIDE DEF q
  <1>3. Sorted(q) /\ Records(q) = WithRecord(Records(p), k, v)
    BY <1>1, <1>2, UpdatedSorted, UpdatedRecords
  <1>4. LiveFits(q)
    <2>1. Used(q)[Len(q.slots)] = Used(p)[Len(p.slots)] + CellSize(v) - SizeAt(p, t)
      BY <1>1, <1>2, UpdatedUsed
    <2>2. /\ Used(p)[Len(p.slots)] \in Nat /\ CellSize(v) \in Nat /\ SizeAt(p, t) \in Nat
          /\ p.content \in Nat /\ PageSize \in Nat
      BY <1>1, UsedInNat, SlotFacts, PageFacts
    <2> QED
      BY <1>1, <1>2, <2>1, <2>2 DEF LiveFits
  <1> QED
    BY <1>2, <1>3, <1>4 DEF Sound, q

LEMMA RelocatedSound ==
  ASSUME NEW p, Sound(p), NEW t \in Slots(p), NEW k \in Key, NEW v \in Payload,
         KeyAt(p, t) = k, HasRoom(p, CellSize(v))
  PROVE  LET r == Relocated(p, t, k, v)
         IN  Sound(r) /\ Records(r) = WithRecord(Records(p), k, v)
  <1> DEFINE q == MadeRoom(p, CellSize(v))
             r == Relocated(p, t, k, v)
  <1>1. Placed(p) /\ Intact(p) /\ Sorted(p) /\ LiveFits(p)
    BY DEF Sound
  <1>2. Placed(r) /\ Intact(r) /\ Updated(p, r, t, v)
    BY <1>1, RelocatedWell
  <1>3. Placed(q) /\ LiveFits(q) /\ Same(p, q) /\ CellSize(v) \in Nat
    BY <1>1, PageFacts, MadeRoomWell
  <1>4. r.content = q.content - CellSize(v)
    BY DEF Relocated, Allocated
  <1> HIDE DEF q, r
  <1>5. Sorted(r) /\ Records(r) = WithRecord(Records(p), k, v)
    BY <1>1, <1>2, UpdatedSorted, UpdatedRecords
  <1>6. LiveFits(r)
    <2>1. Used(r)[Len(r.slots)] = Used(p)[Len(p.slots)] + CellSize(v) - SizeAt(p, t)
      BY <1>1, <1>2, UpdatedUsed
    <2>2. /\ Used(p)[Len(p.slots)] \in Nat /\ SizeAt(p, t) \in Nat
          /\ q.content \in Nat /\ PageSize \in Nat
      BY <1>1, <1>3, UsedInNat, SlotFacts, PageFacts
    <2>3. Used(q)[Len(q.slots)] = Used(p)[Len(p.slots)]
      <3>1. Len(p.slots) \in 0..Len(p.slots) /\ Len(q.slots) = Len(p.slots)
        BY <1>1, <1>3, UsedInNat DEF Same
      <3> QED
        BY <1>1, <1>3, <3>1, SameUsed
    <2> QED
      BY <1>3, <1>4, <2>1, <2>2, <2>3 DEF LiveFits
  <1> QED
    BY <1>2, <1>5, <1>6 DEF Sound, r

LEMMA AddedSound ==
  ASSUME NEW p, Sound(p), NEW t \in 1..Len(p.slots) + 1, NEW k \in Key, NEW v \in Payload,
         HasRoom(p, CellSize(v) + PointerBytes),
         \A i \in Slots(p) : IF i < t THEN KeyAt(p, i) < k ELSE k < KeyAt(p, i)
  PROVE  LET r == Added(p, t, k, v)
         IN  Sound(r) /\ Records(r) = WithRecord(Records(p), k, v)
  <1> DEFINE q == MadeRoom(p, CellSize(v) + PointerBytes)
             r == Added(p, t, k, v)
  <1>1. Placed(p) /\ Intact(p) /\ Sorted(p) /\ LiveFits(p)
    BY DEF Sound
  <1>2. Placed(r) /\ Intact(r) /\ Inserted(p, r, t, k, v)
    BY <1>1, AddedWell
  <1>3. Placed(q) /\ LiveFits(q) /\ Same(p, q) /\ CellSize(v) \in Nat
    <2>1. CellSize(v) \in Nat /\ CellSize(v) + PointerBytes \in Nat
      BY PageFacts DEF PointerBytes
    <2> QED
      BY <1>1, <2>1, MadeRoomWell
  <1>4. r.content = q.content - CellSize(v)
    BY DEF Added, Allocated
  <1> HIDE DEF q, r
  <1>5. Sorted(r)
    BY <1>1, <1>2, InsertedSorted
  <1>6. Records(r) = WithRecord(Records(p), k, v)
    <2>1. \A i \in Slots(p) : KeyAt(p, i) # k
      BY <1>1, SortedFacts, PageFacts
    <2> QED
      BY <1>1, <1>2, <1>5, <2>1, InsertedRecords
  <1>7. LiveFits(r)
    <2>1. Used(r)[Len(r.slots)] = Used(p)[Len(p.slots)] + CellSize(v)
      BY <1>1, <1>2, InsertedUsed
    <2>2. Used(p)[Len(p.slots)] \in Nat /\ q.content \in Nat /\ PageSize \in Nat
      BY <1>1, <1>3, UsedInNat
    <2>3. Used(q)[Len(q.slots)] = Used(p)[Len(p.slots)]
      <3>1. Len(p.slots) \in 0..Len(p.slots) /\ Len(q.slots) = Len(p.slots)
        BY <1>1, <1>3, UsedInNat DEF Same
      <3> QED
        BY <1>1, <1>3, <3>1, SameUsed
    <2> QED
      BY <1>3, <1>4, <2>1, <2>2, <2>3 DEF LiveFits
  <1> QED
    BY <1>2, <1>5, <1>6, <1>7 DEF Sound, r

LEMMA StoredSound ==
  ASSUME NEW p, Sound(p), NEW k \in Key, NEW v \in Payload, Accepts(p, k, v)
  PROVE  /\ Sound(Stored(p, k, v))
         /\ Records(Stored(p, k, v)) = WithRecord(Records(p), k, v)
  <1> DEFINE at == FindLeafCell(p, k)
  <1>1. Located(p, k, at)
    BY FindFacts DEF Sound
  <1>2. FitsInPlace(p, at, v) \/ HasRoom(p, Needed(at, v))
    BY DEF Accepts
  <1>3. Stored(p, k, v) = IF FitsInPlace(p, at, v) THEN Overwritten(p, at.slot, k, v)
                          ELSE IF at.found THEN Relocated(p, at.slot, k, v)
                          ELSE Added(p, at.slot, k, v)
    BY DEF Stored
  <1> HIDE DEF at
  <1>4. CASE FitsInPlace(p, at, v)
    <2>1. at.slot \in Slots(p) /\ KeyAt(p, at.slot) = k /\ CellSize(v) <= SizeAt(p, at.slot)
      BY <1>1, <1>4 DEF Located, FitsInPlace
    <2> QED
      BY <1>3, <1>4, <2>1, OverwrittenSound
  <1>5. CASE ~FitsInPlace(p, at, v) /\ at.found
    <2>1. at.slot \in Slots(p) /\ KeyAt(p, at.slot) = k
      BY <1>1, <1>5 DEF Located
    <2>2. HasRoom(p, CellSize(v))
      <3>1. Needed(at, v) = CellSize(v)
        BY <1>5, PageFacts DEF Needed
      <3> QED
        BY <1>2, <1>5, <3>1
    <2> QED
      BY <1>3, <1>5, <2>1, <2>2, RelocatedSound
  <1>6. CASE ~FitsInPlace(p, at, v) /\ ~at.found
    <2>1. /\ at.slot \in 1..Len(p.slots) + 1
          /\ \A i \in Slots(p) : IF i < at.slot THEN KeyAt(p, i) < k ELSE k < KeyAt(p, i)
      BY <1>1, <1>6 DEF Located
    <2>2. HasRoom(p, CellSize(v) + PointerBytes)
      <3>1. Needed(at, v) = CellSize(v) + PointerBytes
        BY <1>6 DEF Needed
      <3> QED
        BY <1>2, <1>6, <3>1
    <2> QED
      BY <1>3, <1>6, <2>1, <2>2, AddedSound
  <1> QED
    BY <1>4, <1>5, <1>6

LEMMA DeletedSound ==
  ASSUME NEW p, Sound(p), NEW k \in Key
  PROVE  /\ Sound(Deleted(p, k))
         /\ Records(Deleted(p, k)) = Restrict(Records(p), DOMAIN Records(p) \ {k})
  <1> DEFINE at == FindLeafCell(p, k)
             q == [p EXCEPT !.slots = RemoveAt(@, at.slot)]
  <1>1. Placed(p) /\ Intact(p) /\ Sorted(p) /\ LiveFits(p)
    BY DEF Sound
  <1>2. Located(p, k, at)
    BY <1>1, FindFacts
  <1>3. Deleted(p, k) = IF at.found THEN q ELSE p
    BY DEF Deleted
  <1> HIDE DEF at
  <1>4. CASE at.found
    <2>1. at.slot \in Slots(p) /\ KeyAt(p, at.slot) = k
      BY <1>2, <1>4 DEF Located
    <2>2. Placed(q) /\ Intact(q) /\ q.content = p.content /\ Removed(p, q, at.slot)
      BY <1>1, <2>1, DeletedWell
    <2> HIDE DEF q
    <2>3. Sorted(q) /\ Records(q) = Restrict(Records(p), DOMAIN Records(p) \ {k})
      BY <1>1, <2>1, <2>2, RemovedSorted, RemovedRecords
    <2>4. LiveFits(q)
      <3>1. Used(q)[Len(q.slots)] <= Used(p)[Len(p.slots)]
        BY <1>1, <2>1, <2>2, RemovedUsed
      <3>2. /\ Used(p)[Len(p.slots)] \in Nat /\ Used(q)[Len(q.slots)] \in Nat
            /\ p.content \in Nat /\ PageSize \in Nat
        BY <1>1, <2>2, UsedInNat
      <3> QED
        BY <1>1, <2>2, <3>1, <3>2 DEF LiveFits
    <2> QED
      BY <1>3, <1>4, <2>2, <2>3, <2>4 DEF Sound
  <1>5. CASE ~at.found
    <2>1. k \notin DOMAIN Records(p)
      <3>1. \A i \in Slots(p) : KeyAt(p, i) # k
        BY <1>1, <1>2, <1>5, SortedFacts, PageFacts DEF Located
      <3>2. DOMAIN Records(p) = {KeyAt(p, i) : i \in Slots(p)}
        BY <1>1, RecordsFacts
      <3> QED
        BY <3>1, <3>2
    <2>2. Records(p) = Restrict(Records(p), DOMAIN Records(p) \ {k})
      <3>1. Records(p) = [x \in DOMAIN Records(p) |-> Records(p)[x]]
        BY DEF Records
      <3>2. DOMAIN Records(p) \ {k} = DOMAIN Records(p)
        BY <2>1
      <3> QED
        BY <3>1, <3>2 DEF Restrict
    <2> QED
      BY <1>3, <1>5, <2>2
  <1> QED
    BY <1>4, <1>5

LEMMA DefragmentedSound ==
  ASSUME NEW p, Sound(p)
  PROVE  Sound(Defragmented(p)) /\ Records(Defragmented(p)) = Records(p)
  <1> DEFINE q == Defragmented(p)
  <1>1. Placed(p) /\ Intact(p) /\ Sorted(p) /\ LiveFits(p)
    BY DEF Sound
  <1>2. Placed(q) /\ Intact(q) /\ LiveFits(q) /\ Same(p, q)
    BY <1>1, DefragmentedWell
  <1> HIDE DEF q
  <1>3. Sorted(q) /\ Records(q) = Records(p)
    BY <1>1, <1>2, SameSorted, SameRecords
  <1> QED
    BY <1>2, <1>3 DEF Sound, q

-----------------------------------------------------------------------------
\* The specification.

LEMMA SoundInit == Init => Sound(page)
  <1> SUFFICES ASSUME Init PROVE Sound(page)
    OBVIOUS
  <1>1. /\ page = [slots |-> <<>>, content |-> PageSize, cells |-> <<>>]
        /\ page.slots = <<>> /\ page.content = PageSize /\ page.cells = <<>>
    BY DEF Init
  <1>2. Len(page.slots) = 0 /\ Slots(page) = {}
    BY <1>1 DEF Slots
  <1>3. PageSize \in Nat /\ HeaderSize <= PageSize /\ HeaderSize = 20
    BY PageFacts, SpaceAssumption DEF PageSize
  <1>4. Placed(page)
    <2>1. DOMAIN page.cells = {}
      BY <1>1
    <2> QED
      BY <1>1, <1>2, <1>3, <2>1 DEF Placed
  <1>5. Intact(page) /\ Sorted(page)
    <2>1. PointersEnd(page) = HeaderSize
      BY <1>2, <1>3 DEF PointersEnd, PointerBytes
    <2> QED
      BY <1>1, <1>2, <1>3, <2>1 DEF Intact, Sorted
  <1>6. LiveFits(page)
    <2>1. Used(page)[0] = 0
      BY <1>4, UsedFacts
    <2> QED
      BY <1>1, <1>2, <1>3, <2>1 DEF LiveFits
  <1> QED
    BY <1>4, <1>5, <1>6 DEF Sound

LEMMA SoundNext == Sound(page) /\ [Next]_page => Sound(page)'
  <1> SUFFICES ASSUME Sound(page), [Next]_page PROVE Sound(page')
    OBVIOUS
  <1>1. ASSUME NEW k \in Key, NEW v \in Payload, InsertOrUpdateLeafCell(k, v)
        PROVE  Sound(page')
    BY <1>1, StoredSound DEF InsertOrUpdateLeafCell
  <1>2. ASSUME NEW k \in Key, NEW v \in Payload, Overflow(k, v)
        PROVE  Sound(page')
    BY <1>2 DEF Overflow
  <1>3. ASSUME NEW k \in Key, DeleteLeafCell(k)
        PROVE  Sound(page')
    BY <1>3, DeletedSound DEF DeleteLeafCell
  <1>4. CASE Defragment
    BY <1>4, DefragmentedSound DEF Defragment
  <1>5. CASE UNCHANGED page
    BY <1>5
  <1> QED
    BY <1>1, <1>2, <1>3, <1>4, <1>5 DEF Next

\* The invariant holds always.
THEOREM PageIsSound == Spec => []Sound(page)
  BY SoundInit, SoundNext, PTL DEF Spec

\* A leaf page is always of its type: no pointer, cell_content_offset or cell
\* leaves the page (page.rs:341-414, 249-269, 192-245).
THEOREM PageTypeCorrect == Spec => []TypeOK
  <1>1. Sound(page) => TypeOK
    BY DEF Sound, Placed, TypeOK
  <1> QED
    BY <1>1, PageIsSound, PTL

\* No insert, growing or shrinking update, deletion or compaction ever writes
\* over a live cell or over a pointer in use (page.rs:192-245, 341-414).
THEOREM CellsStayIntact == Spec => []CellsAreIntact
  <1>1. Sound(page) => CellsAreIntact
    BY DEF Sound, CellsAreIntact
  <1> QED
    BY <1>1, PageIsSound, PTL

\* The pointers are always in the strict order of the keys, which the binary
\* search takes for granted (page.rs:314-337, 381-413).
THEOREM KeysStaySorted == Spec => []KeysAreSorted
  <1>1. Sound(page) => KeysAreSorted
    BY DEF Sound, KeysAreSorted
  <1> QED
    BY <1>1, PageIsSound, PTL

\* The binary search of find_leaf_cell is exact on every page the calls can
\* make: it finds a key exactly if the page has it, and otherwise the slot
\* where the key belongs (page.rs:314-337).
THEOREM FindStaysExact == Spec => []FindIsExact
  <1>1. Sound(page) => FindIsExact
    <2> SUFFICES ASSUME Sound(page), NEW k \in Key
                 PROVE  LET at == FindLeafCell(page, k)
                        IN  /\ at.found <=> k \in DOMAIN Records(page)
                            /\ at.slot = Cardinality({i \in Slots(page) : KeyAt(page, i) < k}) + 1
      BY DEF FindIsExact
    <2> DEFINE at == FindLeafCell(page, k)
               smaller == {i \in Slots(page) : KeyAt(page, i) < k}
    <2>1. /\ Placed(page) /\ Sorted(page) /\ Located(page, k, at)
      BY FindFacts DEF Sound
    <2> HIDE DEF at
    <2>2. /\ Slots(page) = 1..Len(page.slots) /\ Len(page.slots) \in Nat
          /\ k \in Int /\ \A i \in Slots(page) : KeyAt(page, i) \in Int
      BY <2>1, SortedFacts, PageFacts
    <2>3. DOMAIN Records(page) = {KeyAt(page, i) : i \in Slots(page)}
      BY <2>1, RecordsFacts
    <2>4. at.found <=> k \in DOMAIN Records(page)
      <3>1. CASE at.found
        BY <2>1, <2>3, <3>1 DEF Located
      <3>2. CASE ~at.found
        BY <2>1, <2>2, <2>3, <3>2 DEF Located
      <3> QED
        BY <3>1, <3>2
    <2>5. at.slot \in Nat /\ 1 <= at.slot /\ smaller = 1..at.slot - 1
      <3>1. CASE at.found
        <4>1. at.slot \in Slots(page) /\ KeyAt(page, at.slot) = k
          BY <2>1, <3>1 DEF Located
        <4>2. \A i \in Slots(page) : KeyAt(page, i) < k <=> i < at.slot
          BY <2>1, <2>2, <4>1 DEF Sorted
        <4> QED
          BY <2>2, <4>1, <4>2
      <3>2. CASE ~at.found
        BY <2>1, <2>2, <3>2 DEF Located
      <3> QED
        BY <3>1, <3>2
    <2> HIDE DEF smaller
    <2>6. Cardinality(smaller) = at.slot - 1
      <3>1. 1 \in Int /\ at.slot - 1 \in Int
        BY <2>5
      <3>2. Cardinality(1..at.slot - 1) = IF 1 > at.slot - 1 THEN 0 ELSE at.slot - 1 - 1 + 1
        BY <3>1, FS_Interval
      <3> QED
        BY <2>5, <3>2
    <2>7. at.slot = Cardinality(smaller) + 1
      BY <2>5, <2>6
    <2> QED
      BY <2>4, <2>7 DEF at, smaller
  <1> QED
    BY <1>1, PageIsSound, PTL

\* Whatever bytes the calls move, the page is the map of the records stored
\* last: an insert or update changes one key, a deletion takes one away,
\* compaction changes nothing (page.rs:192-245, 249-269, 341-414).
THEOREM PageActsAsMap == Spec => []ActsAsMap
  <1>1. Sound(page) => ActsAsMap
    BY StoredSound, DeletedSound, DefragmentedSound DEF ActsAsMap
  <1> QED
    BY <1>1, PageIsSound, PTL

-----------------------------------------------------------------------------
\* The space check of the page and that of the leaf it stores.

\* The pointers and the live cells take the bytes of the records.
LEMMA BytesOfRecords ==
  ASSUME NEW p, Placed(p), Sorted(p)
  PROVE  /\ RecordMap(Records(p))
         /\ Bytes(Records(p)) = PointerBytes * Len(p.slots) + Used(p)[Len(p.slots)]
  <1> DEFINE n == Len(p.slots)
             keys(m) == {KeyAt(p, i) : i \in 1..m}
             F(m) == [x \in keys(m) |-> Records(p)[x]]
             S == {m \in Nat : m <= n =>
                     RecordMap(F(m)) /\ Bytes(F(m)) = PointerBytes * m + Used(p)[m]}
  <1>1. /\ n \in Nat /\ Slots(p) = 1..n /\ Used(p)[0] = 0
        /\ \A i \in 1..n : PayloadAt(p, i) \in Payload
        /\ \A i, j \in 1..n : KeyAt(p, i) = KeyAt(p, j) => i = j
    <2>1. n \in Nat /\ Slots(p) = 1..n /\ Used(p)[0] = 0 /\ \A i \in 1..n : PayloadAt(p, i) \in Payload
      BY SlotFacts, UsedInNat
    <2>2. \A i, j \in 1..n : KeyAt(p, i) = KeyAt(p, j) => i = j
      BY <2>1, SortedFacts DEF Sorted
    <2> QED
      BY <2>1, <2>2
  <1>2. /\ DOMAIN Records(p) = keys(n)
        /\ \A i \in 1..n : Records(p)[KeyAt(p, i)] = PayloadAt(p, i)
    BY <1>1, RecordsFacts
  <1>3. 0 \in S
    <2>1. keys(0) = {}
      OBVIOUS
    <2>2. DOMAIN F(0) = {} /\ F(0) \in [{} -> Payload]
      BY <2>1
    <2> HIDE DEF F
    <2>3. Bytes(F(0)) = 0
      BY <2>2, BytesNone
    <2>4. RecordMap(F(0))
      BY <2>2, FS_EmptySet DEF RecordMap
    <2> QED
      BY <1>1, <2>3, <2>4, SizeFacts
  <1>4. ASSUME NEW m \in Nat, m \in S PROVE m + 1 \in S
    <2> SUFFICES ASSUME m + 1 <= n
                 PROVE  RecordMap(F(m + 1)) /\ Bytes(F(m + 1)) = PointerBytes * (m + 1) + Used(p)[m + 1]
      BY <1>4
    <2> DEFINE k == KeyAt(p, m + 1)
               v == PayloadAt(p, m + 1)
    <2>1. m + 1 \in 1..n /\ m <= n /\ v \in Payload
      BY <1>1
    <2>2. RecordMap(F(m)) /\ Bytes(F(m)) = PointerBytes * m + Used(p)[m]
      BY <1>4, <2>1
    <2>3. keys(m + 1) = keys(m) \union {k}
      <3>1. \A i \in 1..m + 1 : i \in 1..m \/ i = m + 1
        OBVIOUS
      <3>2. \A i \in 1..m : i \in 1..m + 1
        OBVIOUS
      <3> QED
        BY <3>1, <3>2
    <2>4. k \notin keys(m)
      <3>1. \A i \in 1..m : i \in 1..n /\ i # m + 1
        BY <2>1
      <3> QED
        BY <1>1, <2>1, <3>1
    <2>5. Records(p)[k] = v
      BY <1>2, <2>1
    <2> HIDE DEF k, v, keys
    <2>6. F(m + 1) = WithRecord(F(m), k, v)
      <3>1. DOMAIN F(m) = keys(m) /\ \A x \in keys(m) : F(m)[x] = Records(p)[x]
        OBVIOUS
      <3>2. WithRecord(F(m), k, v) = [x \in keys(m) \union {k} |-> IF x = k THEN v ELSE F(m)[x]]
        BY <3>1 DEF WithRecord
      <3>3. F(m + 1) = [x \in keys(m) \union {k} |-> Records(p)[x]]
        BY <2>3
      <3> HIDE DEF F
      <3>4. \A x \in keys(m) \union {k} : Records(p)[x] = IF x = k THEN v ELSE F(m)[x]
        BY <2>4, <2>5, <3>1
      <3> QED
        BY <3>2, <3>3, <3>4
    <2>7. DOMAIN F(m) = keys(m)
      OBVIOUS
    <2> HIDE DEF F
    <2>8. /\ RecordMap(F(m + 1))
          /\ Bytes(F(m + 1)) = Bytes(F(m)) + PointerBytes + CellSize(v)
      BY <2>1, <2>2, <2>4, <2>6, <2>7, BytesWithRecord
    <2>9. /\ Used(p)[m + 1] = Used(p)[m] + CellSize(v)
          /\ Used(p)[m] \in Nat /\ Used(p)[m + 1] \in Nat
      <3>1. m + 1 \in Slots(p) /\ m + 1 - 1 = m /\ SizeAt(p, m + 1) = CellSize(v)
        BY <1>1, <2>1 DEF SizeAt, v
      <3> QED
        BY <3>1, UsedStep
    <2>10. PointerBytes = 2 /\ CellSize(v) \in Nat
      BY <2>1, SizeFacts
    <2> QED
      BY <2>2, <2>8, <2>9, <2>10
  <1>5. S = Nat
    <2> HIDE DEF S
    <2>1. S \in SUBSET Nat
      BY DEF S
    <2> QED
      BY <1>3, <1>4, <2>1, SetInduction
  <1>6. RecordMap(F(n)) /\ Bytes(F(n)) = PointerBytes * n + Used(p)[n]
    <2>1. n \in S /\ n <= n
      <3> HIDE DEF S, F, n
      <3> QED
        BY <1>1, <1>5
    <2> HIDE DEF F, n
    <2> QED
      BY <2>1
  <1>7. F(n) = Records(p)
    <2>1. Records(p) = [x \in DOMAIN Records(p) |-> Records(p)[x]]
      BY DEF Records
    <2> QED
      BY <1>2, <2>1
  <1> HIDE DEF F
  <1> QED
    BY <1>6, <1>7

\* The free bytes of the page are those its records leave.
LEMMA RoomFacts ==
  ASSUME NEW p, Sound(p), NEW m \in Nat, m > 0
  PROVE  HasRoom(p, m) <=> Bytes(Records(p)) + m <= PageSpace
  <1> DEFINE n == Len(p.slots)
             u == Used(p)[n]
  <1>1. /\ n \in Nat /\ u \in Nat /\ p.content \in Nat /\ PageSize \in Nat
    BY UsedInNat DEF Sound
  <1>2. Bytes(Records(p)) = 2 * n + u
    BY BytesOfRecords, SizeFacts DEF Sound
  <1>3. u <= PageSize - p.content /\ PageSize = 20 + PageSpace /\ PageSpace \in Nat
    BY PageFacts DEF Sound, LiveFits, PageSize
  <1>4. PointersEnd(p) = 20 + 2 * n
    BY PageFacts, SizeFacts DEF PointersEnd
  <1> HIDE DEF n, u
  <1>5. FreeSpace(p) >= m => 20 + 2 * n + m <= p.content
    BY <1>1, <1>4 DEF FreeSpace
  <1>6. TotalFreeSpace(p) >= m <=> 20 + 2 * n + u + m <= PageSize
    <2>1. TotalFreeSpace(p) = IF PointersEnd(p) + u <= PageSize THEN PageSize - (PointersEnd(p) + u) ELSE 0
      BY DEF TotalFreeSpace, n, u
    <2> QED
      BY <1>1, <1>4, <2>1
  <1> QED
    BY <1>1, <1>2, <1>3, <1>5, <1>6 DEF HasRoom

LEMMA AcceptsFits ==
  ASSUME NEW p, Sound(p), NEW k \in Key, NEW v \in Payload
  PROVE  Accepts(p, k, v) <=> Fits(Records(p), k, v)
  <1> DEFINE at == FindLeafCell(p, k)
             c == Records(p)
  <1>1. Placed(p) /\ Sorted(p) /\ Located(p, k, at)
    BY FindFacts DEF Sound
  <1>2. Accepts(p, k, v) <=> (FitsInPlace(p, at, v) \/ HasRoom(p, Needed(at, v)))
    BY DEF Accepts
  <1> HIDE DEF at
  <1>3. /\ DOMAIN c = {KeyAt(p, i) : i \in Slots(p)}
        /\ \A i \in Slots(p) : c[KeyAt(p, i)] = PayloadAt(p, i) /\ PayloadAt(p, i) \in Payload
    BY <1>1, RecordsFacts, SlotFacts
  <1>4. /\ Slots(p) = 1..Len(p.slots) /\ Len(p.slots) \in Nat
        /\ k \in Int /\ \A i \in Slots(p) : KeyAt(p, i) \in Int
    BY <1>1, SortedFacts, PageFacts
  <1>5. \A m \in Nat : m > 0 => (HasRoom(p, m) <=> Bytes(c) + m <= PageSpace)
    BY RoomFacts
  <1>6. Bytes(c) \in Nat
    BY <1>1, BytesOfRecords, BytesInNat
  <1> HIDE DEF c
  <1>7. CASE at.found
    <2>1. at.slot \in Slots(p) /\ KeyAt(p, at.slot) = k
      BY <1>1, <1>7 DEF Located
    <2>2. k \in DOMAIN c /\ c[k] = PayloadAt(p, at.slot) /\ c[k] \in Payload
      BY <1>3, <2>1
    <2>3. Length[v] \in Nat /\ Length[c[k]] \in Nat
          /\ CellSize(v) = 12 + Length[v] /\ CellSize(c[k]) = 12 + Length[c[k]]
      BY <2>2, SizeFacts
    <2>4. FitsInPlace(p, at, v) <=> Length[v] <= Length[c[k]]
      BY <1>7, <2>2, <2>3 DEF FitsInPlace, SizeAt
    <2>5. Needed(at, v) = CellSize(v)
      BY <1>7, <2>3 DEF Needed
    <2>6. HasRoom(p, CellSize(v)) <=> Bytes(c) + CellSize(v) <= PageSpace
      BY <1>5, <2>3
    <2>7. Fits(c, k, v) <=> (Length[v] <= Length[c[k]] \/ Bytes(c) + CellSize(v) <= PageSpace)
      BY <2>2 DEF Fits
    <2> QED
      BY <1>2, <2>4, <2>5, <2>6, <2>7 DEF c
  <1>8. CASE ~at.found
    <2>1. \A i \in Slots(p) : IF i < at.slot THEN KeyAt(p, i) < k ELSE k < KeyAt(p, i)
      BY <1>1, <1>8 DEF Located
    <2>2. k \notin DOMAIN c
      BY <1>3, <1>4, <2>1
    <2>3. Length[v] \in Nat /\ CellSize(v) = 12 + Length[v] /\ PointerBytes = 2
      BY SizeFacts
    <2>4. ~FitsInPlace(p, at, v)
      BY <1>8 DEF FitsInPlace
    <2>5. Needed(at, v) = CellSize(v) + PointerBytes
      BY <1>8 DEF Needed
    <2>6. HasRoom(p, CellSize(v) + PointerBytes) <=> Bytes(c) + (CellSize(v) + PointerBytes) <= PageSpace
      BY <1>5, <2>3
    <2>7. Fits(c, k, v) <=> Bytes(c) + PointerBytes + CellSize(v) <= PageSpace
      BY <2>2 DEF Fits
    <2>8. Bytes(c) + (CellSize(v) + PointerBytes) = Bytes(c) + PointerBytes + CellSize(v)
      BY <1>6, <2>3
    <2> QED
      BY <1>2, <2>4, <2>5, <2>6, <2>7, <2>8 DEF c
  <1> QED
    BY <1>1, <1>7, <1>8 DEF Located

\* The page accepts a record exactly if the bytes of its records leave room for
\* it, however scattered the free bytes are (page.rs:341-414, 148-245): no split
\* comes too early, and none too late.
THEOREM PageAcceptsWhatFits == Spec => []AcceptsWhatFits
  <1>1. Sound(page) => AcceptsWhatFits
    BY AcceptsFits DEF AcceptsWhatFits
  <1> QED
    BY <1>1, PageIsSound, PTL

===============================================================================
