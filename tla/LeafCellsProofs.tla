---------------------------- MODULE LeafCellsProofs ----------------------------
(***************************************************************************)
(* The bytes of a leaf as a sum that any record can be taken out of, and   *)
(* what the space check of an insert says of them.                         *)
(***************************************************************************)
EXTENDS LeafCells, FiniteSetTheorems, WellFoundedInduction, TLAPS

-----------------------------------------------------------------------------
\* Induction, on sets of natural numbers.
LEMMA SetInduction ==
  ASSUME NEW S \in SUBSET Nat, 0 \in S, \A n \in Nat : n \in S => n + 1 \in S
  PROVE  S = Nat
  <1> DEFINE D == Nat \ S
  <1> SUFFICES ASSUME D # {} PROVE FALSE
    OBVIOUS
  <1>1. PICK m \in D : \A k \in D : ~(<<k, m>> \in OpToRel(<, Nat))
    BY WFMin, NatLessThanWellFounded
  <1>2. \A k \in D : m <= k
    <2> TAKE k \in D
    <2>1. OpToRel(<, Nat) = {ss \in Nat \X Nat : ss[1] < ss[2]}
      BY DEF OpToRel
    <2>2. k \in Nat /\ m \in Nat /\ <<k, m>> \notin {ss \in Nat \X Nat : ss[1] < ss[2]}
      BY <1>1, <2>1, Zenon
    <2> QED
      BY <2>2
  <1>3. m \in Nat /\ m \notin S
    OBVIOUS
  <1>4. m # 0 /\ m - 1 \in Nat
    BY <1>3
  <1>5. m - 1 \in S
    BY <1>2, <1>4
  <1> QED
    BY <1>3, <1>4, <1>5

-----------------------------------------------------------------------------
\* Sums.

\* The member of a set that is added first, and the others.
Chosen(s) == CHOOSE x \in s : TRUE
Others(s) == s \ {Chosen(s)}

\* g gives for every subset of D the sum of the weights of its members.
SumStep(g, w, s) == IF s = {} THEN 0 ELSE w[Chosen(s)] + g[Others(s)]
Sums(g, w, D) == \A s \in SUBSET D : g[s] = SumStep(g, w, s)
Adds(g, w, D) == g \in [SUBSET D -> Nat] /\ Sums(g, w, D)

Alike(w, u, D, E) == \A x \in D \intersect E : w[x] = u[x]

LEMMA OthersFacts ==
  ASSUME NEW D, IsFiniteSet(D), NEW s \in SUBSET D
  PROVE  /\ IsFiniteSet(s) /\ Cardinality(s) \in Nat
         /\ Cardinality(s) = 0 <=> s = {}
         /\ s # {} => /\ Chosen(s) \in s /\ Others(s) \in SUBSET D
                      /\ Cardinality(Others(s)) = Cardinality(s) - 1
         /\ \A x \in s : s \ {x} \in SUBSET D /\ Cardinality(s \ {x}) = Cardinality(s) - 1
  <1>1. IsFiniteSet(s) /\ Cardinality(s) \in Nat
    BY FS_Subset, FS_CardinalityType
  <1>2. Cardinality(s) = 0 <=> s = {}
    BY <1>1, FS_EmptySet
  <1>3. s # {} => Chosen(s) \in s
    BY DEF Chosen
  <1>4. \A x \in s : s \ {x} \in SUBSET D /\ Cardinality(s \ {x}) = Cardinality(s) - 1
    BY <1>1, FS_RemoveElement
  <1> QED
    BY <1>1, <1>2, <1>3, <1>4 DEF Others

LEMMA AddsExists ==
  ASSUME NEW D, IsFiniteSet(D), NEW w \in [D -> Nat]
  PROVE  \E g : Adds(g, w, D)
  <1> DEFINE S == {m \in Nat : \E g \in [SUBSET D -> Nat] :
                     \A s \in SUBSET D : Cardinality(s) <= m => g[s] = SumStep(g, w, s)}
  <1>1. 0 \in S
    <2> DEFINE g == [s \in SUBSET D |-> 0]
    <2>1. g \in [SUBSET D -> Nat]
      OBVIOUS
    <2>2. ASSUME NEW s \in SUBSET D, Cardinality(s) <= 0 PROVE g[s] = SumStep(g, w, s)
      <3>1. s = {}
        BY <2>2, OthersFacts
      <3> QED
        BY <3>1 DEF SumStep
    <2> HIDE DEF g
    <2> QED
      BY <2>1, <2>2
  <1>2. ASSUME NEW m \in Nat, m \in S PROVE m + 1 \in S
    <2>1. PICK g \in [SUBSET D -> Nat] :
            \A s \in SUBSET D : Cardinality(s) <= m => g[s] = SumStep(g, w, s)
      BY <1>2
    <2> DEFINE h == [s \in SUBSET D |-> SumStep(g, w, s)]
    <2>2. h \in [SUBSET D -> Nat]
      <3>1. ASSUME NEW s \in SUBSET D PROVE SumStep(g, w, s) \in Nat
        BY OthersFacts DEF SumStep
      <3> QED
        BY <3>1
    <2>3. ASSUME NEW s \in SUBSET D, Cardinality(s) <= m + 1 PROVE h[s] = SumStep(h, w, s)
      <3>1. CASE s = {}
        BY <3>1 DEF SumStep
      <3>2. CASE s # {}
        <4>1. Others(s) \in SUBSET D /\ Cardinality(Others(s)) <= m
          BY <2>3, <3>2, OthersFacts
        <4>2. h[Others(s)] = g[Others(s)]
          BY <2>1, <4>1
        <4>3. h[s] = SumStep(g, w, s)
          OBVIOUS
        <4> HIDE DEF h
        <4> QED
          BY <3>2, <4>2, <4>3 DEF SumStep
      <3> QED
        BY <3>1, <3>2
    <2> HIDE DEF h
    <2> QED
      BY <2>2, <2>3
  <1>3. S = Nat
    <2> HIDE DEF S
    <2>1. S \in SUBSET Nat
      BY DEF S
    <2> QED
      BY <1>1, <1>2, <2>1, SetInduction
  <1>4. Cardinality(D) \in Nat
    BY FS_CardinalityType
  <1>5. PICK g \in [SUBSET D -> Nat] :
          \A s \in SUBSET D : Cardinality(s) <= Cardinality(D) => g[s] = SumStep(g, w, s)
    BY <1>3, <1>4
  <1>6. \A s \in SUBSET D : Cardinality(s) <= Cardinality(D)
    BY FS_Subset
  <1> QED
    BY <1>5, <1>6 DEF Adds, Sums

\* The sums of two functions agree where their weights do.
LEMMA AddsAgree ==
  ASSUME NEW D, IsFiniteSet(D), NEW E, NEW g, NEW h, NEW w, NEW u,
         Sums(g, w, D), Sums(h, u, E), Alike(w, u, D, E),
         NEW a \in SUBSET D, a \in SUBSET E
  PROVE  g[a] = h[a]
  <1> DEFINE S == {m \in Nat : \A s \in SUBSET (D \intersect E) : Cardinality(s) = m => g[s] = h[s]}
  <1>1. 0 \in S
    <2>1. ASSUME NEW s \in SUBSET (D \intersect E), Cardinality(s) = 0 PROVE g[s] = h[s]
      <3>1. s \in SUBSET D /\ s \in SUBSET E
        OBVIOUS
      <3>2. s = {}
        BY <2>1, <3>1, OthersFacts
      <3>3. g[s] = SumStep(g, w, s) /\ h[s] = SumStep(h, u, s)
        BY <3>1 DEF Sums
      <3> QED
        BY <3>2, <3>3 DEF SumStep
    <2> QED
      BY <2>1
  <1>2. ASSUME NEW m \in Nat, m \in S PROVE m + 1 \in S
    <2>1. ASSUME NEW s \in SUBSET (D \intersect E), Cardinality(s) = m + 1 PROVE g[s] = h[s]
      <3>1. s \in SUBSET D /\ s \in SUBSET E
        OBVIOUS
      <3>2. /\ s # {} /\ Chosen(s) \in s /\ Others(s) \in SUBSET D
            /\ Cardinality(Others(s)) = m
        BY <2>1, <3>1, OthersFacts
      <3>3. Others(s) \in SUBSET (D \intersect E)
        BY DEF Others
      <3>4. g[Others(s)] = h[Others(s)] /\ w[Chosen(s)] = u[Chosen(s)]
        BY <1>2, <3>2, <3>3 DEF Alike, Others
      <3>5. g[s] = SumStep(g, w, s) /\ h[s] = SumStep(h, u, s)
        BY <3>1 DEF Sums
      <3> QED
        BY <3>2, <3>4, <3>5 DEF SumStep
    <2> QED
      BY <2>1
  <1>3. S = Nat
    <2> HIDE DEF S
    <2>1. S \in SUBSET Nat
      BY DEF S
    <2> QED
      BY <1>1, <1>2, <2>1, SetInduction
  <1>4. Cardinality(a) \in Nat /\ a \in SUBSET (D \intersect E)
    BY OthersFacts
  <1> QED
    BY <1>3, <1>4

\* Any member can be the one that is added first.
LEMMA AddsAny ==
  ASSUME NEW D, IsFiniteSet(D), NEW w \in [D -> Nat], NEW g, Adds(g, w, D),
         NEW a \in SUBSET D, NEW k \in a
  PROVE  g[a] = w[k] + g[a \ {k}]
  <1>1. g \in [SUBSET D -> Nat] /\ \A s \in SUBSET D : g[s] = SumStep(g, w, s)
    BY DEF Adds, Sums
  <1> DEFINE Any(s) == \A x \in s : g[s] = w[x] + g[s \ {x}]
             S == {m \in Nat : \A s \in SUBSET D : Cardinality(s) = m => Any(s)}
  <1>2. 0 \in S
    <2>1. ASSUME NEW s \in SUBSET D, Cardinality(s) = 0 PROVE Any(s)
      <3>1. s = {}
        BY <2>1, OthersFacts
      <3> QED
        BY <3>1
    <2> HIDE DEF Any
    <2> QED
      BY <2>1
  <1>3. ASSUME NEW m \in Nat, m \in S PROVE m + 1 \in S
    <2>1. ASSUME NEW s \in SUBSET D, Cardinality(s) = m + 1, NEW x \in s
          PROVE  g[s] = w[x] + g[s \ {x}]
      <3> DEFINE c == Chosen(s)
      <3>1. c \in s /\ Others(s) = s \ {c} /\ g[s] = w[c] + g[s \ {c}]
        BY <1>1, OthersFacts DEF SumStep, Others
      <3>2. /\ s \ {c} \in SUBSET D /\ Cardinality(s \ {c}) = m
            /\ s \ {x} \in SUBSET D /\ Cardinality(s \ {x}) = m
        BY <2>1, <3>1, OthersFacts
      <3>3. Any(s \ {c}) /\ Any(s \ {x})
        <4> HIDE DEF Any, c
        <4> QED
          BY <1>3, <3>2
      <3>4. CASE x = c
        BY <3>1, <3>4
      <3>5. CASE x # c
        <4>1. x \in s \ {c} /\ c \in s \ {x} /\ (s \ {c}) \ {x} = (s \ {x}) \ {c}
          BY <3>1, <3>5
        <4>2. /\ g[s \ {c}] = w[x] + g[(s \ {c}) \ {x}]
              /\ g[s \ {x}] = w[c] + g[(s \ {c}) \ {x}]
          BY <3>3, <4>1
        <4>3. /\ w[x] \in Nat /\ w[c] \in Nat
              /\ (s \ {c}) \ {x} \in SUBSET D /\ g[(s \ {c}) \ {x}] \in Nat
          BY <1>1, <3>1
        <4> HIDE DEF c
        <4> QED
          BY <3>1, <4>2, <4>3
      <3> QED
        BY <3>4, <3>5
    <2> QED
      BY <2>1
  <1>4. S = Nat
    <2> HIDE DEF S
    <2>1. S \in SUBSET Nat
      BY DEF S
    <2> QED
      BY <1>2, <1>3, <2>1, SetInduction
  <1>5. Cardinality(a) \in Nat
    BY OthersFacts
  <1> QED
    BY <1>4, <1>5

-----------------------------------------------------------------------------
\* The bytes of the records of a leaf.

\* A map from finitely many keys to payloads, and the weights of its records.
RecordMap(c) == c \in [DOMAIN c -> Payload] /\ IsFiniteSet(DOMAIN c)
Weights(c) == [k \in DOMAIN c |-> PointerBytes + CellSize(c[k])]

LEMMA SizeFacts ==
  /\ PointerBytes = 2 /\ LeafCellBytes = 12 /\ PageSpace \in Nat
  /\ \A v \in Payload : Length[v] \in Nat /\ CellSize(v) = 12 + Length[v] /\ CellSize(v) \in Nat
  BY LengthAssumption, SpaceAssumption DEF PointerBytes, LeafCellBytes, CellSize

LEMMA BytesIs ==
  ASSUME NEW c, RecordMap(c)
  PROVE  /\ Weights(c) \in [DOMAIN c -> Nat]
         /\ \E g : Adds(g, Weights(c), DOMAIN c) /\ Bytes(c) = g[DOMAIN c]
  <1> DEFINE D == DOMAIN c
             w == Weights(c)
             Sum(f, s) == IF s = {} THEN 0
                          ELSE PointerBytes + CellSize(c[Chosen(s)]) + f[Others(s)]
             iter == CHOOSE f : f = [s \in SUBSET D |-> Sum(f, s)]
  <1>1. IsFiniteSet(D) /\ w \in [D -> Nat]
    <2>1. \A k \in D : PointerBytes + CellSize(c[k]) \in Nat
      BY SizeFacts DEF RecordMap
    <2> QED
      BY <2>1 DEF RecordMap, Weights
  <1>2. \A s \in SUBSET D : s # {} => w[Chosen(s)] = PointerBytes + CellSize(c[Chosen(s)])
    <2> TAKE s \in SUBSET D
    <2>1. s # {} => Chosen(s) \in D
      BY DEF Chosen
    <2> QED
      BY <2>1 DEF Weights
  <1>3. PICK g : Adds(g, w, D)
    <2> HIDE DEF w, D
    <2> QED
      BY <1>1, AddsExists
  <1>4. g \in [SUBSET D -> Nat] /\ \A s \in SUBSET D : g[s] = Sum(g, s)
    <2> HIDE DEF w, D
    <2> QED
      BY <1>2, <1>3 DEF Adds, Sums, SumStep
  <1>5. g = [s \in SUBSET D |-> Sum(g, s)]
    <2> HIDE DEF Sum
    <2> QED
      BY <1>4
  <1>6. iter = [s \in SUBSET D |-> Sum(iter, s)]
    <2> HIDE DEF Sum
    <2> QED
      BY <1>5
  <1>7. \A s \in SUBSET D : iter[s] = Sum(iter, s)
    <2> HIDE DEF Sum, iter
    <2> QED
      BY <1>6
  <1>8. Bytes(c) = iter[D]
    BY DEF Bytes, MapThenSumSet, MapThenFoldSet, Chosen, Others
  <1> HIDE DEF iter
  <1>9. Sums(iter, w, D)
    <2> HIDE DEF w, D
    <2> QED
      BY <1>2, <1>7 DEF Sums, SumStep
  <1>10. Sums(g, w, D)
    BY <1>3 DEF Adds
  <1>11. iter[D] = g[D]
    <2> HIDE DEF w, D
    <2>1. Alike(w, w, D, D)
      BY DEF Alike
    <2> QED
      BY <1>1, <1>9, <1>10, <2>1, AddsAgree
  <1> QED
    BY <1>1, <1>3, <1>8, <1>11

LEMMA BytesNone == \A c : DOMAIN c = {} => Bytes(c) = 0
  <1> SUFFICES ASSUME NEW c, DOMAIN c = {} PROVE Bytes(c) = 0
    OBVIOUS
  <1> DEFINE w == Weights(c)
             D == DOMAIN c
             Sum(f, s) == IF s = {} THEN 0
                          ELSE PointerBytes + CellSize(c[Chosen(s)]) + f[Others(s)]
             iter == CHOOSE f : f = [s \in SUBSET D |-> Sum(f, s)]
             g == [s \in SUBSET D |-> 0]
  <1>2. \A s \in SUBSET D : s = {}
    OBVIOUS
  <1>3. \A s \in SUBSET D : g[s] = Sum(g, s)
    BY <1>2
  <1>4. g = [s \in SUBSET D |-> Sum(g, s)]
    <2> HIDE DEF Sum
    <2> QED
      BY <1>3
  <1>5. iter = [s \in SUBSET D |-> Sum(iter, s)]
    <2> HIDE DEF Sum, g
    <2> QED
      BY <1>4
  <1>6. iter[D] = Sum(iter, D)
    <2> HIDE DEF Sum, iter
    <2> QED
      BY <1>5
  <1>7. Bytes(c) = iter[D]
    BY DEF Bytes, MapThenSumSet, MapThenFoldSet, Chosen, Others
  <1> HIDE DEF iter
  <1> QED
    BY <1>6, <1>7

\* A map without the record of one key.
Without(c, d, k) == DOMAIN d = DOMAIN c \ {k} /\ \A x \in DOMAIN d : d[x] = c[x]

LEMMA BytesInNat == \A c : RecordMap(c) => Bytes(c) \in Nat
  <1> SUFFICES ASSUME NEW c, RecordMap(c) PROVE Bytes(c) \in Nat
    OBVIOUS
  <1> DEFINE D == DOMAIN c
  <1>1. PICK g : Adds(g, Weights(c), D) /\ Bytes(c) = g[D]
    BY BytesIs
  <1> HIDE DEF D
  <1>2. g \in [SUBSET D -> Nat] /\ D \in SUBSET D
    BY <1>1 DEF Adds
  <1> QED
    BY <1>1, <1>2

LEMMA BytesWithout ==
  ASSUME NEW c, RecordMap(c), NEW k \in DOMAIN c, NEW d, RecordMap(d), Without(c, d, k)
  PROVE  Bytes(c) = PointerBytes + CellSize(c[k]) + Bytes(d)
  <1> DEFINE C == DOMAIN c
             D == DOMAIN d
             w == Weights(c)
             u == Weights(d)
  <1>1. IsFiniteSet(C) /\ w \in [C -> Nat] /\ D = C \ {k} /\ D \in SUBSET C
    BY BytesIs DEF RecordMap, Without
  <1>2. PICK g : Adds(g, w, C) /\ Bytes(c) = g[C]
    BY BytesIs
  <1>3. PICK h : Adds(h, u, D) /\ Bytes(d) = h[D]
    BY BytesIs
  <1>4. w[k] = PointerBytes + CellSize(c[k])
    BY DEF Weights
  <1>5. Alike(w, u, C, D)
    BY DEF Weights, Without, Alike
  <1> HIDE DEF C, D, w, u
  <1>6. g[C] = w[k] + g[D]
    <2>1. k \in C /\ C \in SUBSET C
      BY DEF C
    <2>2. Adds(g, w, C)
      BY <1>2
    <2>3. g[C] = w[k] + g[C \ {k}]
      BY ONLY <1>1, <2>1, <2>2, AddsAny
    <2> QED
      BY <1>1, <2>3
  <1>7. g[D] = h[D]
    <2>1. /\ Sums(g, w, C) /\ Sums(h, u, D)
          /\ D \in SUBSET D /\ D \in SUBSET C /\ IsFiniteSet(C)
      BY <1>1, <1>2, <1>3 DEF Adds
    <2> QED
      BY ONLY <1>5, <2>1, AddsAgree
  <1> QED
    BY <1>2, <1>3, <1>4, <1>6, <1>7

\* A record is added, or replaces the one of its key.
LEMMA BytesWithRecord ==
  ASSUME NEW c, RecordMap(c), NEW k, NEW v \in Payload
  PROVE  /\ RecordMap(WithRecord(c, k, v)) /\ Bytes(c) \in Nat /\ Bytes(WithRecord(c, k, v)) \in Nat
         /\ k \notin DOMAIN c =>
              Bytes(WithRecord(c, k, v)) = Bytes(c) + PointerBytes + CellSize(v)
         /\ k \in DOMAIN c =>
              /\ Bytes(WithRecord(c, k, v)) = Bytes(c) + CellSize(v) - CellSize(c[k])
              /\ Bytes(c) >= PointerBytes + CellSize(c[k])
  <1> DEFINE e == WithRecord(c, k, v)
             S == DOMAIN c \ {k}
             d == [x \in S |-> c[x]]
  <1>1. IsFiniteSet(S) /\ IsFiniteSet(DOMAIN c \union {k})
    BY FS_RemoveElement, FS_AddElement DEF RecordMap
  <1>2. \A x \in DOMAIN c : c[x] \in Payload
    BY DEF RecordMap
  <1>3. RecordMap(e) /\ DOMAIN e = DOMAIN c \union {k} /\ e[k] = v /\ \A x \in S : e[x] = c[x]
    BY <1>1, <1>2 DEF RecordMap, WithRecord
  <1>4. RecordMap(d) /\ DOMAIN d = S /\ \A x \in S : d[x] = c[x]
    BY <1>1, <1>2 DEF RecordMap
  <1> HIDE DEF e, d
  <1>5. Without(e, d, k) /\ k \in DOMAIN e
    BY <1>3, <1>4 DEF Without
  <1>6. Bytes(e) = PointerBytes + CellSize(v) + Bytes(d)
    BY <1>3, <1>4, <1>5, BytesWithout
  <1>7. Bytes(c) \in Nat /\ Bytes(d) \in Nat /\ Bytes(e) \in Nat
    BY <1>3, <1>4, BytesInNat
  <1>8. ASSUME k \notin DOMAIN c PROVE Bytes(e) = Bytes(c) + PointerBytes + CellSize(v)
    <2>1. c = d
      BY <1>4, <1>8 DEF RecordMap
    <2> QED
      BY <1>6, <1>7, <2>1, SizeFacts
  <1>9. ASSUME k \in DOMAIN c
        PROVE  /\ Bytes(e) = Bytes(c) + CellSize(v) - CellSize(c[k])
               /\ Bytes(c) >= PointerBytes + CellSize(c[k])
    <2>1. Without(c, d, k)
      BY <1>4 DEF Without
    <2>2. Bytes(c) = PointerBytes + CellSize(c[k]) + Bytes(d)
      BY <1>4, <1>9, <2>1, BytesWithout
    <2>3. c[k] \in Payload
      BY <1>2, <1>9
    <2> QED
      BY <1>6, <1>7, <2>2, <2>3, SizeFacts
  <1> QED
    BY <1>3, <1>7, <1>8, <1>9 DEF e

\* What passes the check fits the page, the record included.
LEMMA FitsKeepsSpace ==
  ASSUME NEW c, RecordMap(c), Bytes(c) <= PageSpace, NEW k, NEW v \in Payload, Fits(c, k, v)
  PROVE  Bytes(WithRecord(c, k, v)) <= PageSpace
  <1>1. /\ Bytes(c) \in Nat /\ Bytes(WithRecord(c, k, v)) \in Nat
        /\ k \notin DOMAIN c => Bytes(WithRecord(c, k, v)) = Bytes(c) + PointerBytes + CellSize(v)
        /\ k \in DOMAIN c => Bytes(WithRecord(c, k, v)) = Bytes(c) + CellSize(v) - CellSize(c[k])
    BY BytesWithRecord
  <1>2. k \in DOMAIN c => c[k] \in Payload
    BY DEF RecordMap
  <1> QED
    BY <1>1, <1>2, SizeFacts DEF Fits

\* A leaf that holds a record takes the bytes of a pointer and a cell at least.
LEMMA BytesOfSome ==
  ASSUME NEW c, RecordMap(c), DOMAIN c # {}
  PROVE  Bytes(c) >= PointerBytes + LeafCellBytes
  <1>1. PICK k \in DOMAIN c : TRUE
    OBVIOUS
  <1>2. c[k] \in Payload
    BY DEF RecordMap
  <1>3. Bytes(c) >= PointerBytes + CellSize(c[k]) /\ Bytes(c) \in Nat
    BY <1>2, BytesWithRecord
  <1> QED
    BY <1>2, <1>3, SizeFacts

===============================================================================
