------------------------------ MODULE PagerProofs ------------------------------
(***************************************************************************)
(* Theorems about the pager, for every number of pages, every page content *)
(* and every frame size.  The first part is about the log alone: how       *)
(* Recovered changes as chunks are appended to the log and as the file     *)
(* under it is written.  The second is about what a reader sees: what a    *)
(* crash would give back.                                                  *)
(***************************************************************************)
EXTENDS Pager, WellFoundedInduction, TLAPS

AllWhole(l) == \A i \in 1..Len(l) : Whole(l[i])

\* What an append leaves in the log: the old chunks and one new one.
LEMMA AppendedChunk ==
  ASSUME NEW l \in Seq(Chunk), NEW c \in Chunk
  PROVE  /\ Append(l, c) \in Seq(Chunk)
         /\ Len(Append(l, c)) = Len(l) + 1
         /\ \A i \in 1..Len(l) : Append(l, c)[i] = l[i]
         /\ Append(l, c)[Len(l) + 1] = c
         /\ Append(l, c) # <<>>
  OBVIOUS

\* A nonempty set of positions of a log has a largest element, and Max is it.
LEMMA MaxOfPositions ==
  ASSUME NEW n \in Nat, NEW S \in SUBSET (1..n), S # {}
  PROVE  Max(S) \in S /\ \A i \in S : i <= Max(S)
  <1> DEFINE D == {k \in 0..n : n - k \in S}
  <1>1. PICK s \in S : TRUE
    OBVIOUS
  <1>2. D \in SUBSET Nat /\ n - s \in D
    OBVIOUS
  <1>3. PICK m \in D : \A k \in D : m <= k
    <2> HIDE DEF D
    <2>1. PICK m \in D : \A k \in D : ~(<<k, m>> \in OpToRel(<, Nat))
      BY <1>2, WFMin, NatLessThanWellFounded
    <2>2. ASSUME NEW k \in D PROVE m <= k
      <3>1. OpToRel(<, Nat) = {ss \in Nat \X Nat : ss[1] < ss[2]}
        BY DEF OpToRel
      <3>2. k \in Nat /\ m \in Nat /\ <<k, m>> \notin {ss \in Nat \X Nat : ss[1] < ss[2]}
        BY <1>2, <2>1, <3>1, Zenon
      <3> QED
        BY <3>2
    <2> QED
      BY <2>2
  <1>4. n - m \in S /\ \A i \in S : i <= n - m
    <2>1. n - m \in S
      BY <1>3
    <2>2. ASSUME NEW i \in S PROVE i <= n - m
      <3>1. n - i \in D
        OBVIOUS
      <3> QED
        BY <1>3, <3>1
    <2> QED
      BY <2>1, <2>2
  <1>5. \E x \in S : \A y \in S : x >= y
    BY <1>4
  <1>6. Max(S) \in S /\ \A y \in S : Max(S) >= y
    BY <1>5 DEF Max
  <1> QED
    BY <1>6

\* The frames of a page are positions of the log, so the latest one exists.
LEMMA LatestFrame ==
  ASSUME NEW l \in Seq(Chunk), NEW p, FramesOf(l, p) # {}
  PROVE  /\ Max(FramesOf(l, p)) \in FramesOf(l, p)
         /\ \A i \in FramesOf(l, p) : i <= Max(FramesOf(l, p))
  <1>1. FramesOf(l, p) \in SUBSET (1..Len(l)) /\ Len(l) \in Nat
    BY DEF FramesOf
  <1> QED
    BY <1>1, MaxOfPositions

\* Any frame of a page that no later one follows is what recovery gives back.
LEMMA RecoveredIsLatest ==
  ASSUME NEW l \in Seq(Chunk), NEW p, NEW d, NEW i \in FramesOf(l, p),
         \A j \in FramesOf(l, p) : j <= i
  PROVE  Recovered(l, d, p) = l[i].data
  <1>1. i \in Nat /\ FramesOf(l, p) \in SUBSET Nat
    BY DEF FramesOf
  <1>2. Max(FramesOf(l, p)) = i
    BY <1>1, LatestFrame
  <1> QED
    BY <1>2 DEF Recovered

\* With nothing readable in the log, recovery changes nothing.
LEMMA RecoveredFromNothing ==
  ASSUME NEW l \in Seq(Chunk), l = <<>> \/ DamagedHead(l), NEW p, NEW d
  PROVE  FramesOf(l, p) = {} /\ Recovered(l, d, p) = d[p]
  <1>1. FramesOf(l, p) = {}
    BY DEF FramesOf, Readable, DamagedHead
  <1> QED
    BY <1>1 DEF Recovered

LEMMA RecoveredFromEmpty ==
  ASSUME NEW p, NEW d
  PROVE  Recovered(<<>>, d, p) = d[p]
  <1>1. FramesOf(<<>>, p) = {}
    BY DEF FramesOf
  <1> QED
    BY <1>1 DEF Recovered

\* Any other appended chunk leaves a page as it was: a frame of another page,
\* one that fails the tests, or one behind a chunk that does.
LEMMA RecoveredAfterOther ==
  ASSUME NEW l \in Seq(Chunk), NEW c \in Chunk, NEW p, NEW d,
         c.page # p \/ ~Whole(c) \/ ~AllWhole(l)
  PROVE  /\ FramesOf(Append(l, c), p) = FramesOf(l, p)
         /\ Recovered(Append(l, c), d, p) = Recovered(l, d, p)
  <1> DEFINE m == Append(l, c)
  <1>1. m \in Seq(Chunk) /\ Len(m) = Len(l) + 1 /\ m[Len(l) + 1] = c
        /\ \A i \in 1..Len(l) : m[i] = l[i]
    BY AppendedChunk
  <1> HIDE DEF m
  <1>2. Len(l) + 1 \notin FramesOf(m, p)
    BY <1>1 DEF FramesOf, Readable, AllWhole
  <1>3. \A i \in 1..Len(l) : i \in FramesOf(m, p) <=> i \in FramesOf(l, p)
    BY <1>1 DEF FramesOf, Readable
  <1>4. FramesOf(m, p) = FramesOf(l, p)
    <2>1. FramesOf(m, p) \subseteq 1..Len(l) + 1 /\ FramesOf(l, p) \subseteq 1..Len(l)
      BY <1>1 DEF FramesOf
    <2>2. FramesOf(m, p) \subseteq 1..Len(l)
      BY <1>2, <2>1
    <2> QED
      BY <1>3, <2>1, <2>2
  <1>5. CASE FramesOf(l, p) = {}
    BY <1>4, <1>5 DEF Recovered, m
  <1>6. CASE FramesOf(l, p) # {}
    <2>1. Max(FramesOf(l, p)) \in 1..Len(l)
      BY <1>6, LatestFrame DEF FramesOf
    <2> QED
      BY <1>1, <1>4, <1>6, <2>1 DEF Recovered, m
  <1> QED
    BY <1>5, <1>6

\* A whole frame behind whole frames is what recovery gives back for its page
\* (wal.rs:87-118), and it changes what recovery gives back for no other page.
LEMMA RecoveredAfterWhole ==
  ASSUME NEW l \in Seq(Chunk), NEW c \in Chunk, AllWhole(l), Whole(c), NEW d
  PROVE  \A p : Recovered(Append(l, c), d, p)
                = IF p = c.page THEN c.data ELSE Recovered(l, d, p)
  <1> DEFINE m == Append(l, c)
  <1>1. m \in Seq(Chunk) /\ Len(m) = Len(l) + 1 /\ m[Len(l) + 1] = c
        /\ \A i \in 1..Len(l) : m[i] = l[i]
    BY AppendedChunk
  <1> HIDE DEF m
  <1>2. Len(l) + 1 \in FramesOf(m, c.page)
    BY <1>1 DEF FramesOf, Readable, AllWhole
  <1>3. \A j \in FramesOf(m, c.page) : j <= Len(l) + 1
    BY <1>1 DEF FramesOf
  <1>4. Recovered(m, d, c.page) = m[Len(l) + 1].data
    BY <1>1, <1>2, <1>3, RecoveredIsLatest
  <1>5. ASSUME NEW p, p # c.page
        PROVE  Recovered(Append(l, c), d, p) = Recovered(l, d, p)
    BY <1>5, RecoveredAfterOther
  <1> QED
    BY <1>1, <1>4, <1>5 DEF m

-----------------------------------------------------------------------------
\* What the log may bring back for a page: a header for page 0, data elsewhere.
Held(p) == IF p = 0 THEN Header ELSE Data

\* The part of the inductive invariant that keeps every variable in its type:
\* allocate_page and set_root_page_id overwrite fields of the page 0 they read,
\* which is a header only because nothing but headers is ever logged for it.
Holds(l) == \A i \in 1..Len(l) : Whole(l[i]) => l[i].data \in Held(l[i].page)
LogHolds == Holds(log) /\ Holds(logSynced)
FrameHolds == op = "append" => frame.data \in Held(frame.page)
HeaderKnown ==
  /\ mode \in {"createPage1", "createSync", "running", "flushing"} => db[0] \in Header
  /\ pageCache[0] \in Header \union {NoPage}
OpInMode ==
  /\ op = "append" => mode = "running"
  /\ op \in {"replay", "dbSync", "truncate"} => mode \in {"opening", "flushing"}

TypeInv == TypeOK /\ LogHolds /\ FrameHolds /\ HeaderKnown /\ OpInMode

-----------------------------------------------------------------------------
\* The assumptions on the constants, in the form the proofs use.
LEMMA ConstantFacts ==
  /\ 0 \in PageId /\ 1 \in PageId
  /\ Blank \in Content /\ Garbage \in Content
  /\ Header \subseteq Content /\ Data \subseteq Content
  /\ NewHeader \in Header /\ EmptyLeaf \in Data
  /\ Blank \notin Header /\ Garbage \notin Header
  /\ NoPage \notin Content
  /\ FrameSize \in Nat /\ FrameSize > 1
  /\ NoFrame \in Frame
  BY FrameSizeAssumption, ContentAssumption, MaxPageIdAssumption, DataAssumption
  DEF PageId, Header, PageCount, NewHeader, NoFrame, Frame

\* The page a reader gets is of the kind the log holds, for page 0.
LEMMA Page0IsHeader ==
  ASSUME TypeInv, mode = "running"
  PROVE  ReadPage(0) \in Header
  BY ConstantFacts DEF TypeInv, HeaderKnown, ReadPage, TypeOK

-----------------------------------------------------------------------------
LEMMA ChunkFields ==
  ASSUME NEW c \in Chunk
  PROVE  c.len \in Nat /\ c.len >= 1 /\ c.len <= FrameSize /\ c.start \in Nat
  BY ConstantFacts DEF Chunk

\* The chunks an append can put into the log, whole or in part.
LEMMA NewChunks ==
  ASSUME TypeInv
  PROVE  /\ NewChunk \in Chunk /\ Whole(NewChunk) /\ NewChunk.len = FrameSize
         /\ NewChunk.page = frame.page /\ NewChunk.data = frame.data
         /\ NewChunk.start = FileLen(log)
         /\ \A offset \in Nat, n \in 1..FrameSize :
              /\ Fragment(offset, n) \in Chunk /\ ~Whole(Fragment(offset, n))
              /\ Fragment(offset, n).start = offset /\ Fragment(offset, n).len = n
  <1> USE ConstantFacts DEF TypeInv, TypeOK, WalTypeOK
  <1>1. FileLen(log) \in Nat
    <2>1. log # <<>> => log[Len(log)] \in Chunk
      OBVIOUS
    <2> QED
      BY <2>1 DEF FileLen, Chunk
  <1> QED
    BY <1>1 DEF NewChunk, Fragment, Chunk, Whole, Frame

\* The log when every byte of the write in progress has reached it.
LEMMA WrittenLog ==
  ASSUME TypeInv
  PROVE  /\ Written \in Seq(Chunk) /\ Holds(Written)
         /\ Len(Written) = IF op = "append" THEN Len(log) + 1 ELSE Len(log)
         /\ \A i \in 1..Len(log) : Written[i] = log[i]
         /\ op = "append" => Written[Len(log) + 1] = NewChunk
  <1>1. log \in Seq(Chunk) /\ Holds(log)
    BY DEF TypeInv, TypeOK, WalTypeOK, LogHolds
  <1>2. CASE op # "append"
    BY <1>1, <1>2 DEF Written
  <1>3. CASE op = "append"
    <2>1. Written = Append(log, NewChunk)
      BY <1>3 DEF Written
    <2>2. /\ NewChunk \in Chunk /\ NewChunk.page = frame.page
          /\ NewChunk.data = frame.data /\ frame.data \in Held(frame.page)
      BY <1>3, NewChunks DEF TypeInv, FrameHolds
    <2> HIDE DEF NewChunk
    <2>3. /\ Written \in Seq(Chunk) /\ Len(Written) = Len(log) + 1
          /\ Written[Len(log) + 1] = NewChunk
          /\ \A i \in 1..Len(log) : Written[i] = log[i]
      BY <1>1, <2>1, <2>2, AppendedChunk
    <2>4. Holds(Written)
      BY <1>1, <2>2, <2>3 DEF Holds
    <2> QED
      BY <1>3, <2>3, <2>4
  <1> QED
    BY <1>2, <1>3

LEMMA PrefixChunks ==
  ASSUME NEW s \in Seq(Chunk), NEW l \in Seq(Chunk), IsPrefix(s, l)
  PROVE  Len(s) <= Len(l) /\ \A i \in 1..Len(s) : s[i] = l[i]
  <1>1. Len(s) <= Len(l) /\ SubSeq(s, 1, Len(s)) = SubSeq(l, 1, Len(s))
    BY DEF IsPrefix
  <1>2. ASSUME NEW i \in 1..Len(s) PROVE s[i] = l[i]
    <2>1. SubSeq(s, 1, Len(s))[i] = s[i] /\ SubSeq(l, 1, Len(s))[i] = l[i]
      BY <1>1
    <2> QED
      BY <1>1, <2>1
  <1> QED
    BY <1>1, <1>2

\* A log a power failure leaves is one it left on the disk earlier, empty, or
\* made of what was written, chunk by chunk: intact or a fragment of the same
\* place.
Remains(l) ==
  /\ OnDisk \in Nat
  /\ l \in Seq(Chunk)
  /\ Len(l) \in OnDisk..Len(Written)
  /\ \A i \in 1..Len(l) :
       \/ l[i] = Written[i]
       \/ /\ i > OnDisk /\ ~Whole(l[i])
          /\ l[i].start = Written[i].start /\ l[i].len <= Written[i].len

LEMMA PowerLossLog ==
  ASSUME TypeInv, LogAfterPowerLoss
  PROVE  log' = logSynced \/ (op = "truncate" /\ log' = <<>>) \/ Remains(log')
  <1> USE WrittenLog
  <1> SUFFICES ASSUME NEW m \in OnDisk..Len(Written),
                      log' \in [1..m -> UNION {Pieces(i, m) : i \in 1..m}],
                      \A i \in 1..m : log'[i] \in Pieces(i, m)
               PROVE  Remains(log')
    BY DEF LogAfterPowerLoss
  <1>1. OnDisk \in Nat
    BY DEF OnDisk, TypeInv, TypeOK, WalTypeOK
  <1>2. ASSUME NEW i \in 1..m
        PROVE  /\ log'[i] \in Chunk
               /\ \/ log'[i] = Written[i]
                  \/ /\ i > OnDisk /\ ~Whole(log'[i])
                     /\ log'[i].start = Written[i].start /\ log'[i].len <= Written[i].len
    <2>1. i \in 1..Len(Written) /\ Written[i] \in Chunk
      BY <1>1
    <2>2. CASE log'[i] = Written[i]
      BY <2>1, <2>2
    <2>3. CASE log'[i] # Written[i]
      <3>1. i > OnDisk /\ \E n \in 1..Written[i].len : log'[i] = Fragment(Written[i].start, n)
        <4>1. log'[i] \in Pieces(i, m) /\ i \in Nat
          OBVIOUS
        <4>2. i > OnDisk
          BY <1>1, <2>3, <4>1 DEF Pieces
        <4>3. PICK n \in IF i = m THEN 1..Written[i].len ELSE {Written[i].len} :
                log'[i] = Fragment(Written[i].start, n)
          BY <1>1, <2>3, <4>1, <4>2 DEF Pieces
        <4>4. Written[i].len \in 1..Written[i].len
          BY <2>1, ChunkFields
        <4> QED
          BY <4>2, <4>3, <4>4
      <3>2. PICK n \in 1..Written[i].len : log'[i] = Fragment(Written[i].start, n)
        BY <3>1
      <3>3. Written[i].start \in Nat /\ n \in 1..FrameSize /\ n <= Written[i].len
        BY <2>1, ChunkFields, ConstantFacts
      <3> DEFINE c == Fragment(Written[i].start, n)
      <3>4. c \in Chunk /\ ~Whole(c) /\ c.start = Written[i].start /\ c.len = n
        BY <3>3, NewChunks
      <3> HIDE DEF c
      <3>5. log'[i] = c
        BY <3>2 DEF c
      <3> QED
        BY <3>1, <3>3, <3>4, <3>5
    <2> QED
      BY <2>2, <2>3
  <1>3. log' \in Seq(Chunk) /\ Len(log') = m
    BY <1>1, <1>2
  <1> QED
    BY <1>1, <1>2, <1>3 DEF Remains

-----------------------------------------------------------------------------
LEMMA TypeInvInit == Init => TypeInv
  <1> SUFFICES ASSUME Init PROVE TypeInv
    OBVIOUS
  <1> USE ConstantFacts DEF Init
  <1>1. WalTypeOK
    BY DEF WalTypeOK, WalOp
  <1>2. TypeOK
    BY <1>1 DEF TypeOK, Mode, EmptyCache
  <1>3. LogHolds /\ FrameHolds /\ HeaderKnown /\ OpInMode
    BY DEF LogHolds, Holds, FrameHolds, HeaderKnown, OpInMode, EmptyCache
  <1> QED
    BY <1>2, <1>3 DEF TypeInv

\* An append puts a frame of the right kind in flight.
LEMMA TypeInvAppendPage ==
  ASSUME TypeInv, Idle, NEW p \in PageId, NEW c \in Held(p), AppendPage(p, c),
         mode' = mode, pageCache' = pageCache,
         pageCount' \in PageCount, rootPageId' \in PageId, created' = created
  PROVE  TypeInv'
  <1> USE ConstantFacts DEF TypeInv, AppendPage, Idle
  <1>1. c \in Content
    BY DEF Held
  <1>2. WalTypeOK'
    BY <1>1 DEF TypeOK, WalTypeOK, WalOp, Frame
  <1>3. TypeOK'
    BY <1>2 DEF TypeOK, Mode
  <1>4. FrameHolds'
    BY DEF FrameHolds, Held
  <1>5. LogHolds' /\ HeaderKnown' /\ OpInMode'
    BY DEF LogHolds, Holds, HeaderKnown, OpInMode, Held
  <1> QED
    BY <1>3, <1>4, <1>5

LEMMA TypeInvClient == TypeInv /\ ClientStep => TypeInv'
  <1> SUFFICES ASSUME TypeInv, ClientStep PROVE TypeInv'
    OBVIOUS
  <1> USE ConstantFacts
  <1>1. ASSUME NEW p \in PageId, NEW c \in Data, WritePage(p, c) PROVE TypeInv'
    <2>1. c \in Held(p)
      BY <1>1 DEF WritePage, Held, PageId, TypeInv, TypeOK, Idle, PageCount
    <2> QED
      BY <1>1, <2>1, TypeInvAppendPage
      DEF WritePage, pagerVars, Idle, TypeInv, TypeOK
  <1>2. CASE AllocatePage
    <2>1. ReadPage(0) \in Header
      BY <1>2, Page0IsHeader DEF AllocatePage, Idle
    <2>2. pageCount + 1 \in PageCount
      BY <1>2, MaxPageIdAssumption
      DEF AllocatePage, Idle, TypeInv, TypeOK, PageCount
    <2>3. [ReadPage(0) EXCEPT !.pageCount = pageCount + 1] \in Held(0)
      BY <2>1, <2>2 DEF Held, Header
    <2> QED
      BY <1>2, <2>2, <2>3, TypeInvAppendPage
      DEF AllocatePage, Idle, TypeInv, TypeOK
  <1>3. ASSUME NEW r \in PageId, SetRootPageId(r) PROVE TypeInv'
    <2>1. ReadPage(0) \in Header
      BY <1>3, Page0IsHeader DEF SetRootPageId, Idle
    <2>2. [ReadPage(0) EXCEPT !.root = r] \in Held(0)
      BY <2>1 DEF Held, Header
    <2> QED
      BY <1>3, <2>2, TypeInvAppendPage DEF SetRootPageId, Idle, TypeInv, TypeOK
  <1>4. CASE Flush
    <2> USE <1>4 DEF Flush, CheckpointBegin, TypeInv, Idle
    <2>1. TypeOK'
      BY DEF TypeOK, WalTypeOK, WalOp, Mode
    <2>2. LogHolds' /\ FrameHolds' /\ HeaderKnown' /\ OpInMode'
      BY DEF LogHolds, Holds, FrameHolds, HeaderKnown, OpInMode, Held
    <2> QED
      BY <2>1, <2>2
  <1> QED
    BY <1>1, <1>2, <1>3, <1>4 DEF ClientStep

LEMMA TypeInvRecovery == TypeInv /\ Recovery => TypeInv'
  <1> SUFFICES ASSUME TypeInv, Recovery PROVE TypeInv'
    OBVIOUS
  <1> USE ConstantFacts DEF TypeInv
  <1>1. CASE OpenExisting
    <2>1. op' \in {"none", "replay"}
      BY <1>1 DEF OpenExisting, CheckpointBegin
    <2> USE <1>1 DEF OpenExisting, CheckpointBegin
    <2>2. WalTypeOK'
      <3>1. /\ UNCHANGED <<log, logSynced, db, dbSynced, frame>>
            /\ op' \in WalOp /\ cursor' \in Nat \ {0}
        BY <2>1 DEF WalOp
      <3> QED
        BY ONLY <3>1, TypeInv DEF TypeInv, TypeOK, WalTypeOK
    <2>3. TypeOK'
      BY <2>2 DEF TypeOK, Mode, Creating
    <2>4. LogHolds' /\ FrameHolds' /\ HeaderKnown' /\ OpInMode'
      BY DEF LogHolds, Holds, FrameHolds, HeaderKnown, OpInMode, Held
    <2> QED
      BY <2>3, <2>4
  <1>2. CASE ReadHeader
    <2> USE <1>2 DEF ReadHeader, walVars
    <2>1. db[0] \in Header => db[0].pageCount \in PageCount /\ db[0].root \in PageId
      BY DEF Header
    <2>2. TypeOK'
      BY <2>1 DEF TypeOK, WalTypeOK, Mode
    <2>3. LogHolds' /\ FrameHolds' /\ HeaderKnown' /\ OpInMode'
      BY DEF LogHolds, Holds, FrameHolds, HeaderKnown, OpInMode, Held
    <2> QED
      BY <2>2, <2>3
  <1>3. CASE OpenNew
    <2> USE <1>3 DEF OpenNew, walVars
    <2>1. NewHeader.pageCount \in PageCount /\ NewHeader.root \in PageId
      BY DEF Header
    <2>2. TypeOK'
      BY <2>1 DEF TypeOK, WalTypeOK, Mode, Creating
    <2>3. LogHolds' /\ FrameHolds' /\ HeaderKnown' /\ OpInMode'
      BY DEF LogHolds, Holds, FrameHolds, HeaderKnown, OpInMode, Held
    <2> QED
      BY <2>2, <2>3
  <1>4. CASE CreatePage0
    <2> USE <1>4 DEF CreatePage0
    <2>1. [pageCount |-> pageCount, root |-> rootPageId] \in Header
      BY DEF Header, TypeOK, Mode, Creating
    <2>2. db' \in [PageId -> Content] /\ db'[0] \in Header
      BY <2>1 DEF TypeOK, WalTypeOK
    <2>3. TypeOK'
      BY <2>2 DEF TypeOK, WalTypeOK, Mode, Creating
    <2>4. LogHolds' /\ FrameHolds' /\ HeaderKnown' /\ OpInMode'
      BY <2>2 DEF LogHolds, Holds, FrameHolds, HeaderKnown, OpInMode, Held
    <2> QED
      BY <2>3, <2>4
  <1>5. CASE CreatePage1
    <2> USE <1>5 DEF CreatePage1
    <2>1. db' \in [PageId -> Content] /\ db'[0] = db[0]
      BY DEF TypeOK, WalTypeOK
    <2>2. TypeOK'
      BY <2>1 DEF TypeOK, WalTypeOK, Mode, Creating
    <2>3. LogHolds' /\ FrameHolds' /\ HeaderKnown' /\ OpInMode'
      BY <2>1 DEF LogHolds, Holds, FrameHolds, HeaderKnown, OpInMode, Held
    <2> QED
      BY <2>2, <2>3
  <1>6. CASE CreateSync
    <2> USE <1>6 DEF CreateSync
    <2>1. TypeOK'
      BY DEF TypeOK, WalTypeOK, Mode, Creating
    <2>2. LogHolds' /\ FrameHolds' /\ HeaderKnown' /\ OpInMode'
      BY DEF LogHolds, Holds, FrameHolds, HeaderKnown, OpInMode, Held
    <2> QED
      BY <2>1, <2>2
  <1> QED
    BY <1>1, <1>2, <1>3, <1>4, <1>5, <1>6 DEF Recovery

LEMMA TypeInvProgress == TypeInv /\ Progress => TypeInv'
  <1> SUFFICES ASSUME TypeInv, Progress PROVE TypeInv'
    OBVIOUS
  <1> USE ConstantFacts DEF TypeInv
  <1>1. CASE WriteDone
    <2> USE <1>1 DEF WriteDone, AppendDone
    <2>1. frame.page \in PageId /\ frame.data \in Content /\ frame.data \in Held(frame.page)
      BY DEF TypeOK, WalTypeOK, Frame, FrameHolds
    <2>2. log' \in Seq(Chunk) /\ Holds(log') /\ logSynced' = log'
      BY WrittenLog DEF Holds, Held, Whole
    <2>3. TypeOK'
      BY <2>1, <2>2 DEF TypeOK, WalTypeOK, WalOp
    <2>4. LogHolds'
      BY <2>2 DEF LogHolds
    <2>5. HeaderKnown'
      BY <2>1 DEF HeaderKnown, Held, TypeOK
    <2>6. FrameHolds' /\ OpInMode'
      BY DEF FrameHolds, OpInMode
    <2> QED
      BY <2>3, <2>4, <2>5, <2>6
  <1>2. CASE CheckpointStep
    <2> USE <1>2 DEF CheckpointStep, pagerVars
    <2>1. CASE ReplayFrame
      <3> USE <2>1 DEF ReplayFrame, ReplayMore
      <3>1. cursor \in 1..Len(log) /\ log[cursor] \in Chunk
        BY DEF TypeOK, WalTypeOK
      <3>2. log[cursor].data \in Content /\ log[cursor].page \in PageId
        BY <3>1 DEF Chunk
      <3>3. db' \in [PageId -> Content] /\ (db'[0] = db[0] \/ db'[0] \in Header)
        BY <3>1, <3>2 DEF TypeOK, WalTypeOK, LogHolds, Holds, Held
      <3>4. TypeOK'
        BY <3>3 DEF TypeOK, WalTypeOK
      <3>5. LogHolds' /\ FrameHolds' /\ HeaderKnown' /\ OpInMode'
        BY <3>3 DEF LogHolds, Holds, FrameHolds, HeaderKnown, OpInMode, Held
      <3> QED
        BY <3>4, <3>5
    <2>2. CASE ReplayStop \/ SyncDb \/ TruncateLog
      <3> USE <2>2 DEF ReplayStop, SyncDb, TruncateLog
      <3>1. TypeOK'
        <4>1. log' \in Seq(Chunk) /\ logSynced' \in Seq(Chunk)
          BY DEF TypeOK, WalTypeOK
        <4> QED
          BY <4>1 DEF TypeOK, WalTypeOK, WalOp
      <3>2. LogHolds' /\ FrameHolds' /\ HeaderKnown' /\ OpInMode'
        BY DEF LogHolds, Holds, FrameHolds, HeaderKnown, OpInMode, Held
      <3> QED
        BY <3>1, <3>2
    <2> QED
      BY <2>1, <2>2
  <1>3. CASE FlushDone
    <2> USE <1>3 DEF FlushDone, walVars
    <2>1. TypeOK'
      BY DEF TypeOK, WalTypeOK, Mode, EmptyCache
    <2>2. LogHolds' /\ FrameHolds' /\ HeaderKnown' /\ OpInMode'
      BY DEF LogHolds, Holds, FrameHolds, HeaderKnown, OpInMode, Held, EmptyCache
    <2> QED
      BY <2>1, <2>2
  <1> QED
    BY <1>1, <1>2, <1>3 DEF Progress

\* What a kill leaves.
LEMMA KillLogs ==
  ASSUME TypeInv, LogAfterKill
  PROVE  log' \in Seq(Chunk) /\ Holds(log')
  <1>1. log \in Seq(Chunk) /\ Holds(log)
    BY DEF TypeInv, TypeOK, WalTypeOK, LogHolds
  <1>2. CASE log' = log \/ log' = <<>>
    <2>1. <<>> \in Seq(Chunk) /\ Holds(<<>>)
      BY DEF Holds
    <2> QED
      BY <1>1, <1>2, <2>1
  <1>3. CASE \E n \in 1..FrameSize-1 : log' = Append(log, Fragment(FileLen(log), n))
    <2>1. PICK n \in 1..FrameSize-1 : log' = Append(log, Fragment(FileLen(log), n))
      BY <1>3
    <2>2. FileLen(log) \in Nat /\ n \in 1..FrameSize
      <3>1. NewChunk \in Chunk /\ NewChunk.start = FileLen(log)
        BY NewChunks
      <3> QED
        BY <3>1, ConstantFacts DEF Chunk
    <2>3. Fragment(FileLen(log), n) \in Chunk /\ ~Whole(Fragment(FileLen(log), n))
      BY <2>2, NewChunks
    <2> HIDE DEF Fragment
    <2>4. /\ log' \in Seq(Chunk) /\ Len(log') = Len(log) + 1
          /\ log'[Len(log) + 1] = Fragment(FileLen(log), n)
          /\ \A i \in 1..Len(log) : log'[i] = log[i]
      BY <1>1, <2>1, <2>3, AppendedChunk
    <2> QED
      BY <1>1, <2>3, <2>4 DEF Holds, Held, Whole
  <1>4. CASE op = "append" /\ log' = Append(log, NewChunk)
    <2>1. log' = Written
      BY <1>4 DEF Written
    <2> QED
      BY <2>1, WrittenLog DEF Holds, Held, Whole
  <1> QED
    BY <1>2, <1>3, <1>4 DEF LogAfterKill

\* What a power failure leaves: every page has some content, every chunk of
\* the log holds what was written there or nothing that can be read.
LEMMA PowerLossFiles ==
  ASSUME TypeInv, WalPowerLoss
  PROVE  /\ db' \in [PageId -> Content]
         /\ log' \in Seq(Chunk) /\ Holds(log')
  <1> USE ConstantFacts DEF TypeInv, TypeOK, WalTypeOK, WalPowerLoss
  <1>1. db' \in [PageId -> Content]
    <2>1. db' \in [PageId -> UNION {Survivors(p) : p \in PageId}]
      BY DEF DbAfterPowerLoss
    <2>2. UNION {Survivors(p) : p \in PageId} \subseteq Content
      BY DEF Survivors
    <2> QED
      BY <2>1, <2>2
  <1>2. CASE log' = logSynced \/ log' = <<>>
    BY <1>1, <1>2 DEF LogHolds, Holds, Held, Whole
  <1>3. CASE Remains(log')
    <2>1. ASSUME NEW i \in 1..Len(log'), Whole(log'[i])
          PROVE  log'[i].data \in Held(log'[i].page)
      <3>1. i \in 1..Len(Written) /\ log'[i] = Written[i]
        BY <1>3, <2>1, WrittenLog DEF Remains
      <3> QED
        BY <2>1, <3>1, WrittenLog DEF Holds
    <2>2. log' \in Seq(Chunk)
      BY <1>3 DEF Remains
    <2> QED
      BY <1>1, <2>1, <2>2 DEF Holds, Held, Whole
  <1> QED
    BY <1>2, <1>3, PowerLossLog

LEMMA TypeInvCrash == TypeInv /\ Crash => TypeInv'
  <1> SUFFICES ASSUME TypeInv, Crash PROVE TypeInv'
    OBVIOUS
  <1> USE ConstantFacts DEF ProcessGone
  <1>1. /\ op' = "none" /\ cursor' = 1 /\ frame' = NoFrame /\ ProcessGone
    BY DEF Crash, Kill, PowerLoss, WalKill, WalPowerLoss
  <1>2. /\ log' \in Seq(Chunk) /\ logSynced' \in Seq(Chunk)
        /\ db' \in [PageId -> Content] /\ dbSynced' \in [PageId -> Content]
        /\ Holds(log') /\ Holds(logSynced')
    <2>1. CASE Kill
      <3>1. Holds(logSynced')
        BY <2>1 DEF Kill, WalKill, TypeInv, LogHolds, Holds, Held, Whole
      <3> QED
        BY <2>1, <3>1, KillLogs DEF Kill, WalKill, TypeInv, TypeOK, WalTypeOK
    <2>2. CASE PowerLoss
      <3>1. Holds(log') /\ log' \in Seq(Chunk) /\ db' \in [PageId -> Content]
            /\ logSynced' = log' /\ dbSynced' = db'
        BY <2>2, PowerLossFiles DEF PowerLoss, WalPowerLoss
      <3> QED
        BY <3>1
    <2> QED
      BY <2>1, <2>2 DEF Crash
  <1>3. WalTypeOK'
    BY <1>1, <1>2 DEF WalTypeOK, WalOp
  <1>4. TypeOK'
    BY <1>1, <1>3 DEF TypeInv, TypeOK, Mode, Creating, EmptyCache
  <1>5. LogHolds'
    BY <1>2 DEF LogHolds
  <1>6. FrameHolds' /\ HeaderKnown' /\ OpInMode'
    BY <1>1 DEF FrameHolds, HeaderKnown, OpInMode, EmptyCache
  <1> QED
    BY <1>4, <1>5, <1>6 DEF TypeInv

LEMMA TypeInvNext == TypeInv /\ [Next]_vars => TypeInv'
  <1> SUFFICES ASSUME TypeInv, [Next]_vars PROVE TypeInv'
    OBVIOUS
  <1>1. CASE UNCHANGED vars
    BY <1>1
    DEF vars, walVars, pagerVars, TypeInv, TypeOK, WalTypeOK, LogHolds, Holds,
        FrameHolds, HeaderKnown, OpInMode, Held
  <1> QED
    BY <1>1, TypeInvClient, TypeInvRecovery, TypeInvProgress, TypeInvCrash DEF Next

LEMMA TypeInvAlways == Spec => []TypeInv
  BY TypeInvInit, TypeInvNext, PTL DEF Spec

\* Every variable keeps its type: the pager never decodes page_count or
\* root_page_id from a page that is not a header (pager.rs:58-74, 131-146), and
\* the log and the file hold nothing but pages.
THEOREM TypeCorrect == Spec => []TypeOK
  <1>1. TypeInv => TypeOK
    BY DEF TypeInv
  <1> QED
    BY <1>1, TypeInvAlways, PTL

-----------------------------------------------------------------------------

\* The strengthening of ReadsAreDurable that every step preserves.

\* No cache outlives the process.
CacheInMode == mode \notin {"running", "flushing"} => pageCache = EmptyCache
\* Every chunk lies behind the first, so a log that starts with a whole frame is
\* long enough for checkpoint to read.
Placed(l) == \A i \in 2..Len(l) : l[i].start >= l[1].len
HeadCounted == Placed(log) /\ Placed(logSynced)
\* A database file is created only next to an empty log, ...
NewFile ==
  mode \in Creating \/ (mode = "down" /\ ~DbExists) => log = <<>> /\ logSynced = <<>>
\* ... because one that was used once is never taken for a missing one.
OldFile ==
  /\ mode \in {"opening", "running", "flushing", "rejected"} => db[0] # Blank
  /\ created => db[0] # Blank /\ dbSynced[0] # Blank
\* A checkpoint that is over leaves nothing to replay behind.
Settled == mode \in {"opening", "flushing"} /\ op = "none" => log = <<>> \/ DamagedHead(log)
\* A running pager appends whole frames only.
RunningLog == mode = "running" => AllWhole(log) \/ DamagedHead(log)
\* The property itself, also while an append is in progress.
Coherent ==
  mode = "running" /\ ~DamagedHead(log) =>
    \A p \in PageId : ReadPage(p) = Recovered(log, db, p)

CacheInv ==
  /\ TypeInv
  /\ CacheInMode /\ HeadCounted /\ NewFile /\ OldFile
  /\ Settled /\ RunningLog /\ Coherent

-----------------------------------------------------------------------------
LEMMA CacheInvInit == Init => CacheInv
  <1> SUFFICES ASSUME Init PROVE CacheInv
    OBVIOUS
  <1>1. TypeInv
    BY TypeInvInit
  <1>2. CacheInMode /\ HeadCounted /\ NewFile /\ OldFile /\ Settled
        /\ RunningLog /\ Coherent
    BY DEF Init, CacheInMode, HeadCounted, Placed, NewFile, OldFile, Settled,
           RunningLog, Coherent
  <1> QED
    BY <1>1, <1>2 DEF CacheInv

\* Where the log, the files, the cache and the mode do not change, neither does
\* anything the invariant says.  The start of an append is such a step.
LEMMA CacheInvAppendPage ==
  ASSUME CacheInv, TypeInv', Idle, NEW p, NEW c, AppendPage(p, c),
         mode' = mode, pageCache' = pageCache, created' = created
  PROVE  CacheInv'
  <1> USE DEF AppendPage, Idle, CacheInv
  <1>1. Coherent'
    <2>1. ASSUME NEW q \in PageId
          PROVE  ReadPage(q)' = ReadPage(q) /\ Recovered(log, db, q)' = Recovered(log, db, q)
      BY DEF ReadPage
    <2>2. DamagedHead(log)' <=> DamagedHead(log)
      OBVIOUS
    <2> QED
      BY <2>1, <2>2 DEF Coherent
  <1>2. RunningLog'
    BY DEF RunningLog
  <1>3. CacheInMode' /\ HeadCounted' /\ NewFile' /\ OldFile' /\ Settled'
    BY DEF CacheInMode, HeadCounted, Placed, NewFile, OldFile, Settled, Creating
  <1> QED
    BY <1>1, <1>2, <1>3

LEMMA HeadFits ==
  ASSUME NEW l \in Seq(Chunk), l # <<>>, Placed(l)
  PROVE  l[1].len \in Nat /\ FileLen(l) \in Nat /\ FileLen(l) >= l[1].len
  <1>1. Len(l) \in Nat /\ Len(l) >= 1 /\ l[1] \in Chunk /\ l[Len(l)] \in Chunk
    OBVIOUS
  <1>2. \A c \in Chunk : c.len \in Nat /\ c.start \in Nat
    BY ConstantFacts DEF Chunk
  <1>3. FileLen(l) = l[Len(l)].start + l[Len(l)].len
    BY DEF FileLen
  <1>4. CASE Len(l) = 1
    BY <1>1, <1>2, <1>3, <1>4
  <1>5. CASE Len(l) > 1
    <2>1. l[Len(l)].start >= l[1].len
      BY <1>1, <1>5 DEF Placed
    <2> QED
      BY <1>1, <1>2, <1>3, <2>1
  <1>6. Len(l) = 1 \/ Len(l) > 1
    BY <1>1
  <1> QED
    BY <1>4, <1>5, <1>6, Zenon

\* A chunk put at the end of the file lies behind the first one.
LEMMA PlacedAppend ==
  ASSUME NEW l \in Seq(Chunk), Placed(l), NEW c \in Chunk, c.start = FileLen(l)
  PROVE  Placed(Append(l, c))
  <1> DEFINE m == Append(l, c)
  <1>1. /\ Len(m) = Len(l) + 1 /\ m[Len(l) + 1] = c
        /\ \A i \in 1..Len(l) : m[i] = l[i]
    BY AppendedChunk
  <1> HIDE DEF m
  <1>2. ASSUME NEW i \in 2..Len(m) PROVE m[i].start >= m[1].len
    <2>1. l # <<>> /\ m[1] = l[1]
      BY <1>1, <1>2
    <2>2. CASE i = Len(l) + 1
      BY <1>1, <2>1, <2>2, HeadFits
    <2>3. CASE i # Len(l) + 1
      BY <1>1, <2>1, <2>3 DEF Placed
    <2> QED
      BY <2>2, <2>3
  <1> QED
    BY <1>2 DEF Placed, m

\* checkpoint finds no complete frame only if the log is empty or opens with a
\* fragment.
LEMMA NothingToReplay ==
  ASSUME TypeOK, HeadCounted, FileLen(log) \div FrameSize = 0
  PROVE  log = <<>> \/ DamagedHead(log)
  <1> USE ConstantFacts
  <1>1. log \in Seq(Chunk) /\ Placed(log)
    BY DEF TypeOK, WalTypeOK, HeadCounted
  <1>2. ASSUME log # <<>> PROVE ~Whole(log[1])
    <2>1. log[1].len \in Nat /\ FileLen(log) \in Nat /\ FileLen(log) >= log[1].len
      BY <1>1, <1>2, HeadFits
    <2>2. FileLen(log) < FrameSize
      BY <2>1
    <2> QED
      BY <2>1, <2>2 DEF Whole
  <1> QED
    BY <1>2 DEF DamagedHead

LEMMA CacheInvClient == CacheInv /\ ClientStep /\ TypeInv' => CacheInv'
  <1> SUFFICES ASSUME CacheInv, ClientStep, TypeInv' PROVE CacheInv'
    OBVIOUS
  <1>1. ASSUME NEW p \in PageId, NEW c \in Data, WritePage(p, c) PROVE CacheInv'
    BY <1>1, CacheInvAppendPage DEF WritePage, pagerVars
  <1>2. CASE AllocatePage
    BY <1>2, CacheInvAppendPage DEF AllocatePage
  <1>3. ASSUME NEW r \in PageId, SetRootPageId(r) PROVE CacheInv'
    BY <1>3, CacheInvAppendPage DEF SetRootPageId
  <1>4. CASE Flush
    <2> USE <1>4 DEF Flush, CheckpointBegin, Idle, CacheInv
    <2>1. Settled'
      BY NothingToReplay DEF TypeInv, Settled, DamagedHead
    <2>2. CacheInMode' /\ HeadCounted' /\ NewFile' /\ OldFile' /\ RunningLog'
        /\ Coherent'
      BY DEF CacheInMode, HeadCounted, Placed, NewFile, OldFile, RunningLog, Coherent, Creating
    <2> QED
      BY <2>1, <2>2
  <1> QED
    BY <1>1, <1>2, <1>3, <1>4 DEF ClientStep

LEMMA CacheInvRecovery == CacheInv /\ Recovery /\ TypeInv' => CacheInv'
  <1> SUFFICES ASSUME CacheInv, Recovery, TypeInv' PROVE CacheInv'
    OBVIOUS
  <1> USE ConstantFacts DEF CacheInv
  <1>1. CASE OpenExisting
    <2> USE <1>1 DEF OpenExisting, CheckpointBegin
    <2>1. Settled'
      BY NothingToReplay DEF TypeInv, Settled, DamagedHead
    <2>2. OldFile'
      BY DEF OldFile, DbExists, Creating
    <2>3. CacheInMode' /\ HeadCounted' /\ NewFile' /\ RunningLog' /\ Coherent'
      BY DEF CacheInMode, HeadCounted, Placed, NewFile, RunningLog, Coherent, Creating
    <2> QED
      BY <2>1, <2>2, <2>3
  <1>2. CASE ReadHeader
    <2> USE <1>2 DEF ReadHeader, walVars
    <2>1. log = <<>> \/ DamagedHead(log)
      BY DEF Settled
    <2>2. RunningLog'
      BY <2>1 DEF RunningLog, AllWhole, DamagedHead
    <2>3. Coherent'
      <3>1. pageCache' = EmptyCache
        BY DEF CacheInMode
      <3>2. ASSUME log = <<>>, NEW p \in PageId
            PROVE  ReadPage(p)' = Recovered(log, db, p)'
        BY <3>1, <3>2, RecoveredFromNothing
        DEF ReadPage, EmptyCache, TypeInv, TypeOK, WalTypeOK
      <3> QED
        BY <2>1, <3>2 DEF Coherent, DamagedHead
    <2>4. CacheInMode' /\ HeadCounted' /\ NewFile' /\ OldFile' /\ Settled'
      BY DEF CacheInMode, HeadCounted, Placed, NewFile, OldFile, Settled, Creating
    <2> QED
      BY <2>2, <2>3, <2>4
  <1>3. CASE OpenNew
    <2> USE <1>3 DEF OpenNew, walVars
    <2> QED
      BY DEF CacheInMode, HeadCounted, Placed, NewFile, OldFile, Settled,
             RunningLog, Coherent, Creating
  <1>4. CASE CreatePage0 \/ CreatePage1
    <2> USE <1>4 DEF CreatePage0, CreatePage1
    <2>1. db'[0] = db[0] \/ db'[0] \in Header
      BY DEF TypeInv, TypeOK, WalTypeOK, Header, Creating
    <2>2. OldFile'
      BY <2>1 DEF OldFile, Creating
    <2>3. CacheInMode' /\ HeadCounted' /\ NewFile' /\ Settled' /\ RunningLog' /\ Coherent'
      BY DEF CacheInMode, HeadCounted, Placed, NewFile, Settled, RunningLog, Coherent,
             Creating
    <2> QED
      BY <2>2, <2>3
  <1>5. CASE CreateSync
    <2> USE <1>5 DEF CreateSync
    <2>1. log = <<>> /\ pageCache = EmptyCache /\ db[0] \in Header
      BY DEF NewFile, CacheInMode, Creating, TypeInv, HeaderKnown
    <2>2. Coherent'
      <3>1. ASSUME NEW p \in PageId PROVE ReadPage(p)' = Recovered(log, db, p)'
        BY <2>1, RecoveredFromNothing
        DEF ReadPage, EmptyCache, TypeInv, TypeOK, WalTypeOK
      <3> QED
        BY <3>1 DEF Coherent
    <2>3. RunningLog' /\ OldFile'
      BY <2>1 DEF RunningLog, AllWhole, OldFile
    <2>4. CacheInMode' /\ HeadCounted' /\ NewFile' /\ Settled'
      BY DEF CacheInMode, HeadCounted, Placed, NewFile, Settled, Creating
    <2> QED
      BY <2>2, <2>3, <2>4
  <1> QED
    BY <1>1, <1>2, <1>3, <1>4, <1>5 DEF Recovery

LEMMA CacheInvProgress == CacheInv /\ Progress /\ TypeInv' => CacheInv'
  <1> SUFFICES ASSUME CacheInv, Progress, TypeInv' PROVE CacheInv'
    OBVIOUS
  <1> USE ConstantFacts DEF CacheInv
  <1>1. CASE WriteDone
    <2> USE <1>1 DEF WriteDone, AppendDone
    <2> DEFINE new == NewChunk
    <2>1. /\ new \in Chunk /\ Whole(new) /\ new.start = FileLen(log)
          /\ new.page = frame.page /\ new.data = frame.data
          /\ frame.page \in PageId /\ frame.data \in Content
      BY NewChunks DEF TypeInv, TypeOK, WalTypeOK, Frame
    <2>2. log \in Seq(Chunk) /\ log' = Append(log, new) /\ logSynced' = log'
      BY DEF Written, TypeInv, TypeOK, WalTypeOK
    <2> HIDE DEF new
    <2>3. /\ Len(log') = Len(log) + 1 /\ log'[Len(log) + 1] = new
          /\ \A i \in 1..Len(log) : log'[i] = log[i]
          /\ log' # <<>>
      BY <2>1, <2>2, AppendedChunk
    <2>4. HeadCounted'
      BY <2>1, <2>2, PlacedAppend DEF HeadCounted
    <2>5. DamagedHead(log)' <=> DamagedHead(log)
      BY <2>1, <2>2, <2>3 DEF DamagedHead
    <2>6. RunningLog'
      BY <2>1, <2>2, <2>3, <2>5 DEF RunningLog, AllWhole
    <2>7. Coherent'
      <3> SUFFICES ASSUME ~DamagedHead(log), NEW p \in PageId
                   PROVE  ReadPage(p)' = Recovered(log, db, p)'
        BY <2>5 DEF Coherent
      <3>1. AllWhole(log)
        BY DEF RunningLog
      <3>2. CASE p = frame.page
        <4>1. ReadPage(p)' = frame.data
          BY <2>1, <3>2 DEF ReadPage, TypeInv, TypeOK
        <4>2. Recovered(Append(log, new), db, p) = new.data
          BY <2>1, <2>2, <3>1, <3>2, RecoveredAfterWhole
        <4> QED
          BY <2>1, <2>2, <3>2, <4>1, <4>2
      <3>3. CASE p # frame.page
        <4>1. ReadPage(p)' = ReadPage(p)
          BY <2>1, <3>3 DEF ReadPage, TypeInv, TypeOK
        <4>2. Recovered(log', db, p) = Recovered(log, db, p)
          BY <2>1, <2>2, <3>3, RecoveredAfterOther
        <4> QED
          BY <4>1, <4>2 DEF Coherent
      <3> QED
        BY <3>2, <3>3
    <2>8. CacheInMode' /\ NewFile' /\ OldFile' /\ Settled'
      BY DEF CacheInMode, NewFile, OldFile, Settled, Creating
    <2> QED
      BY <2>4, <2>6, <2>7, <2>8
  <1>2. CASE CheckpointStep
    <2> USE <1>2 DEF CheckpointStep, pagerVars
    <2>1. mode \in {"opening", "flushing"}
      BY DEF ReplayFrame, ReplayStop, SyncDb, TruncateLog, TypeInv, OpInMode
    <2>2. OldFile'
      <3>1. CASE ReplayFrame
        <4>1. cursor \in 1..Len(log) /\ log[cursor] \in Chunk /\ Whole(log[cursor])
          BY <3>1 DEF ReplayFrame, ReplayMore, TypeInv, TypeOK, WalTypeOK
        <4>2. log[cursor].page = 0 => log[cursor].data # Blank
          BY <4>1 DEF TypeInv, LogHolds, Holds, Held
        <4> QED
          BY <2>1, <3>1, <4>1, <4>2
          DEF ReplayFrame, OldFile, TypeInv, TypeOK, WalTypeOK
      <3>2. CASE SyncDb
        BY <2>1, <3>2 DEF SyncDb, OldFile
      <3>3. CASE ReplayStop \/ TruncateLog
        BY <2>1, <3>3 DEF ReplayStop, TruncateLog, OldFile
      <3> QED
        BY <3>1, <3>2, <3>3
    <2>3. HeadCounted' /\ Settled'
      <3>1. Placed(<<>>)
        BY DEF Placed
      <3> QED
        BY <2>1, <3>1
        DEF ReplayFrame, ReplayStop, SyncDb, TruncateLog, HeadCounted, Settled
    <2>4. CacheInMode' /\ NewFile' /\ RunningLog' /\ Coherent'
      BY <2>1 DEF CacheInMode, NewFile, RunningLog, Coherent, Creating
    <2> QED
      BY <2>2, <2>3, <2>4
  <1>3. CASE FlushDone
    <2> USE <1>3 DEF FlushDone, walVars
    <2>1. log = <<>> \/ DamagedHead(log)
      BY DEF Settled
    <2>2. RunningLog'
      BY <2>1 DEF RunningLog, AllWhole, DamagedHead
    <2>3. Coherent'
      <3>1. ASSUME log = <<>>, NEW p \in PageId
            PROVE  ReadPage(p)' = Recovered(log, db, p)'
        BY <3>1, RecoveredFromNothing
        DEF ReadPage, EmptyCache, TypeInv, TypeOK, WalTypeOK
      <3> QED
        BY <2>1, <3>1 DEF Coherent, DamagedHead
    <2>4. CacheInMode' /\ HeadCounted' /\ NewFile' /\ OldFile' /\ Settled'
      BY DEF CacheInMode, HeadCounted, Placed, NewFile, OldFile, Settled, Creating
    <2> QED
      BY <2>2, <2>3, <2>4
  <1> QED
    BY <1>1, <1>2, <1>3 DEF Progress

\* A crash keeps the chunks of the log where they are.
LEMMA CrashPlaced == CacheInv /\ Crash => HeadCounted'
  <1> SUFFICES ASSUME CacheInv, Crash PROVE HeadCounted'
    OBVIOUS
  <1> USE DEF CacheInv
  <1>1. log \in Seq(Chunk) /\ Placed(log) /\ Placed(logSynced) /\ Placed(<<>>)
    BY DEF TypeInv, TypeOK, WalTypeOK, HeadCounted, Placed
  <1>2. /\ NewChunk \in Chunk /\ NewChunk.start = FileLen(log) /\ FileLen(log) \in Nat
        /\ \A n \in 1..FrameSize : /\ Fragment(FileLen(log), n) \in Chunk
                                    /\ Fragment(FileLen(log), n).start = FileLen(log)
    <2>1. NewChunk \in Chunk /\ NewChunk.start = FileLen(log)
      BY NewChunks
    <2>2. FileLen(log) \in Nat
      BY <2>1 DEF Chunk
    <2> QED
      BY <2>1, <2>2, NewChunks
  <1>3. CASE Kill
    <2>1. logSynced' = logSynced
      BY <1>3 DEF Kill, WalKill
    <2>2. CASE log' = log \/ log' = <<>>
      BY <1>1, <2>1, <2>2 DEF HeadCounted
    <2>3. CASE log' = Append(log, NewChunk)
      <3>1. Placed(Append(log, NewChunk))
        BY <1>1, <1>2, PlacedAppend
      <3> QED
        BY <1>1, <2>1, <2>3, <3>1 DEF HeadCounted
    <2>4. CASE \E n \in 1..FrameSize-1 : log' = Append(log, Fragment(FileLen(log), n))
      <3>1. PICK n \in 1..FrameSize : log' = Append(log, Fragment(FileLen(log), n))
        BY <2>4, ConstantFacts
      <3>2. Placed(Append(log, Fragment(FileLen(log), n)))
        BY <1>1, <1>2, PlacedAppend
      <3> QED
        BY <1>1, <2>1, <3>1, <3>2 DEF HeadCounted
    <2> QED
      BY <1>3, <2>2, <2>3, <2>4 DEF Kill, WalKill, LogAfterKill
  <1>4. CASE PowerLoss
    <2>1. logSynced' = log' /\ LogAfterPowerLoss
      BY <1>4 DEF PowerLoss, WalPowerLoss
    <2>2. CASE log' = logSynced \/ log' = <<>>
      BY <1>1, <2>1, <2>2 DEF HeadCounted
    <2>3. CASE Remains(log')
      <3>1. Placed(Written)
        <4>1. Placed(Append(log, NewChunk))
          BY <1>1, <1>2, PlacedAppend
        <4> QED
          BY <1>1, <4>1 DEF Written
      <3>2. Written \in Seq(Chunk) /\ Len(log') <= Len(Written) /\ log' \in Seq(Chunk)
        BY <2>3, WrittenLog DEF Remains
      <3>3. \A i \in 1..Len(log') : /\ log'[i].start = Written[i].start
                                    /\ log'[i].len <= Written[i].len
                                    /\ Written[i].start \in Nat
                                    /\ Written[i].len \in Nat /\ log'[i].len \in Nat
        <4>1. ASSUME NEW i \in 1..Len(log')
              PROVE  /\ log'[i].start = Written[i].start
                     /\ log'[i].len <= Written[i].len
                     /\ Written[i].start \in Nat
                     /\ Written[i].len \in Nat /\ log'[i].len \in Nat
          <5>1. Written[i] \in Chunk /\ log'[i] \in Chunk
            BY <3>2
          <5>2. \/ log'[i] = Written[i]
                \/ /\ log'[i].start = Written[i].start
                   /\ log'[i].len <= Written[i].len
            BY <2>3 DEF Remains
          <5>3. /\ Written[i].start \in Nat
                /\ Written[i].len \in Nat /\ log'[i].len \in Nat
            BY <5>1, ChunkFields
          <5> QED
            BY <5>2, <5>3
        <4> QED
          BY <4>1
      <3>4. ASSUME NEW i \in 2..Len(log') PROVE log'[i].start >= log'[1].len
        <4>1. i \in 1..Len(log') /\ 1 \in 1..Len(log') /\ i \in 2..Len(Written)
          BY <3>2
        <4>2. Written[i].start >= Written[1].len
          BY <3>1, <4>1 DEF Placed
        <4> QED
          BY <3>3, <4>1, <4>2
      <3> QED
        BY <2>1, <3>4 DEF HeadCounted, Placed
    <2> QED
      BY <2>1, <2>2, <2>3, PowerLossLog
  <1> QED
    BY <1>3, <1>4 DEF Crash

LEMMA CacheInvCrash ==
  ASSUME "unsynced" \notin CrashWindows, CacheInv, Crash, TypeInv'
  PROVE  CacheInv'
  <1> USE ConstantFacts DEF CacheInv
  <1>1. HeadCounted'
    BY CrashPlaced
  <1>2. ProcessGone
    BY DEF Crash, Kill, PowerLoss
  <1>3. NewFile'
    <2> SUFFICES ASSUME db'[0] = Blank PROVE log' = <<>> /\ logSynced' = <<>>
      BY <1>2 DEF NewFile, DbExists, Creating, ProcessGone
    <2>1. mode \in Creating \/ (mode = "down" /\ ~DbExists)
      <3>1. CASE Kill
        BY <3>1 DEF Kill, WalKill, OldFile, TypeInv, TypeOK, Mode
      <3>2. CASE PowerLoss
        <4>1. db'[0] \in {db[0], dbSynced[0], Garbage} /\ ~LeftUnsynced
              /\ (db[0] = dbSynced[0] => db'[0] = db[0])
          BY <3>2 DEF PowerLoss, WalPowerLoss, DbAfterPowerLoss, Survivors
        <4>2. db[0] = Blank \/ mode \in Creating
          BY <4>1, DataAssumption DEF LeftUnsynced, OldFile
        <4> QED
          BY <4>2 DEF OldFile, DbExists, TypeInv, TypeOK, Mode
      <3> QED
        BY <3>1, <3>2 DEF Crash
    <2>2. log = <<>> /\ logSynced = <<>> /\ op = "none"
      BY <2>1 DEF NewFile, TypeInv, OpInMode, TypeOK, WalTypeOK, WalOp, Creating
    <2>3. CASE Kill
      BY <2>2, <2>3 DEF Kill, WalKill, LogAfterKill
    <2>4. CASE PowerLoss
      <3>1. logSynced' = log' /\ LogAfterPowerLoss
        BY <2>4 DEF PowerLoss, WalPowerLoss
      <3>2. Remains(log') => log' = <<>>
        <4>1. Len(Written) = 0
          BY <2>2, WrittenLog
        <4> QED
          BY <4>1 DEF Remains
      <3> QED
        BY <2>2, <3>1, <3>2, PowerLossLog
    <2> QED
      BY <2>3, <2>4 DEF Crash
  <1>4. OldFile'
    <2>1. CASE Kill
      BY <1>2, <2>1 DEF Kill, WalKill, OldFile, ProcessGone
    <2>2. CASE PowerLoss
      <3>1. db'[0] \in {db[0], dbSynced[0], Garbage} /\ dbSynced' = db'
        BY <2>2 DEF PowerLoss, WalPowerLoss, DbAfterPowerLoss, Survivors
      <3> QED
        BY <1>2, <3>1, DataAssumption DEF OldFile, ProcessGone
    <2> QED
      BY <2>1, <2>2 DEF Crash
  <1>5. CacheInMode' /\ Settled' /\ RunningLog' /\ Coherent'
    BY <1>2 DEF CacheInMode, Settled, RunningLog, Coherent, ProcessGone
  <1> QED
    BY <1>1, <1>3, <1>4, <1>5

LEMMA CacheInvNext ==
  ASSUME "unsynced" \notin CrashWindows, CacheInv, [Next]_vars
  PROVE  CacheInv'
  <1>1. TypeInv'
    BY TypeInvNext DEF CacheInv
  <1>2. CASE UNCHANGED vars
    <2> USE <1>2 DEF vars, walVars, pagerVars, CacheInv
    <2>1. CacheInMode' /\ HeadCounted' /\ NewFile' /\ OldFile' /\ Settled' /\ RunningLog'
      BY DEF CacheInMode, HeadCounted, NewFile, OldFile, Creating, DbExists, Settled,
             RunningLog
    <2>2. Coherent'
      BY DEF Coherent, ReadPage
    <2> QED
      BY <1>1, <2>1, <2>2
  <1> QED
    BY <1>1, <1>2, CacheInvClient, CacheInvRecovery, CacheInvProgress, CacheInvCrash
    DEF Next

LEMMA CacheInvAlways == "unsynced" \notin CrashWindows => (Spec => []CacheInv)
  <1> SUFFICES ASSUME "unsynced" \notin CrashWindows PROVE Spec => []CacheInv
    OBVIOUS
  <1>1. CacheInv /\ [Next]_vars => CacheInv'
    BY CacheInvNext
  <1> QED
    BY <1>1, CacheInvInit, PTL DEF Spec

\* Between two calls, what read_page returns through the cache or from the file
\* is what the next open would restore after a crash at that moment (pager.rs:
\* 107-129, 149-153; wal.rs:55-129), unless the log opens with a fragment, and
\* provided power never fails on what only a killed process has written.
THEOREM ReadsDurable == "unsynced" \notin CrashWindows => (Spec => []ReadsAreDurable)
  <1> SUFFICES ASSUME "unsynced" \notin CrashWindows PROVE Spec => []ReadsAreDurable
    OBVIOUS
  <1>1. CacheInv => ReadsAreDurable
    BY DEF CacheInv, Coherent, ReadsAreDurable, Idle
  <1> QED
    BY <1>1, CacheInvAlways, PTL
================================================================================
