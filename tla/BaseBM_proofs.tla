--------------------------- MODULE BaseBM_proofs ----------------------------
(***************************************************************************)
(* What each operation of the base block manager preserves, for every      *)
(* number of segments, channels and pages.  BMInv is the invariant of the  *)
(* block manager relative to the blocks its client holds.                  *)
(***************************************************************************)
EXTENDS BaseBM, FiniteSetTheorems, TLAPS

BMInv(b, held) ==
  /\ BMType(b)
  /\ OwnedOnce(b, held)
  /\ FreeBalanced(b)
  /\ FreeIsEmpty(b)
  /\ ValidIsWritten(b)

\* A page is a block and an index.
LEMMA PpaParts ==
  ASSUME NEW p \in Ppa
  PROVE  p[1] \in Block /\ p[2] \in Page /\ p = <<p[1], p[2]>>
  BY DEF Ppa

\* A block is a channel and a row.
LEMMA BlockParts ==
  ASSUME NEW b \in Block
  PROVE  b[1] \in Chan /\ b[2] \in Row /\ b = <<b[1], b[2]>>
  BY DEF Block

\* The block of a segment on a channel is a block.
LEMMA AtType ==
  ASSUME NEW vec \in [Chan -> Row], NEW c \in Chan
  PROVE  At(vec, c) \in Block /\ At(vec, c) = <<c, vec[c]>>
  BY DEF At, Block

\* Membership in the blocks of a vector of rows.
LEMMA BlocksOfMember ==
  ASSUME NEW vec \in [Chan -> Row], NEW c \in Chan, NEW r \in Row
  PROVE  <<c, r>> \in BlocksOf(vec) <=> r = vec[c]
  BY DEF BlocksOf, At

\* The first block leaves a free queue.
LEMMA TailRows ==
  ASSUME NEW q \in Seq(Row), q # << >>, \A i, j \in 1 .. Len(q) : q[i] = q[j] => i = j, NEW r
  PROVE  (\E i \in 1 .. Len(Tail(q)) : Tail(q)[i] = r)
           <=> (\E i \in 1 .. Len(q) : q[i] = r) /\ r # Head(q)
<1>1. /\ Len(q) \in Nat /\ 1 \in 1 .. Len(q) /\ Head(q) = q[1]
      /\ Len(Tail(q)) = Len(q) - 1
      /\ \A i \in 1 .. Len(q) - 1 : i + 1 \in 1 .. Len(q) /\ Tail(q)[i] = q[i + 1]
  OBVIOUS
<1>2. ASSUME NEW i \in 1 .. Len(Tail(q)), Tail(q)[i] = r
      PROVE  (\E j \in 1 .. Len(q) : q[j] = r) /\ r # Head(q)
  <2>1. i + 1 \in 1 .. Len(q) /\ q[i + 1] = r /\ i + 1 # 1
    BY <1>1, <1>2
  <2> QED BY <1>1, <2>1
<1>3. ASSUME NEW j \in 1 .. Len(q), q[j] = r, r # Head(q)
      PROVE  \E i \in 1 .. Len(Tail(q)) : Tail(q)[i] = r
  <2>1. j - 1 \in 1 .. Len(Tail(q)) /\ Tail(q)[j - 1] = r
    BY <1>1, <1>3
  <2> QED BY <2>1
<1> QED BY <1>2, <1>3

\* A block enters a free queue.
LEMMA AppendRows ==
  ASSUME NEW q \in Seq(Row), NEW x \in Row, NEW r
  PROVE  (\E i \in 1 .. Len(Append(q, x)) : Append(q, x)[i] = r)
           <=> (\E i \in 1 .. Len(q) : q[i] = r) \/ r = x
<1>1. /\ Len(q) \in Nat /\ Len(Append(q, x)) = Len(q) + 1
      /\ \A i \in 1 .. Len(q) : Append(q, x)[i] = q[i]
      /\ Append(q, x)[Len(q) + 1] = x
  OBVIOUS
<1>2. 1 .. Len(q) + 1 = (1 .. Len(q)) \cup {Len(q) + 1}
  BY <1>1
<1> QED BY <1>1, <1>2

\* base_create: every block is free and empty.
LEMMA InitLemma ==
  /\ BMInv(Init_bm, {})
  /\ \A c \in Chan : Len(Init_bm.free[c]) = NOS
  /\ Init_bm.valid = {}
<1> DEFINE q == [j \in 1 .. NOS |-> j - 1]
<1>1. q \in Seq(Row) /\ Len(q) = NOS
  BY BMAssumption DEF Row
<1>2. \A c \in Chan : Init_bm.free[c] = q
  BY DEF Init_bm
<1>3. BMType(Init_bm)
  <2>1. [c \in Chan |-> 0] \in [Chan -> Row]
    BY BMAssumption DEF Row
  <2> QED BY <1>1, <2>1, BMAssumption DEF Init_bm, BMType, U16
<1>4. \A c \in Chan, r \in Row : InFree(Init_bm, c, r)
  <2> SUFFICES ASSUME NEW c \in Chan, NEW r \in Row PROVE InFree(Init_bm, c, r)
    OBVIOUS
  <2>1. r + 1 \in 1 .. Len(q) /\ q[r + 1] = r
    BY <1>1, BMAssumption DEF Row
  <2> QED BY <2>1, <1>2, Zenon DEF InFree
<1>5. OwnedOnce(Init_bm, {})
  <2>1. \A c \in Chan, r \in Row : Init_bm.heap[c][r] = 0
    BY DEF Init_bm
  <2>2. \A i, j \in 1 .. Len(q) : q[i] = q[j] => i = j
    BY <1>1, BMAssumption
  <2> QED BY <1>2, <1>4, <2>1, <2>2, Zenon DEF OwnedOnce
<1>6. FreeBalanced(Init_bm)
  BY <1>2, Zenon DEF FreeBalanced
<1>7. FreeIsEmpty(Init_bm) /\ ValidIsWritten(Init_bm) /\ Init_bm.valid = {}
  BY DEF FreeIsEmpty, ValidIsWritten, Init_bm, Block
<1> QED BY <1>1, <1>2, <1>3, <1>5, <1>6, <1>7, Zenon DEF BMInv

\* base_get_segment: the first free block of every channel becomes a segment,
\* empty, that nobody else held; it enters the heaps unless it is the reserve.
LEMMA GetSegmentLemma ==
  ASSUME NEW b, NEW held, NEW isreserve \in BOOLEAN,
         BMInv(b, held), CanGetSegment(b)
  PROVE  LET vec == HeadRows(b)
             d   == GetSegment(b, isreserve)
         IN /\ vec \in [Chan -> Row]
            /\ BMInv(d, IF isreserve THEN held \cup BlocksOf(vec) ELSE held)
            /\ d.now = b.now /\ d.valid = b.valid /\ d.oob = b.oob
            /\ \A c \in Chan : Len(d.free[c]) = Len(b.free[c]) - 1
            /\ \A c \in Chan : /\ b.now[At(vec, c)] = 0
                               /\ At(vec, c) \notin held
                               /\ d.heap[c][vec[c]] = IF isreserve THEN 0 ELSE 1
<1> DEFINE vec == HeadRows(b)
           d == GetSegment(b, isreserve)
<1>0. BMType(b) /\ OwnedOnce(b, held) /\ FreeBalanced(b) /\ FreeIsEmpty(b) /\ ValidIsWritten(b)
  BY DEF BMInv
<1>1. /\ vec \in [Chan -> Row]
      /\ \A c \in Chan : vec[c] = b.free[c][1] /\ 1 \in 1 .. Len(b.free[c])
  BY <1>0 DEF HeadRows, CanGetSegment, BMType
<1>2. /\ d.free = [c \in Chan |-> Tail(b.free[c])]
      /\ d.heap = IF isreserve THEN b.heap ELSE HeapAppend(b.heap, vec)
      /\ d.now = b.now /\ d.valid = b.valid /\ d.oob = b.oob /\ d.inv = b.inv
      /\ d.segOf = [x \in Block |-> IF x[2] = vec[x[1]] THEN vec ELSE b.segOf[x]]
      /\ d.segs = [v \in DOMAIN b.segs \cup {vec} |-> IF v = vec THEN 0 ELSE b.segs[v]]
  BY <1>0 DEF GetSegment, BMType
<1>3. /\ HeapAppend(b.heap, vec) \in [Chan -> [Row -> Nat]]
      /\ \A c \in Chan, r \in Row :
           HeapAppend(b.heap, vec)[c][r] = IF r = vec[c] THEN b.heap[c][r] + 1 ELSE b.heap[c][r]
  BY <1>0, <1>1 DEF HeapAppend, BMType
<1>4. \A c \in Chan :
        /\ d.free[c] \in Seq(Row)
        /\ Len(d.free[c]) = Len(b.free[c]) - 1
        /\ \A i \in 1 .. Len(d.free[c]) : i + 1 \in 1 .. Len(b.free[c]) /\ d.free[c][i] = b.free[c][i + 1]
  BY <1>0, <1>1, <1>2 DEF BMType, CanGetSegment
<1> HIDE DEF vec, d
<1>5. BMType(d)
  <2>1. d.segs \in [DOMAIN d.segs -> Nat] /\ DOMAIN d.segs \subseteq [Chan -> Row]
    BY <1>0, <1>1, <1>2 DEF BMType
  <2>2. d.segOf \in [Block -> [Chan -> Row]]
    BY <1>0, <1>1, <1>2 DEF BMType
  <2>3. d.free \in [Chan -> Seq(Row)]
    BY <1>2, <1>4
  <2>4. d \in [free : {d.free}, heap : {d.heap}, now : {d.now}, inv : {d.inv}, valid : {d.valid},
                 oob : {d.oob}, segOf : {d.segOf}, segs : {d.segs}]
    BY <1>0, Zenon DEF BMType, GetSegment, d
  <2> QED BY <1>0, <1>2, <1>3, <2>1, <2>2, <2>3, <2>4, ZenonT(30) DEF BMType
<1>6. \A c \in Chan, r \in Row : InFree(d, c, r) <=> InFree(b, c, r) /\ r # vec[c]
  <2> SUFFICES ASSUME NEW c \in Chan, NEW r \in Row
               PROVE  InFree(d, c, r) <=> InFree(b, c, r) /\ r # vec[c]
    OBVIOUS
  <2>1. ASSUME InFree(d, c, r) PROVE InFree(b, c, r) /\ r # vec[c]
    <3>1. PICK i \in 1 .. Len(d.free[c]) : d.free[c][i] = r
      BY <2>1 DEF InFree
    <3>2. i + 1 \in 1 .. Len(b.free[c]) /\ b.free[c][i + 1] = r /\ i + 1 # 1
      BY <3>1, <1>4
    <3>3. \A j \in 1 .. Len(b.free[c]) : b.free[c][j] = r => j = i + 1
      BY <3>2, <1>0 DEF OwnedOnce
    <3> QED BY <3>2, <3>3, <1>1 DEF InFree
  <2>2. ASSUME InFree(b, c, r), r # vec[c] PROVE InFree(d, c, r)
    <3>1. PICK i \in 1 .. Len(b.free[c]) : b.free[c][i] = r
      BY <2>2 DEF InFree
    <3>2. i # 1 /\ Len(b.free[c]) \in Nat
      BY <3>1, <2>2, <1>0, <1>1 DEF BMType
    <3>3. i - 1 \in 1 .. Len(d.free[c]) /\ (i - 1) + 1 = i
      BY <3>1, <3>2, <1>4
    <3>4. d.free[c][i - 1] = r
      BY <3>1, <3>3, <1>4
    <3> QED BY <3>3, <3>4 DEF InFree
  <2> QED BY <2>1, <2>2
<1>7. \A c \in Chan : InFree(b, c, vec[c])
  BY <1>1 DEF InFree
<1>8. OwnedOnce(d, IF isreserve THEN held \cup BlocksOf(vec) ELSE held)
  <2> SUFFICES ASSUME NEW c \in Chan
               PROVE  /\ \A i, j \in 1 .. Len(d.free[c]) : d.free[c][i] = d.free[c][j] => i = j
                      /\ \A r \in Row : LET H == IF isreserve THEN held \cup BlocksOf(vec) ELSE held IN
                          \/ InFree(d, c, r)  /\ d.heap[c][r] = 0 /\ <<c, r>> \notin H
                          \/ ~InFree(d, c, r) /\ d.heap[c][r] = 1 /\ <<c, r>> \notin H
                          \/ ~InFree(d, c, r) /\ d.heap[c][r] = 0 /\ <<c, r>> \in H
    BY DEF OwnedOnce
  <2>1. \A i, j \in 1 .. Len(d.free[c]) : d.free[c][i] = d.free[c][j] => i = j
    <3> SUFFICES ASSUME NEW i \in 1 .. Len(d.free[c]), NEW j \in 1 .. Len(d.free[c]),
                        d.free[c][i] = d.free[c][j]
                 PROVE  i = j
      OBVIOUS
    <3>1. /\ i + 1 \in 1 .. Len(b.free[c]) /\ j + 1 \in 1 .. Len(b.free[c])
          /\ b.free[c][i + 1] = b.free[c][j + 1]
      BY <1>4
    <3>2. i + 1 = j + 1
      BY <3>1, <1>0 DEF OwnedOnce
    <3> QED BY <3>2
  <2>2. ASSUME NEW r \in Row
        PROVE  LET H == IF isreserve THEN held \cup BlocksOf(vec) ELSE held IN
                          \/ InFree(d, c, r)  /\ d.heap[c][r] = 0 /\ <<c, r>> \notin H
                          \/ ~InFree(d, c, r) /\ d.heap[c][r] = 1 /\ <<c, r>> \notin H
                          \/ ~InFree(d, c, r) /\ d.heap[c][r] = 0 /\ <<c, r>> \in H
    <3>1. <<c, r>> \in BlocksOf(vec) <=> r = vec[c]
      BY <1>1, BlocksOfMember
    <3> QED BY <3>1, <1>0, <1>2, <1>3, <1>6, <1>7 DEF OwnedOnce
  <2> QED BY <2>1, <2>2
<1>9. FreeBalanced(d)
  BY <1>0, <1>4, SMTT(30) DEF FreeBalanced
<1>10. FreeIsEmpty(d) /\ ValidIsWritten(d)
  BY <1>0, <1>2, <1>6 DEF FreeIsEmpty, ValidIsWritten
<1>11. \A c \in Chan : /\ b.now[At(vec, c)] = 0
                       /\ At(vec, c) \notin held
                       /\ d.heap[c][vec[c]] = IF isreserve THEN 0 ELSE 1
  <2> QED BY <1>0, <1>1, <1>2, <1>3, <1>7 DEF OwnedOnce, FreeIsEmpty, At
<1> QED BY <1>1, <1>2, <1>4, <1>5, <1>8, <1>9, <1>10, <1>11 DEF BMInv, vec, d

\* Blocks the client gives to the heaps (base_change_reserve's second half).
LEMMA InsertAllLemma ==
  ASSUME NEW b, NEW held, NEW vec \in [Chan -> Row],
         BMInv(b, held), BlocksOf(vec) \subseteq held
  PROVE  LET d == InsertAll(b, vec)
         IN /\ BMInv(d, held \ BlocksOf(vec))
            /\ d.free = b.free /\ d.now = b.now /\ d.valid = b.valid /\ d.oob = b.oob
            /\ \A c \in Chan : d.heap[c][vec[c]] = 1
<1> DEFINE d == InsertAll(b, vec)
<1>0. BMType(b) /\ OwnedOnce(b, held) /\ FreeBalanced(b) /\ FreeIsEmpty(b) /\ ValidIsWritten(b)
  BY DEF BMInv
<1>1. /\ d.free = b.free /\ d.heap = HeapAppend(b.heap, vec)
      /\ d.now = b.now /\ d.valid = b.valid /\ d.oob = b.oob
  BY <1>0 DEF BMType, InsertAll
<1>2. /\ d.heap \in [Chan -> [Row -> Nat]]
      /\ \A c \in Chan, r \in Row :
           d.heap[c][r] = IF r = vec[c] THEN b.heap[c][r] + 1 ELSE b.heap[c][r]
  BY <1>0, <1>1 DEF HeapAppend, BMType
<1>3. BMType(d)
  BY <1>0, <1>1, <1>2, Zenon DEF BMType, InsertAll
<1> HIDE DEF d
<1>4. \A c \in Chan, r \in Row : InFree(d, c, r) <=> InFree(b, c, r)
  BY <1>1 DEF InFree
<1>5. ASSUME NEW c \in Chan, NEW r \in Row
      PROVE  /\ \/ InFree(d, c, r)  /\ d.heap[c][r] = 0 /\ <<c, r>> \notin held \ BlocksOf(vec)
                \/ ~InFree(d, c, r) /\ d.heap[c][r] = 1 /\ <<c, r>> \notin held \ BlocksOf(vec)
                \/ ~InFree(d, c, r) /\ d.heap[c][r] = 0 /\ <<c, r>> \in held \ BlocksOf(vec)
             /\ r = vec[c] => d.heap[c][r] = 1
  <2>1. <<c, r>> \in BlocksOf(vec) <=> r = vec[c]
    BY BlocksOfMember
  <2>2. \/ InFree(b, c, r)  /\ b.heap[c][r] = 0 /\ <<c, r>> \notin held
        \/ ~InFree(b, c, r) /\ b.heap[c][r] = 1 /\ <<c, r>> \notin held
        \/ ~InFree(b, c, r) /\ b.heap[c][r] = 0 /\ <<c, r>> \in held
    BY <1>0 DEF OwnedOnce
  <2>3. d.heap[c][r] = IF r = vec[c] THEN b.heap[c][r] + 1 ELSE b.heap[c][r]
    BY <1>2
  <2>4. CASE r = vec[c]
    BY <2>1, <2>2, <2>3, <2>4, <1>4
  <2>5. CASE r # vec[c]
    BY <2>1, <2>2, <2>3, <2>5, <1>4
  <2> QED BY <2>4, <2>5
<1>6. OwnedOnce(d, held \ BlocksOf(vec))
  BY <1>0, <1>1, <1>5 DEF OwnedOnce
<1>7. FreeBalanced(d) /\ FreeIsEmpty(d) /\ ValidIsWritten(d)
  BY <1>0, <1>1, <1>4 DEF FreeBalanced, FreeIsEmpty, ValidIsWritten
<1>8. \A c \in Chan : d.heap[c][vec[c]] = 1
  BY <1>5, ZenonT(30)
<1> QED BY <1>1, <1>3, <1>6, <1>7, <1>8 DEF BMInv, d

\* base_get_gc_target: the victim's blocks leave the heaps, and nobody held them.
LEMMA GetGcTargetLemma ==
  ASSUME NEW b, NEW held, NEW v \in GcTargets(b), BMInv(b, held)
  PROVE  LET d == GetGcTarget(b, v)
         IN /\ v \in [Chan -> Row]
            /\ BMInv(d, held \cup BlocksOf(v))
            /\ d.free = b.free /\ d.now = b.now /\ d.valid = b.valid /\ d.oob = b.oob
            /\ held \cap BlocksOf(v) = {}
<1> DEFINE d == GetGcTarget(b, v)
<1>0. BMType(b) /\ OwnedOnce(b, held) /\ FreeBalanced(b) /\ FreeIsEmpty(b) /\ ValidIsWritten(b)
  BY DEF BMInv
<1>1. v \in [Chan -> Row] /\ \A c \in Chan : b.heap[c][v[c]] > 0
  BY Zenon DEF GcTargets, MostInvalid, InHeap
<1>2. /\ d.free = b.free /\ d.heap = [c \in Chan |-> [b.heap[c] EXCEPT ![v[c]] = @ - 1]]
      /\ d.now = b.now /\ d.valid = b.valid /\ d.oob = b.oob
  BY <1>0 DEF BMType, GetGcTarget
<1>3. /\ d.heap \in [Chan -> [Row -> Nat]]
      /\ \A c \in Chan, r \in Row :
           d.heap[c][r] = IF r = v[c] THEN b.heap[c][r] - 1 ELSE b.heap[c][r]
  BY <1>0, <1>1, <1>2 DEF BMType
<1>4. BMType(d)
  BY <1>0, <1>1, <1>2, <1>3, Zenon DEF BMType, GetGcTarget
<1> HIDE DEF d
<1>5. \A c \in Chan, r \in Row : InFree(d, c, r) <=> InFree(b, c, r)
  BY <1>2 DEF InFree
<1>6. ASSUME NEW c \in Chan, NEW r \in Row
      PROVE  /\ \/ InFree(d, c, r)  /\ d.heap[c][r] = 0 /\ <<c, r>> \notin held \cup BlocksOf(v)
                \/ ~InFree(d, c, r) /\ d.heap[c][r] = 1 /\ <<c, r>> \notin held \cup BlocksOf(v)
                \/ ~InFree(d, c, r) /\ d.heap[c][r] = 0 /\ <<c, r>> \in held \cup BlocksOf(v)
             /\ r = v[c] => <<c, r>> \notin held
  <2>1. <<c, r>> \in BlocksOf(v) <=> r = v[c]
    BY <1>1, BlocksOfMember
  <2>2. \/ InFree(b, c, r)  /\ b.heap[c][r] = 0 /\ <<c, r>> \notin held
        \/ ~InFree(b, c, r) /\ b.heap[c][r] = 1 /\ <<c, r>> \notin held
        \/ ~InFree(b, c, r) /\ b.heap[c][r] = 0 /\ <<c, r>> \in held
    BY <1>0 DEF OwnedOnce
  <2>3. d.heap[c][r] = IF r = v[c] THEN b.heap[c][r] - 1 ELSE b.heap[c][r]
    BY <1>3
  <2>4. CASE r = v[c]
    BY <2>1, <2>2, <2>3, <2>4, <1>1, <1>5
  <2>5. CASE r # v[c]
    BY <2>1, <2>2, <2>3, <2>5, <1>5
  <2> QED BY <2>4, <2>5
<1>7. OwnedOnce(d, held \cup BlocksOf(v))
  BY <1>0, <1>2, <1>6 DEF OwnedOnce
<1>8. FreeBalanced(d) /\ FreeIsEmpty(d) /\ ValidIsWritten(d)
  BY <1>0, <1>2, <1>5 DEF FreeBalanced, FreeIsEmpty, ValidIsWritten
<1>9. held \cap BlocksOf(v) = {}
  BY <1>1, <1>6 DEF BlocksOf, At
<1> QED BY <1>1, <1>2, <1>4, <1>7, <1>8, <1>9 DEF BMInv, d

\* base_trim_segment: the blocks the client held are free again, empty and with
\* no valid page; the other blocks are as they were.
LEMMA TrimSegmentLemma ==
  ASSUME NEW b, NEW held, NEW v \in [Chan -> Row],
         BMInv(b, held), BlocksOf(v) \subseteq held
  PROVE  LET d == TrimSegment(b, v)
         IN /\ BMInv(d, held \ BlocksOf(v))
            /\ CanGetSegment(d)
            /\ d.heap = b.heap
            /\ \A x \in Block : d.now[x] = IF x \in BlocksOf(v) THEN 0 ELSE b.now[x]
            /\ d.valid = {p \in b.valid : p[1] \notin BlocksOf(v)}
            /\ \A p \in Ppa : d.oob[p] = IF p[1] \in BlocksOf(v) THEN 0 ELSE b.oob[p]
<1> DEFINE d == TrimSegment(b, v)
<1>0. BMType(b) /\ OwnedOnce(b, held) /\ FreeBalanced(b) /\ FreeIsEmpty(b) /\ ValidIsWritten(b)
  BY DEF BMInv
<1>1. \A s : Cardinality(TrimmedOf(b, v, s)) \in Nat
  <2> SUFFICES ASSUME NEW s PROVE Cardinality(TrimmedOf(b, v, s)) \in Nat
    OBVIOUS
  <2>1. IsFiniteSet(Chan)
    BY FS_Interval, BMAssumption DEF Chan
  <2>2. TrimmedOf(b, v, s) \subseteq Chan
    BY DEF TrimmedOf
  <2> QED BY <2>1, <2>2, FS_Subset, FS_CardinalityType
<1>2. /\ d.free = [c \in Chan |-> Append(b.free[c], v[c])]
      /\ d.heap = b.heap
      /\ d.now = [x \in Block |-> IF x \in BlocksOf(v) THEN 0 ELSE b.now[x]]
      /\ d.inv = [x \in Block |-> IF x \in BlocksOf(v) THEN 0 ELSE b.inv[x]]
      /\ d.valid = {p \in b.valid : p[1] \notin BlocksOf(v)}
      /\ d.oob = [p \in Ppa |-> IF p[1] \in BlocksOf(v) THEN 0 ELSE b.oob[p]]
      /\ d.segOf = b.segOf
  BY <1>0 DEF BMType, TrimSegment
<1>3. \A c \in Chan :
        /\ d.free[c] \in Seq(Row)
        /\ Len(b.free[c]) \in Nat
        /\ Len(d.free[c]) = Len(b.free[c]) + 1
        /\ \A i \in 1 .. Len(b.free[c]) : d.free[c][i] = b.free[c][i]
        /\ d.free[c][Len(b.free[c]) + 1] = v[c]
        /\ d.free[c] # << >>
  <2> SUFFICES ASSUME NEW c \in Chan
               PROVE  /\ d.free[c] \in Seq(Row)
                      /\ Len(b.free[c]) \in Nat
                      /\ Len(d.free[c]) = Len(b.free[c]) + 1
                      /\ \A i \in 1 .. Len(b.free[c]) : d.free[c][i] = b.free[c][i]
                      /\ d.free[c][Len(b.free[c]) + 1] = v[c]
                      /\ d.free[c] # << >>
    OBVIOUS
  <2>1. b.free[c] \in Seq(Row) /\ v[c] \in Row
    BY <1>0 DEF BMType
  <2>2. d.free[c] = Append(b.free[c], v[c])
    BY <1>2
  <2> HIDE DEF d
  <2> QED BY <2>1, <2>2
<1>4. BMType(d)
  <2>1. d.segs \in [DOMAIN d.segs -> Nat] /\ DOMAIN d.segs \subseteq [Chan -> Row]
    <3> DEFINE gone == {s \in DOMAIN b.segs : b.segs[s] + Cardinality(TrimmedOf(b, v, s)) = BPS}
    <3>1. d.segs = [s \in DOMAIN b.segs \ gone |-> b.segs[s] + Cardinality(TrimmedOf(b, v, s))]
      BY <1>0 DEF BMType, TrimSegment
    <3> HIDE DEF gone, d
    <3> QED BY <3>1, <1>0, <1>1 DEF BMType
  <2>2. d \in [free : {d.free}, heap : {d.heap}, now : {d.now}, inv : {d.inv}, valid : {d.valid},
               oob : {d.oob}, segOf : {d.segOf}, segs : {d.segs}]
    BY <1>0, Zenon DEF BMType, TrimSegment
  <2> HIDE DEF d
  <2>3. d.free \in [Chan -> Seq(Row)]
    BY <1>2, <1>3
  <2>4. d.now \in [Block -> 0 .. PPB] /\ d.inv \in [Block -> 0 .. U16 - 1] /\ d.oob \in [Ppa -> Nat]
    <3>1. b.now \in [Block -> 0 .. PPB] /\ b.inv \in [Block -> 0 .. U16 - 1] /\ b.oob \in [Ppa -> Nat]
      BY <1>0 DEF BMType
    <3>2. 0 \in 0 .. PPB /\ 0 \in 0 .. U16 - 1
      BY BMAssumption DEF U16
    <3> QED BY <1>2, <3>1, <3>2
  <2>5. d.valid \in SUBSET Ppa
    BY <1>0, <1>2 DEF BMType
  <2> QED BY <1>0, <1>2, <2>1, <2>2, <2>3, <2>4, <2>5, Zenon DEF BMType
<1> HIDE DEF d
<1>5. \A c \in Chan, r \in Row : InFree(d, c, r) <=> InFree(b, c, r) \/ r = v[c]
  <2> SUFFICES ASSUME NEW c \in Chan, NEW r \in Row
               PROVE  InFree(d, c, r) <=> InFree(b, c, r) \/ r = v[c]
    OBVIOUS
  <2>1. ASSUME InFree(d, c, r) PROVE InFree(b, c, r) \/ r = v[c]
    <3>1. PICK i \in 1 .. Len(d.free[c]) : d.free[c][i] = r
      BY <2>1 DEF InFree
    <3>2. i \in 1 .. Len(b.free[c]) \/ i = Len(b.free[c]) + 1
      BY <1>3
    <3> QED BY <3>1, <3>2, <1>3 DEF InFree
  <2>2. ASSUME InFree(b, c, r) PROVE InFree(d, c, r)
    <3>1. PICK i \in 1 .. Len(b.free[c]) : b.free[c][i] = r
      BY <2>2 DEF InFree
    <3>2. i \in 1 .. Len(d.free[c]) /\ d.free[c][i] = r
      BY <3>1, <1>3
    <3> QED BY <3>2 DEF InFree
  <2>3. ASSUME r = v[c] PROVE InFree(d, c, r)
    <3>1. Len(b.free[c]) + 1 \in 1 .. Len(d.free[c])
      BY <1>3
    <3> QED BY <3>1, <2>3, <1>3 DEF InFree
  <2> QED BY <2>1, <2>2, <2>3
<1>6. \A c \in Chan : ~InFree(b, c, v[c])
  <2> SUFFICES ASSUME NEW c \in Chan PROVE ~InFree(b, c, v[c])
    OBVIOUS
  <2>1. <<c, v[c]>> \in held
    BY BlocksOfMember
  <2> QED BY <2>1, <1>0 DEF OwnedOnce
<1>7. OwnedOnce(d, held \ BlocksOf(v))
  <2>1. ASSUME NEW c \in Chan, NEW i \in 1 .. Len(d.free[c]), NEW j \in 1 .. Len(d.free[c]),
               d.free[c][i] = d.free[c][j]
        PROVE  i = j
    <3>1. \A k \in 1 .. Len(b.free[c]) : b.free[c][k] # v[c]
      BY <1>6 DEF InFree
    <3>2. /\ i \in 1 .. Len(b.free[c]) \/ i = Len(b.free[c]) + 1
          /\ j \in 1 .. Len(b.free[c]) \/ j = Len(b.free[c]) + 1
      BY <1>3
    <3>3. ASSUME i \in 1 .. Len(b.free[c]), j \in 1 .. Len(b.free[c]) PROVE i = j
      <4>1. b.free[c][i] = b.free[c][j]
        BY <2>1, <3>3, <1>3
      <4> QED BY <4>1, <3>3, <1>0 DEF OwnedOnce
    <3> QED BY <2>1, <3>1, <3>2, <3>3, <1>3
  <2>2. ASSUME NEW c \in Chan, NEW r \in Row
        PROVE  \/ InFree(d, c, r)  /\ d.heap[c][r] = 0 /\ <<c, r>> \notin held \ BlocksOf(v)
               \/ ~InFree(d, c, r) /\ d.heap[c][r] = 1 /\ <<c, r>> \notin held \ BlocksOf(v)
               \/ ~InFree(d, c, r) /\ d.heap[c][r] = 0 /\ <<c, r>> \in held \ BlocksOf(v)
    <3>1. <<c, r>> \in BlocksOf(v) <=> r = v[c]
      BY BlocksOfMember
    <3>2. \/ InFree(b, c, r)  /\ b.heap[c][r] = 0 /\ <<c, r>> \notin held
          \/ ~InFree(b, c, r) /\ b.heap[c][r] = 1 /\ <<c, r>> \notin held
          \/ ~InFree(b, c, r) /\ b.heap[c][r] = 0 /\ <<c, r>> \in held
      BY <1>0 DEF OwnedOnce
    <3>3. InFree(d, c, r) <=> InFree(b, c, r) \/ r = v[c]
      BY <1>5
    <3> QED BY <3>1, <3>2, <3>3, <1>2
  <2> QED BY <2>1, <2>2 DEF OwnedOnce
<1>8. FreeBalanced(d)
  BY <1>0, <1>3, Zenon DEF FreeBalanced
<1>9. FreeIsEmpty(d)
  <2> SUFFICES ASSUME NEW c \in Chan, NEW r \in Row, InFree(d, c, r)
               PROVE  d.now[<<c, r>>] = 0
    BY DEF FreeIsEmpty
  <2>1. <<c, r>> \in BlocksOf(v) <=> r = v[c]
    BY BlocksOfMember
  <2>2. <<c, r>> \in Block
    BY DEF Block
  <2> QED BY <2>1, <2>2, <1>0, <1>2, <1>5 DEF FreeIsEmpty
<1>10. ValidIsWritten(d)
  BY <1>0, <1>2, PpaParts DEF ValidIsWritten, BMType
<1>11. CanGetSegment(d)
  BY <1>3 DEF CanGetSegment
<1> QED BY <1>2, <1>4, <1>7, <1>8, <1>9, <1>10, <1>11 DEF BMInv, d

-----------------------------------------------------------------------------
(* Segments.                                                               *)

\* The channels on which segment s has lost its block: free, or of a later segment.
Gone(b, s) == {c \in Chan : InFree(b, c, s[c]) \/ b.segOf[At(s, c)] # s}

\* seg_idx of a block that is not free leads to a segment that has the block, and
\* invalid_blocks counts the blocks a segment has lost.
SegInv(b) ==
  /\ \A c \in Chan, r \in Row : ~InFree(b, c, r) =>
        b.segOf[<<c, r>>] \in DOMAIN b.segs /\ b.segOf[<<c, r>>][c] = r
  /\ \A s \in DOMAIN b.segs : b.segs[s] < BPS /\ b.segs[s] = Cardinality(Gone(b, s))

\* There are BPS channels.
LEMMA Channels ==
  /\ IsFiniteSet(Chan) /\ Cardinality(Chan) = BPS
  /\ \A C : C \subseteq Chan => /\ IsFiniteSet(C) /\ Cardinality(C) \in Nat
                                /\ Cardinality(C) <= BPS
                                /\ Cardinality(C) = BPS => C = Chan
<1>1. 0 \in Int /\ BPS - 1 \in Int /\ BPS - 1 >= 0 /\ BPS \in Nat
  BY BMAssumption
<1>2. IsFiniteSet(Chan) /\ Cardinality(Chan) = BPS
  BY <1>1, FS_Interval DEF Chan
<1>3. ASSUME NEW C, C \subseteq Chan
      PROVE  /\ IsFiniteSet(C) /\ Cardinality(C) \in Nat /\ Cardinality(C) <= BPS
             /\ Cardinality(C) = BPS => C = Chan
  <2>1. /\ IsFiniteSet(C) /\ Cardinality(C) <= Cardinality(Chan)
        /\ Cardinality(Chan) = Cardinality(C) => Chan = C
    BY <1>2, <1>3, FS_Subset
  <2> QED BY <1>2, <2>1, FS_CardinalityType
<1> QED BY <1>2, <1>3

\* The free queues and the segments are the same.
SameSegs(d, b) == d.free = b.free /\ d.segOf = b.segOf /\ d.segs = b.segs

\* A step that leaves free queues and segments alone.
LEMMA SegFrame ==
  ASSUME NEW b, NEW d, SegInv(b), SameSegs(d, b)
  PROVE  SegInv(d)
<1>1. \A c, r : InFree(d, c, r) <=> InFree(b, c, r)
  BY DEF InFree, SameSegs
<1>2. \A s : Gone(d, s) = Gone(b, s)
  BY <1>1 DEF Gone, SameSegs
<1> QED BY <1>1, <1>2 DEF SegInv, SameSegs

\* Bits, out-of-band data, write points and heaps are apart from free queues and segments.
LEMMA MarksKeepSegs ==
  ASSUME NEW b, BMType(b), NEW s, NEW p, NEW n, NEW l, NEW v
  PROVE  /\ SameSegs(UnpopulateBit(b, p), b)
         /\ SameSegs(GetGcTarget(b, v), b) /\ SameSegs(InsertAll(b, v), b)
         /\ SameSegs(SetOob(PopulateBit(TakePage(b, s), n), n, l), b)
         /\ SameSegs(SetOob(PopulateBit(UnpopulateBit(TakePage(b, s), p), n), n, l), b)
<1>1. SameSegs(UnpopulateBit(b, p), b)
  BY DEF SameSegs, BMType, UnpopulateBit
<1>2. SameSegs(GetGcTarget(b, v), b) /\ SameSegs(InsertAll(b, v), b)
  BY DEF SameSegs, BMType, GetGcTarget, InsertAll
<1>3. SameSegs(SetOob(PopulateBit(TakePage(b, s), n), n, l), b)
  BY DEF SameSegs, BMType, SetOob, PopulateBit, TakePage
<1>4. SameSegs(SetOob(PopulateBit(UnpopulateBit(TakePage(b, s), p), n), n, l), b)
  BY DEF SameSegs, BMType, SetOob, PopulateBit, UnpopulateBit, TakePage
<1> QED BY <1>1, <1>2, <1>3, <1>4

\* base_get_segment: no segment of seg_map has the vector of the new one, since all
\* its blocks were free; it gets their seg_idx, and nobody loses a block by it.
LEMMA GetSegmentSegs ==
  ASSUME NEW b, NEW held, NEW isreserve \in BOOLEAN,
         BMInv(b, held), CanGetSegment(b), SegInv(b)
  PROVE  SegInv(GetSegment(b, isreserve))
<1> DEFINE vec == HeadRows(b)
           d == GetSegment(b, isreserve)
<1>0. /\ b.free \in [Chan -> Seq(Row)] /\ b.segOf \in [Block -> [Chan -> Row]]
      /\ DOMAIN b.segs \subseteq [Chan -> Row] /\ OwnedOnce(b, held)
  BY DEF BMInv, BMType
<1>1. vec = [c \in Chan |-> Head(b.free[c])] /\ \A c \in Chan : b.free[c] # << >>
  BY DEF HeadRows, CanGetSegment
<1>2. /\ d.free = [c \in Chan |-> Tail(b.free[c])]
      /\ d.segOf = [x \in Block |-> IF x[2] = vec[x[1]] THEN vec ELSE b.segOf[x]]
      /\ d.segs = [v \in DOMAIN b.segs \cup {vec} |-> IF v = vec THEN 0 ELSE b.segs[v]]
  BY DEF GetSegment, BMInv, BMType
<1> HIDE DEF vec, d
<1>3. ASSUME NEW c \in Chan
      PROVE  /\ \A r \in Row : InFree(d, c, r) <=> InFree(b, c, r) /\ r # vec[c]
             /\ vec[c] \in Row /\ InFree(b, c, vec[c])
  <2>1. /\ b.free[c] \in Seq(Row) /\ b.free[c] # << >> /\ d.free[c] = Tail(b.free[c])
        /\ vec[c] = Head(b.free[c])
        /\ \A i, j \in 1 .. Len(b.free[c]) : b.free[c][i] = b.free[c][j] => i = j
    BY <1>0, <1>1, <1>2 DEF OwnedOnce
  <2>2. /\ vec[c] \in Row /\ 1 \in 1 .. Len(b.free[c]) /\ vec[c] = b.free[c][1]
    BY <2>1
  <2>3. ASSUME NEW r \in Row PROVE InFree(d, c, r) <=> InFree(b, c, r) /\ r # vec[c]
    <3>1. PICK q \in Seq(Row) : q = b.free[c]
      BY <2>1
    <3>2. /\ q # << >> /\ d.free[c] = Tail(q) /\ vec[c] = Head(q)
          /\ \A i, j \in 1 .. Len(q) : q[i] = q[j] => i = j
      BY <2>1, <3>1
    <3>3. (\E i \in 1 .. Len(Tail(q)) : Tail(q)[i] = r)
            <=> (\E i \in 1 .. Len(q) : q[i] = r) /\ r # Head(q)
      BY <3>2, TailRows
    <3> QED BY <3>1, <3>2, <3>3 DEF InFree
  <2> QED BY <2>2, <2>3 DEF InFree
<1>4. vec \in [Chan -> Row]
  BY <1>1, <1>3
<1>5. \A c \in Chan, r \in Row :
        d.segOf[<<c, r>>] = IF r = vec[c] THEN vec ELSE b.segOf[<<c, r>>]
  BY <1>2 DEF Block
<1>6. vec \notin DOMAIN b.segs
  <2>1. \A c \in Chan : c \in Gone(b, vec)
    BY <1>3, <1>4 DEF Gone
  <2>2. Gone(b, vec) = Chan
    BY <2>1 DEF Gone
  <2> QED BY <2>2, Channels, BMAssumption DEF SegInv
<1>7. ASSUME NEW c \in Chan, NEW r \in Row, ~InFree(d, c, r)
      PROVE  d.segOf[<<c, r>>] \in DOMAIN d.segs /\ d.segOf[<<c, r>>][c] = r
  <2>1. CASE r = vec[c]
    BY <2>1, <1>2, <1>5
  <2>2. CASE r # vec[c]
    BY <2>2, <1>2, <1>3, <1>5, <1>7 DEF SegInv
  <2> QED BY <2>1, <2>2
<1>8. Gone(d, vec) = {}
  <2>1. ASSUME NEW c \in Chan PROVE c \notin Gone(d, vec)
    BY <1>3, <1>4, <1>5 DEF Gone, At
  <2> QED BY <2>1 DEF Gone
<1>9. ASSUME NEW s \in DOMAIN b.segs PROVE Gone(d, s) = Gone(b, s) /\ s # vec
  <2>1. s \in [Chan -> Row] /\ s # vec
    BY <1>0, <1>6
  <2>2. ASSUME NEW c \in Chan PROVE c \in Gone(d, s) <=> c \in Gone(b, s)
    <3>1. s[c] \in Row /\ At(s, c) = <<c, s[c]>>
      BY <2>1 DEF At
    <3>2. /\ InFree(d, c, s[c]) <=> InFree(b, c, s[c]) /\ s[c] # vec[c]
          /\ InFree(b, c, vec[c])
          /\ d.segOf[At(s, c)] = IF s[c] = vec[c] THEN vec ELSE b.segOf[At(s, c)]
      BY <1>3, <1>5, <3>1
    <3> QED BY <2>1, <3>2 DEF Gone
  <2> QED BY <2>1, <2>2 DEF Gone
<1>10. ASSUME NEW s \in DOMAIN d.segs
       PROVE  d.segs[s] < BPS /\ d.segs[s] = Cardinality(Gone(d, s))
  <2>1. CASE s = vec
    <3>1. d.segs[s] = 0 /\ 0 < BPS
      BY <2>1, <1>2, BMAssumption
    <3> QED BY <2>1, <3>1, <1>8, FS_EmptySet
  <2>2. CASE s # vec
    <3>1. s \in DOMAIN b.segs /\ d.segs[s] = b.segs[s]
      BY <2>2, <1>2
    <3> QED BY <3>1, <1>9 DEF SegInv
  <2> QED BY <2>1, <2>2
<1> QED BY <1>7, <1>10 DEF SegInv, d

\* base_create: there is no segment yet.
LEMMA InitSegs == SegInv(Init_bm)
<1>1. \A c \in Chan, r \in Row : InFree(Init_bm, c, r)
  <2> SUFFICES ASSUME NEW c \in Chan, NEW r \in Row PROVE InFree(Init_bm, c, r)
    OBVIOUS
  <2>1. \/ InFree(Init_bm, c, r)
        \/ Init_bm.heap[c][r] = 1
        \/ <<c, r>> \in {}
    BY InitLemma DEF BMInv, OwnedOnce
  <2>2. Init_bm.heap[c][r] = 0
    BY DEF Init_bm
  <2> QED BY <2>1, <2>2
<1>2. DOMAIN Init_bm.segs = {}
  BY DEF Init_bm
<1> QED BY <1>1, <1>2 DEF SegInv

\* base_trim_segment: every block of the victim is found in seg_map, and a segment
\* leaves it with its last block.
LEMMA TrimSegmentSegs ==
  ASSUME NEW b, NEW held, NEW v \in [Chan -> Row],
         BMInv(b, held), BlocksOf(v) \subseteq held, SegInv(b)
  PROVE  SegInv(TrimSegment(b, v))
<1> DEFINE T(s) == TrimmedOf(b, v, s)
           d == TrimSegment(b, v)
<1>0. /\ b.free \in [Chan -> Seq(Row)] /\ b.segOf \in [Block -> [Chan -> Row]]
      /\ b.segs \in [DOMAIN b.segs -> Nat]
      /\ DOMAIN b.segs \subseteq [Chan -> Row] /\ OwnedOnce(b, held)
  BY DEF BMInv, BMType
<1>1. PICK out : /\ out = {s \in DOMAIN b.segs : b.segs[s] + Cardinality(T(s)) = BPS}
                 /\ d.segs = [s \in DOMAIN b.segs \ out |-> b.segs[s] + Cardinality(T(s))]
  BY DEF TrimSegment, BMInv, BMType
<1>2. d.free = [c \in Chan |-> Append(b.free[c], v[c])] /\ d.segOf = b.segOf
  BY DEF TrimSegment, BMInv, BMType
<1> HIDE DEF T, d
<1>3. ASSUME NEW c \in Chan
      PROVE  /\ \A r \in Row : InFree(d, c, r) <=> InFree(b, c, r) \/ r = v[c]
             /\ ~InFree(b, c, v[c])
  <2>1. b.free[c] \in Seq(Row) /\ v[c] \in Row /\ d.free[c] = Append(b.free[c], v[c])
    BY <1>0, <1>2
  <2>2. ASSUME NEW r \in Row PROVE InFree(d, c, r) <=> InFree(b, c, r) \/ r = v[c]
    <3>1. PICK q \in Seq(Row) : q = b.free[c]
      BY <2>1
    <3>2. PICK x \in Row : x = v[c]
      BY <2>1
    <3>3. (\E i \in 1 .. Len(Append(q, x)) : Append(q, x)[i] = r)
            <=> (\E i \in 1 .. Len(q) : q[i] = r) \/ r = x
      BY AppendRows
    <3> QED BY <2>1, <3>1, <3>2, <3>3 DEF InFree
  <2>3. <<c, v[c]>> \in held
    BY <2>1, BlocksOfMember
  <2>4. ~InFree(b, c, v[c])
    BY <1>0, <2>1, <2>3 DEF OwnedOnce
  <2> QED BY <2>2, <2>4
<1>4. ASSUME NEW s \in DOMAIN b.segs
      PROVE  Cardinality(Gone(d, s)) = b.segs[s] + Cardinality(T(s))
  <2>1. s \in [Chan -> Row]
    BY <1>0
  <2>2. ASSUME NEW c \in Chan
        PROVE  /\ c \in Gone(d, s) <=> c \in Gone(b, s) \/ c \in T(s)
               /\ ~(c \in Gone(b, s) /\ c \in T(s))
    <3>1. /\ s[c] \in Row /\ v[c] \in Row /\ At(s, c) = <<c, s[c]>> /\ At(v, c) = <<c, v[c]>>
      BY <2>1 DEF At
    <3>2. /\ InFree(d, c, s[c]) <=> InFree(b, c, s[c]) \/ s[c] = v[c]
          /\ ~InFree(b, c, v[c])
      BY <1>3, <3>1
    <3>3. b.segOf[At(v, c)][c] = v[c]
      BY <3>1, <3>2 DEF SegInv
    <3>4. c \in T(s) <=> b.segOf[At(v, c)] = s
      BY DEF T, TrimmedOf
    <3>5. c \in T(s) => s[c] = v[c]
      BY <3>3, <3>4
    <3>6. s[c] = v[c] => At(s, c) = At(v, c)
      BY <3>1
    <3>7. /\ c \in Gone(b, s) <=> InFree(b, c, s[c]) \/ b.segOf[At(s, c)] # s
          /\ c \in Gone(d, s) <=> InFree(d, c, s[c]) \/ b.segOf[At(s, c)] # s
      BY <1>2 DEF Gone
    <3> QED BY <3>2, <3>4, <3>5, <3>6, <3>7
  <2>3. Gone(d, s) \subseteq Chan /\ Gone(b, s) \subseteq Chan /\ T(s) \subseteq Chan
    BY DEF Gone, T, TrimmedOf
  <2>4. Gone(d, s) = Gone(b, s) \cup T(s) /\ Gone(b, s) \cap T(s) = {}
    BY <2>2, <2>3
  <2>5. IsFiniteSet(Gone(b, s)) /\ IsFiniteSet(T(s))
    BY <2>3, Channels
  <2>6. Cardinality(Gone(d, s)) = Cardinality(Gone(b, s)) + Cardinality(T(s))
    <3>1. Cardinality(Gone(b, s) \cup T(s)) =
            Cardinality(Gone(b, s)) + Cardinality(T(s)) - Cardinality(Gone(b, s) \cap T(s))
      BY <2>5, FS_Union
    <3>2. Cardinality(Gone(b, s) \cap T(s)) = 0
      BY <2>4, FS_EmptySet
    <3>3. Cardinality(Gone(b, s)) \in Nat /\ Cardinality(T(s)) \in Nat
      BY <2>5, FS_CardinalityType
    <3> QED BY <2>4, <3>1, <3>2, <3>3
  <2> QED BY <2>6 DEF SegInv
<1>5. ASSUME NEW s \in DOMAIN d.segs
      PROVE  d.segs[s] < BPS /\ d.segs[s] = Cardinality(Gone(d, s))
  <2>1. /\ s \in DOMAIN b.segs /\ s \notin out
        /\ d.segs[s] = b.segs[s] + Cardinality(T(s))
    BY <1>1
  <2>2. d.segs[s] = Cardinality(Gone(d, s)) /\ d.segs[s] # BPS
    BY <1>1, <1>4, <2>1
  <2>3. Gone(d, s) \subseteq Chan
    BY DEF Gone
  <2> QED BY <2>2, <2>3, Channels, BMAssumption
<1>6. ASSUME NEW c \in Chan, NEW r \in Row, ~InFree(d, c, r)
      PROVE  d.segOf[<<c, r>>] \in DOMAIN d.segs /\ d.segOf[<<c, r>>][c] = r
  <2>1. PICK s : s = b.segOf[<<c, r>>]
    OBVIOUS
  <2>2. s \in DOMAIN b.segs /\ s[c] = r
    BY <1>3, <1>6, <2>1 DEF SegInv
  <2>3. c \notin Gone(d, s)
    BY <1>2, <1>6, <2>1, <2>2 DEF Gone, At
  <2>4. Cardinality(Gone(d, s)) # BPS
    BY <2>3, Channels DEF Gone
  <2>5. s \notin out
    BY <1>1, <1>4, <2>2, <2>4
  <2> QED BY <1>1, <1>2, <2>1, <2>2, <2>5
<1> QED BY <1>5, <1>6 DEF SegInv, d

\* The width of invalid_number.
LEMMA U16Positive == U16 \in Nat /\ U16 # 0
  BY DEF U16

\* A 16-bit counter stays one.
LEMMA U16Next ==
  ASSUME NEW n \in 0 .. U16 - 1
  PROVE  (n + 1) % U16 \in 0 .. U16 - 1
<1>1. U16 \in Nat \ {0}
  BY U16Positive
<1>2. \A m \in Nat, k \in Nat \ {0} : m % k \in 0 .. k - 1
  OBVIOUS
<1>3. n + 1 \in Nat
  BY <1>1
<1> QED BY <1>1, <1>2, <1>3

\* base_unpopulate_bit changes one bit and one count.
LEMMA UnpopulateLemma ==
  ASSUME NEW b, NEW held, NEW p \in Ppa, BMInv(b, held)
  PROVE  LET d == UnpopulateBit(b, p)
         IN /\ BMInv(d, held)
            /\ d.free = b.free /\ d.heap = b.heap /\ d.now = b.now /\ d.oob = b.oob
            /\ d.valid = b.valid \ {p}
<1> DEFINE d == UnpopulateBit(b, p)
<1>0. BMType(b) /\ OwnedOnce(b, held) /\ FreeBalanced(b) /\ FreeIsEmpty(b) /\ ValidIsWritten(b)
  BY DEF BMInv
<1>1. p[1] \in Block /\ b.inv[p[1]] \in 0 .. U16 - 1
  BY <1>0, PpaParts DEF BMType
<1>2. (b.inv[p[1]] + 1) % U16 \in 0 .. U16 - 1
  BY <1>1, U16Next
<1>3. /\ d.free = b.free /\ d.heap = b.heap /\ d.now = b.now /\ d.oob = b.oob
      /\ d.valid = b.valid \ {p}
  BY <1>0 DEF BMType, UnpopulateBit
<1>4. BMType(d)
  BY <1>0, <1>1, <1>2, Zenon DEF BMType, UnpopulateBit
<1> HIDE DEF d
<1>5. OwnedOnce(d, held) /\ FreeBalanced(d) /\ FreeIsEmpty(d) /\ ValidIsWritten(d)
  BY <1>0, <1>3 DEF OwnedOnce, FreeBalanced, FreeIsEmpty, ValidIsWritten, InFree
<1> QED BY <1>3, <1>4, <1>5 DEF BMInv, d

\* base_populate_bit and base_set_oob on a written page.
LEMMA PopulateLemma ==
  ASSUME NEW b, NEW held, NEW p \in Ppa, NEW l \in Nat,
         BMInv(b, held), p[2] < b.now[p[1]]
  PROVE  LET d == SetOob(PopulateBit(b, p), p, l)
         IN /\ BMInv(d, held)
            /\ d.free = b.free /\ d.heap = b.heap /\ d.now = b.now
            /\ d.valid = b.valid \cup {p}
            /\ \A q \in Ppa : d.oob[q] = IF q = p THEN l ELSE b.oob[q]
<1> DEFINE d == SetOob(PopulateBit(b, p), p, l)
<1>0. BMType(b) /\ OwnedOnce(b, held) /\ FreeBalanced(b) /\ FreeIsEmpty(b) /\ ValidIsWritten(b)
  BY DEF BMInv
<1>1. /\ d.free = b.free /\ d.heap = b.heap /\ d.now = b.now
      /\ d.valid = b.valid \cup {p}
      /\ d.oob = [b.oob EXCEPT ![p] = l]
  BY <1>0 DEF BMType, PopulateBit, SetOob
<1>2. BMType(d)
  BY <1>0, Zenon DEF BMType, PopulateBit, SetOob
<1> HIDE DEF d
<1>3. OwnedOnce(d, held) /\ FreeBalanced(d) /\ FreeIsEmpty(d) /\ ValidIsWritten(d)
  BY <1>0, <1>1 DEF OwnedOnce, FreeBalanced, FreeIsEmpty, ValidIsWritten, InFree
<1>4. \A q \in Ppa : d.oob[q] = IF q = p THEN l ELSE b.oob[q]
  BY <1>0, <1>1 DEF BMType
<1> QED BY <1>1, <1>2, <1>3, <1>4 DEF BMInv, d

\* base_get_page_num and base_check_full judge a segment by its last channel, and
\* round robin makes that right: unless they say full, the next block has a page.
LEMMA RoomLemma ==
  ASSUME NEW b, NEW s \in Segment, BMType(b), Striped(b, s)
  PROVE  /\ b.now[NextBlock(s)] \in 0 .. PPB
         /\ ~NoPageLeft(b, s) => b.now[NextBlock(s)] < PPB
         /\ s.used < BPS * PPB => ~NoPageLeft(b, s)
         /\ CheckFull(b, s) <=> NoPageLeft(b, s)
<1> DEFINE k == b.now[LastBlock(s)]
<1>1. s.blk \in [Chan -> Row] /\ s.now \in Chan /\ BPS - 1 \in Chan /\ 0 \in Chan
  BY BMAssumption DEF Segment, Chan
<1>2. /\ LastBlock(s) \in Block /\ NextBlock(s) \in Block /\ At(s.blk, 0) \in Block
  BY <1>1, AtType DEF LastBlock, NextBlock
<1>3. k \in 0 .. PPB /\ b.now[NextBlock(s)] \in 0 .. PPB /\ b.now[At(s.blk, 0)] \in 0 .. PPB
  BY <1>2 DEF BMType
<1>4. b.now[NextBlock(s)] = k
  BY <1>1 DEF Striped, NextBlock, Chan
<1>5. b.now[At(s.blk, 0)] = IF 0 < s.now THEN k + 1 ELSE k
  BY <1>1 DEF Striped
<1>6. s.used = BPS * k + s.now
  BY DEF Striped
<1>7. k = PPB => s.now = 0
  BY <1>1, <1>3, <1>5, BMAssumption DEF Chan
<1>8. k = PPB => ~(s.used < BPS * PPB)
  BY <1>6, <1>7, BMAssumption
<1> QED BY <1>3, <1>4, <1>7, <1>8, BMAssumption DEF NoPageLeft, CheckFull

TakePagePost(b, held, s) ==
  LET d == TakePage(b, s)
      p == PageNum(b, s)
  IN /\ p \in Ppa /\ p[1] = NextBlock(s) /\ p[2] = b.now[p[1]] /\ p \notin b.valid
     /\ BMInv(d, held)
     /\ d.free = b.free /\ d.heap = b.heap /\ d.valid = b.valid /\ d.oob = b.oob
     /\ \A x \in Block : d.now[x] = IF x = p[1] THEN b.now[x] + 1 ELSE b.now[x]
     /\ Advance(s) \in Segment
     /\ Advance(s).blk = s.blk /\ Advance(s).used = s.used + 1
     /\ Striped(d, Advance(s))

\* base_get_page_num hands out a page of the segment beyond every written one, and
\* keeps the segment striped.
LEMMA TakePageLemma ==
  ASSUME NEW b, NEW held, NEW s \in Segment, BMInv(b, held), Striped(b, s),
         ~NoPageLeft(b, s), ~InFree(b, s.now, s.blk[s.now])
  PROVE  TakePagePost(b, held, s)
<1> DEFINE d == TakePage(b, s)
           p == PageNum(b, s)
           x0 == NextBlock(s)
           t == Advance(s)
           k == b.now[LastBlock(s)]
<1>0. BMType(b) /\ OwnedOnce(b, held) /\ FreeBalanced(b) /\ FreeIsEmpty(b) /\ ValidIsWritten(b)
  BY DEF BMInv
<1>1. s.blk \in [Chan -> Row] /\ s.now \in Chan /\ s.used \in Nat /\ BPS - 1 \in Chan
  BY BMAssumption DEF Segment, Chan
<1>2. x0 \in Block /\ x0 = <<s.now, s.blk[s.now]>> /\ LastBlock(s) \in Block
  BY <1>1, AtType DEF NextBlock, LastBlock
<1>3. b.now[x0] \in 0 .. PPB /\ b.now[x0] < PPB
  BY <1>0, RoomLemma
<1>4. p \in Ppa /\ p[1] = x0 /\ p[2] = b.now[x0] /\ p \notin b.valid
  <2>1. b.now[x0] \in Page
    BY <1>3, BMAssumption DEF Page
  <2> QED BY <2>1, <1>0, <1>2, <1>3 DEF PageNum, Ppa, ValidIsWritten
<1>5. /\ d.free = b.free /\ d.heap = b.heap /\ d.valid = b.valid /\ d.oob = b.oob
      /\ d.now = [b.now EXCEPT ![x0] = @ + 1]
  BY <1>0 DEF BMType, TakePage
<1>6. d.now \in [Block -> 0 .. PPB] /\ \A x \in Block : d.now[x] = IF x = x0 THEN b.now[x] + 1 ELSE b.now[x]
  <2>1. b.now \in [Block -> 0 .. PPB]
    BY <1>0 DEF BMType
  <2>2. b.now[x0] + 1 \in 0 .. PPB
    BY <1>3, BMAssumption
  <2> HIDE DEF x0, d
  <2> QED BY <2>1, <2>2, <1>2, <1>5
<1>7. BMType(d)
  BY <1>0, <1>6, Zenon DEF BMType, TakePage
<1>8. /\ t \in Segment /\ t.blk = s.blk /\ t.used = s.used + 1
      /\ t.now = IF s.now + 1 = BPS THEN 0 ELSE s.now + 1
  <2>1. s \in [blk : [Chan -> Row], now : Chan, used : Nat]
    BY DEF Segment
  <2>2. (IF s.now + 1 = BPS THEN 0 ELSE s.now + 1) \in Chan
    BY <1>1, BMAssumption DEF Chan
  <2>3. s.used + 1 \in Nat
    BY <1>1
  <2>4. /\ t.blk = s.blk /\ t.used = s.used + 1
        /\ t.now = IF s.now + 1 = BPS THEN 0 ELSE s.now + 1
    BY <2>1 DEF Advance
  <2>5. t \in [blk : {t.blk}, now : {t.now}, used : {t.used}]
    BY <2>1, Zenon DEF Advance
  <2> HIDE DEF t
  <2> QED BY <2>1, <2>2, <2>3, <2>4, <2>5 DEF Segment
<1> HIDE DEF d, t, x0, p
<1>9. OwnedOnce(d, held) /\ FreeBalanced(d)
  BY <1>0, <1>5 DEF OwnedOnce, FreeBalanced, InFree
<1>10. FreeIsEmpty(d)
  <2> SUFFICES ASSUME NEW c \in Chan, NEW r \in Row, InFree(d, c, r)
               PROVE  d.now[<<c, r>>] = 0
    BY DEF FreeIsEmpty
  <2>1. InFree(b, c, r) /\ <<c, r>> \in Block
    BY <1>5 DEF InFree, Block
  <2>2. <<c, r>> # x0
    BY <2>1, <1>2
  <2> QED BY <2>1, <2>2, <1>0, <1>6 DEF FreeIsEmpty
<1>11. ValidIsWritten(d)
  <2> SUFFICES ASSUME NEW q \in b.valid PROVE q[2] < d.now[q[1]]
    BY <1>5 DEF ValidIsWritten
  <2>1. q[1] \in Block /\ q[2] \in Page /\ q[2] < b.now[q[1]] /\ b.now[q[1]] \in 0 .. PPB
    BY <1>0, PpaParts DEF ValidIsWritten, BMType
  <2> QED BY <2>1, <1>6 DEF Page
<1>12. Striped(d, t)
  <2>1. \A c \in Chan : At(s.blk, c) \in Block /\ (At(s.blk, c) = x0 <=> c = s.now)
    BY <1>1, <1>2, AtType
  <2>2. \A c \in Chan : /\ b.now[At(s.blk, c)] = IF c < s.now THEN k + 1 ELSE k
                        /\ d.now[At(s.blk, c)] = IF c = s.now THEN b.now[At(s.blk, c)] + 1
                                                             ELSE b.now[At(s.blk, c)]
    BY <2>1, <1>6 DEF Striped
  <2>3. k \in 0 .. PPB /\ s.used = BPS * k + s.now
    BY <1>0, <1>2 DEF BMType, Striped
  <2>4. LastBlock(t) = At(s.blk, BPS - 1) /\ LastBlock(s) = At(s.blk, BPS - 1)
    BY <1>8 DEF LastBlock
  <2> HIDE DEF k
  <2>5. CASE s.now + 1 = BPS
    <3>1. d.now[LastBlock(t)] = k + 1
      BY <2>2, <2>3, <2>4, <2>5, <1>1, BMAssumption DEF Chan
    <3>2. \A c \in Chan : d.now[At(s.blk, c)] = k + 1
      BY <2>2, <2>3, <2>5, <1>1, BMAssumption DEF Chan
    <3>3. t.now = 0 /\ \A c \in Chan : ~(c < 0)
      BY <1>8, <2>5 DEF Chan
    <3>4. BPS * (k + 1) = BPS * k + BPS
      BY <2>3, BMAssumption
    <3>5. t.used = BPS * (k + 1) + t.now
      BY <3>3, <3>4, <2>3, <2>5, <1>1, <1>8, BMAssumption DEF Chan
    <3> QED BY <3>1, <3>2, <3>3, <3>5, <1>8 DEF Striped
  <2>6. CASE s.now + 1 # BPS
    <3>1. d.now[LastBlock(t)] = k
      BY <2>2, <2>3, <2>4, <2>6, <1>1, BMAssumption DEF Chan
    <3>2. t.now = s.now + 1
      BY <1>8, <2>6
    <3>3. \A c \in Chan : d.now[At(s.blk, c)] = IF c < t.now THEN k + 1 ELSE k
      <4> SUFFICES ASSUME NEW c \in Chan
                   PROVE  d.now[At(s.blk, c)] = IF c < t.now THEN k + 1 ELSE k
        OBVIOUS
      <4>1. c \in Int /\ s.now \in Int /\ k \in Int
        BY <2>3, <1>1 DEF Chan
      <4> QED BY <3>2, <2>2, <4>1
    <3>4. t.used = BPS * k + t.now
      BY <3>2, <2>3, <1>1, <1>8, BMAssumption DEF Chan
    <3> QED BY <3>1, <3>3, <3>4, <1>8 DEF Striped
  <2> QED BY <2>5, <2>6
<1> QED BY <1>4, <1>5, <1>6, <1>7, <1>8, <1>9, <1>10, <1>11, <1>12 DEF BMInv, d, t, x0, p, TakePagePost

=============================================================================
