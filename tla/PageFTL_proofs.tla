--------------------------- MODULE PageFTL_proofs ---------------------------
(***************************************************************************)
(* Invariants of the page-mapping FTL, for every number of segments,       *)
(* channels, pages and logical addresses.                                  *)
(***************************************************************************)
EXTENDS PageFTL, BaseBM_proofs

Held == BlocksOf(reserve.blk) \cup Victim

Data == Lba \cup {Null}

Erased(b, f) == \A p \in Ppa : p[2] >= b.now[p[1]] => f[p] = Null

Holds(b, f) == \A p \in b.valid : f[p] = b.oob[p]

\* What page_map_assign needs of the block manager b, the segment act and the
\* pages f it starts from: held are the blocks it must leave alone.
AssignPre(b, held, act, f) ==
  /\ BMInv(b, held) /\ b.oob \in [Ppa -> Lba]
  /\ act \in Segment /\ Striped(b, act) /\ \A c \in Chan : b.heap[c][act.blk[c]] = 1
  /\ f \in [Ppa -> Data]
  /\ LASYNC = 0 => Erased(b, f) /\ Holds(b, f)

AssignPost(b, held) ==
  /\ BMInv(bm', held) /\ bm'.oob \in [Ppa -> Lba]
  /\ active' \in Segment /\ Striped(bm', active')
  /\ \A c \in Chan : bm'.heap[c][active'.blk[c]] = 1
  /\ flash' \in [Ppa -> Data]
  /\ mapping' \in [Lba -> Ppa \cup {Null}]
  /\ lq' \in Seq(LowerOp)
  /\ halt' \in {"no", "storage", "noblock", "unmapped"}
  /\ \A x \in held \cap Block : bm'.now[x] = b.now[x]
  /\ LASYNC = 0 => lq' = lq /\ halt' # "storage" /\ Erased(bm', flash') /\ Holds(bm', flash')

\* A segment stays striped while its blocks' write points do not move.
LEMMA StripedFrame ==
  ASSUME NEW b, NEW d, NEW s \in Segment, Striped(b, s),
         \A c \in Chan : d.now[At(s.blk, c)] = b.now[At(s.blk, c)]
  PROVE  Striped(d, s)
<1>1. BPS - 1 \in Chan
  BY BMAssumption DEF Chan
<1> QED BY <1>1 DEF Striped, LastBlock

\* A segment of blocks with nothing written is striped.
LEMMA StripedFresh ==
  ASSUME NEW d, NEW s \in Segment, s.now = 0, s.used = 0,
         \A c \in Chan : d.now[At(s.blk, c)] = 0
  PROVE  Striped(d, s)
<1>1. BPS - 1 \in Chan /\ \A c \in Chan : ~(c < 0)
  BY BMAssumption DEF Chan
<1>2. d.now[LastBlock(s)] = 0
  BY <1>1, Zenon DEF LastBlock
<1>3. 0 = BPS * 0 + 0
  BY BMAssumption
<1> QED BY <1>1, <1>2, <1>3, Zenon DEF Striped

\* Logical addresses are naturals.
LEMMA LbaNat == Lba \subseteq Nat /\ 0 \in Lba
  BY FTLAssumption DEF Lba

\* A block in a heap is neither free nor held.
LEMMA HeapBlock ==
  ASSUME NEW b, NEW held, OwnedOnce(b, held), NEW c \in Chan, NEW r \in Row, b.heap[c][r] = 1
  PROVE  ~InFree(b, c, r) /\ <<c, r>> \notin held
  BY DEF OwnedOnce

\* A held block is neither free nor in a heap.
LEMMA HeldBlock ==
  ASSUME NEW b, NEW held, OwnedOnce(b, held), NEW c \in Chan, NEW r \in Row, <<c, r>> \in held
  PROVE  ~InFree(b, c, r)
  BY Zenon DEF OwnedOnce

\* page_map_assign.
LEMMA AssignLemma ==
  ASSUME NEW b, NEW held, NEW act, NEW f, NEW l \in Lba,
         AssignPre(b, held, act, f), Assign(b, act, f, l),
         mapping \in [Lba -> Ppa \cup {Null}], lq \in Seq(LowerOp), halt = "no"
  PROVE  AssignPost(b, held)
<1> DEFINE b1  == InvalidateOld(b, l)
           new == NoPageLeft(b1, act)
           seg == IF new THEN NewSegment(b1) ELSE act
           b2  == IF new THEN GetSegment(b1, FALSE) ELSE b1
           p   == PageNum(b2, seg)
           b3  == TakePage(b2, seg)
<1>0. /\ BMInv(b, held) /\ b.oob \in [Ppa -> Lba]
      /\ act \in Segment /\ Striped(b, act) /\ \A c \in Chan : b.heap[c][act.blk[c]] = 1
      /\ f \in [Ppa -> Data]
      /\ LASYNC = 0 => Erased(b, f) /\ Holds(b, f)
  BY Zenon DEF AssignPre
<1>1. /\ BMInv(b1, held)
      /\ b1.free = b.free /\ b1.heap = b.heap /\ b1.now = b.now /\ b1.oob = b.oob
      /\ b1.valid \subseteq b.valid
  <2>1. CASE mapping[l] = Null
    BY <2>1, <1>0, Zenon DEF InvalidateOld
  <2>2. CASE mapping[l] # Null
    <3>1. mapping[l] \in Ppa
      BY <2>2, Zenon
    <3>2. b1 = UnpopulateBit(b, mapping[l])
      BY <2>2, Zenon DEF InvalidateOld
    <3> HIDE DEF b1
    <3> QED BY <3>1, <3>2, <1>0, UnpopulateLemma
  <2> QED BY <2>1, <2>2, Zenon
<1> HIDE DEF b1
<1>2. Striped(b1, act)
  BY <1>0, <1>1, StripedFrame, Zenon
<1>3. CASE new /\ ~CanGetSegment(b1)
  <2>1. /\ halt' = "noblock" /\ bm' = b1 /\ active' = act /\ flash' = f
        /\ mapping' = mapping /\ lq' = lq
    BY <1>3, Zenon DEF Assign, b1
  <2>2. LASYNC = 0 => Erased(b1, f) /\ Holds(b1, f)
    BY <1>0, <1>1, Zenon DEF Erased, Holds
  <2> HIDE DEF new
  <2> QED BY <2>1, <2>2, <1>0, <1>1, <1>2, Zenon DEF AssignPost
<1>4. CASE ~(new /\ ~CanGetSegment(b1))
  <2>1. /\ BMInv(b2, held) /\ seg \in Segment /\ Striped(b2, seg) /\ ~NoPageLeft(b2, seg)
        /\ \A c \in Chan : b2.heap[c][seg.blk[c]] = 1
        /\ b2.now = b.now /\ b2.oob = b.oob /\ b2.valid \subseteq b.valid
    <3>1. CASE new
      <4>1. CanGetSegment(b1) /\ seg = NewSegment(b1) /\ b2 = GetSegment(b1, FALSE)
        BY <3>1, <1>4, Zenon
      <4> HIDE DEF new, seg, b2
      <4>2. /\ HeadRows(b1) \in [Chan -> Row] /\ BMInv(b2, held)
            /\ b2.now = b1.now /\ b2.valid = b1.valid /\ b2.oob = b1.oob
            /\ \A c \in Chan : b1.now[At(HeadRows(b1), c)] = 0 /\ b2.heap[c][HeadRows(b1)[c]] = 1
        BY <4>1, <1>1, GetSegmentLemma, ZenonT(30)
      <4>3. seg \in Segment /\ seg.blk = HeadRows(b1) /\ seg.now = 0 /\ seg.used = 0
        BY <4>1, <4>2, BMAssumption DEF NewSegment, Segment, Chan
      <4>4. Striped(b2, seg)
        BY <4>2, <4>3, StripedFresh, Zenon
      <4>5. BPS - 1 \in Chan /\ PPB # 0
        BY BMAssumption DEF Chan
      <4>6. ~NoPageLeft(b2, seg)
        BY <4>2, <4>3, <4>5, Zenon DEF NoPageLeft, LastBlock
      <4> QED BY <4>2, <4>3, <4>4, <4>6, <1>1, Zenon
    <3>2. CASE ~new
      BY <3>2, <1>0, <1>1, <1>2, Zenon
    <3> QED BY <3>1, <3>2, Zenon
  <2>2. /\ bm' = ValidatePpa(b3, p, l)
        /\ active' = Advance(seg)
        /\ mapping' = [mapping EXCEPT ![l] = p]
        /\ LowerWrite(f, p, l, TRUE)
    BY <1>4, Zenon DEF Assign, b1
  <2> HIDE DEF new, seg, b2
  <2>3. /\ seg.now \in Chan /\ seg.blk \in [Chan -> Row]
        /\ ~InFree(b2, seg.now, seg.blk[seg.now]) /\ <<seg.now, seg.blk[seg.now]>> \notin held
    <3>1. seg.now \in Chan /\ seg.blk \in [Chan -> Row] /\ OwnedOnce(b2, held)
      BY <2>1, Zenon DEF Segment, BMInv
    <3> QED BY <3>1, <2>1, HeapBlock, Zenon
  <2>4. /\ p \in Ppa /\ p[1] = NextBlock(seg) /\ p[2] = b2.now[p[1]] /\ p \notin b2.valid
        /\ BMInv(b3, held)
        /\ b3.free = b2.free /\ b3.heap = b2.heap /\ b3.valid = b2.valid /\ b3.oob = b2.oob
        /\ \A x \in Block : b3.now[x] = IF x = p[1] THEN b2.now[x] + 1 ELSE b2.now[x]
        /\ Advance(seg) \in Segment
        /\ Advance(seg).blk = seg.blk
        /\ Striped(b3, Advance(seg))
    <3>1. /\ BMInv(b2, held) /\ seg \in Segment /\ Striped(b2, seg)
          /\ ~NoPageLeft(b2, seg) /\ ~InFree(b2, seg.now, seg.blk[seg.now])
      BY <2>1, <2>3, Zenon
    <3>2. TakePagePost(b2, held, seg)
      BY <3>1, TakePageLemma, Zenon
    <3> QED BY <3>2, Zenon DEF TakePagePost
  <2>5. p[1] \in Block /\ p[2] \in Nat /\ p[1] \notin held /\ b2.now[p[1]] \in Nat
    <3>1. p[1] \in Block /\ p[2] \in Nat
      BY <2>4, PpaParts DEF Page
    <3>2. p[1] = <<seg.now, seg.blk[seg.now]>>
      BY <2>4, Zenon DEF NextBlock, At
    <3> QED BY <3>1, <3>2, <2>3, <2>4, SMTT(30)
  <2>6. p[2] < b3.now[p[1]]
    BY <2>4, <2>5
  <2> HIDE DEF p, b3
  <2>7. /\ BMInv(bm', held)
        /\ bm'.heap = b2.heap /\ bm'.now = b3.now
        /\ bm'.valid = b2.valid \cup {p}
        /\ \A q \in Ppa : bm'.oob[q] = IF q = p THEN l ELSE b2.oob[q]
    BY <2>2, <2>4, <2>6, LbaNat, PopulateLemma DEF ValidatePpa
  <2>8. bm'.oob \in [Ppa -> Lba]
    <3>1. bm'.oob = [q \in Ppa |-> bm'.oob[q]]
      BY <2>7, Zenon DEF BMInv, BMType
    <3> QED BY <3>1, <2>1, <2>7, <1>0
  <2>9. active' \in Segment /\ Striped(bm', active') /\ \A c \in Chan : bm'.heap[c][active'.blk[c]] = 1
    BY <2>1, <2>2, <2>4, <2>7, StripedFrame
  <2>10. mapping' \in [Lba -> Ppa \cup {Null}]
    BY <2>2, <2>4, Zenon
  <2>11. \A x \in held \cap Block : bm'.now[x] = b.now[x]
    BY <2>1, <2>4, <2>5, <2>7, Zenon
  <2>12. /\ flash' \in [Ppa -> Data] /\ lq' \in Seq(LowerOp)
         /\ halt' \in {"no", "storage", "noblock", "unmapped"}
    <3>1. CASE LASYNC = 1
      <4>1. lq' = Append(lq, [op |-> "w", host |-> TRUE, ppa |-> p, lba |-> l]) /\ flash' = f /\ halt' = halt
        BY <3>1, <2>2, Zenon DEF LowerWrite
      <4>2. [op |-> "w", host |-> TRUE, ppa |-> p, lba |-> l] \in LowerOp
        BY <2>4, Zenon DEF LowerOp
      <4> QED BY <4>1, <4>2, <1>0
    <3>2. CASE LASYNC # 1
      BY <3>2, <2>2, <2>4, <1>0, Zenon DEF LowerWrite, Push, Data
    <3> QED BY <3>1, <3>2, Zenon
  <2>13. ASSUME LASYNC = 0
         PROVE  lq' = lq /\ halt' # "storage" /\ Erased(bm', flash') /\ Holds(bm', flash')
    <3>1. Erased(b, f) /\ Holds(b, f)
      BY <2>13, <1>0, Zenon
    <3>2. f[p] = Null
      BY <3>1, <2>1, <2>4, <2>5 DEF Erased
    <3>3. lq' = lq /\ halt' = "no" /\ flash' = [f EXCEPT ![p] = l]
      BY <2>13, <3>2, <2>2 DEF LowerWrite, Push
    <3>4. Erased(bm', flash')
      <4> SUFFICES ASSUME NEW q \in Ppa, q[2] >= bm'.now[q[1]] PROVE flash'[q] = Null
        BY Zenon DEF Erased
      <4>1. q[1] \in Block /\ q[2] \in Nat /\ b2.now[q[1]] \in Nat
        <5>1. b2.now \in [Block -> 0 .. PPB]
          BY <2>1, Zenon DEF BMInv, BMType
        <5> QED BY <5>1, PpaParts DEF Page
      <4>2. q # p
        BY <4>1, <2>4, <2>5, <2>7
      <4>3. q[2] >= b.now[q[1]]
        BY <4>1, <2>1, <2>4, <2>7
      <4> QED BY <4>2, <4>3, <3>1, <3>3, <1>0, <2>4, Zenon DEF Erased
    <3>5. Holds(bm', flash')
      <4>0. b2.valid \subseteq Ppa
        BY <2>1, Zenon DEF BMInv, BMType
      <4> QED BY <4>0, <3>1, <3>3, <2>1, <2>4, <2>7, <1>0 DEF Holds
    <3> QED BY <3>3, <3>4, <3>5, Zenon
  <2> QED BY <2>7, <2>8, <2>9, <2>10, <2>11, <2>12, <2>13, Zenon DEF AssignPost
<1> QED BY <1>3, <1>4, Zenon

\* A victim has at most as many valid pages as a segment has pages.
LEMMA VictimPages ==
  ASSUME NEW b, BMType(b), NEW v \in [Chan -> Row]
  PROVE  /\ ValidIn(b, v) \subseteq Ppa
         /\ IsFiniteSet(ValidIn(b, v))
         /\ Cardinality(ValidIn(b, v)) \in Nat
         /\ Cardinality(ValidIn(b, v)) <= BPS * PPB
<1> DEFINE S == ValidIn(b, v)
           T == Chan \X Page
           f == [p \in S |-> <<p[1][1], p[2]>>]
<1>1. S \subseteq Ppa /\ \A p \in S : p[1] \in BlocksOf(v)
  BY Zenon DEF ValidIn, BMType
<1>2. \A p \in S : /\ p[1][1] \in Chan /\ p[2] \in Page
                    /\ p = <<<<p[1][1], v[p[1][1]]>>, p[2]>>
  <2> SUFFICES ASSUME NEW p \in S
               PROVE  /\ p[1][1] \in Chan /\ p[2] \in Page
                      /\ p = <<<<p[1][1], v[p[1][1]]>>, p[2]>>
    OBVIOUS
  <2>1. PICK c \in Chan : p[1] = <<c, v[c]>>
    BY <1>1, Zenon DEF BlocksOf, At
  <2>2. p[2] \in Page /\ p = <<p[1], p[2]>>
    BY <1>1, PpaParts, Zenon
  <2> QED BY <2>1, <2>2
<1> HIDE DEF S
<1>3. f \in Injection(S, T)
  <2>1. f \in [S -> T]
    BY <1>2, Zenon
  <2>2. \A p, q \in S : f[p] = f[q] => p = q
    <3> SUFFICES ASSUME NEW p \in S, NEW q \in S, f[p] = f[q] PROVE p = q
      OBVIOUS
    <3>1. p[1][1] = q[1][1] /\ p[2] = q[2]
      OBVIOUS
    <3> QED BY <3>1, <1>2, Zenon
  <2> QED BY <2>1, <2>2, Zenon DEF Injection, IsInjective
<1>4. /\ IsFiniteSet(Chan) /\ Cardinality(Chan) = BPS
      /\ IsFiniteSet(Page) /\ Cardinality(Page) = PPB
  BY FS_Interval, BMAssumption DEF Chan, Page
<1>5. IsFiniteSet(T) /\ Cardinality(T) = BPS * PPB
  BY <1>4, FS_Product, Zenon
<1>6. IsFiniteSet(S) /\ Cardinality(S) <= Cardinality(T)
  BY <1>3, <1>5, FS_Injection, Zenon
<1>7. Cardinality(S) \in Nat
  BY <1>6, FS_CardinalityType, Zenon
<1> QED BY <1>1, <1>5, <1>6, <1>7, Zenon DEF S

(***************************************************************************)
(* The inductive invariant: the block manager's own (BMInv), where the     *)
(* write points stand, what do_gc has still to move, and, when the lower   *)
(* layer runs inside the caller, what the pages hold.                      *)
(***************************************************************************)
SyncInv ==
  /\ lq = << >> /\ halt # "storage"
  /\ Erased(bm, flash)
  /\ ValidPageHoldsItsLba

IInv ==
  /\ TypeOK
  /\ BMInv(bm, Held)
  /\ BlocksOf(reserve.blk) \cap Victim = {}
  /\ WritePoints
  /\ GcHasRoomAndLosesNothing
  /\ pc = "idle" => reads = {}
  /\ LASYNC = 0 => SyncInv

\* page_map_create.
LEMMA InitIInv == Init => IInv
<1> SUFFICES ASSUME Init PROVE IInv
  OBVIOUS
<1> DEFINE b1 == GetSegment(Init_bm, TRUE)
<1>1. BMInv(Init_bm, {}) /\ Init_bm.valid = {} /\ \A c \in Chan : Len(Init_bm.free[c]) = NOS
  BY InitLemma, Zenon
<1>2. CanGetSegment(Init_bm)
  BY <1>1, BMAssumption DEF CanGetSegment
<1>3. /\ HeadRows(Init_bm) \in [Chan -> Row]
      /\ BMInv(b1, {} \cup BlocksOf(HeadRows(Init_bm)))
      /\ b1.now = Init_bm.now /\ b1.valid = Init_bm.valid /\ b1.oob = Init_bm.oob
      /\ \A c \in Chan : Len(b1.free[c]) = Len(Init_bm.free[c]) - 1
  <2>1. b1 = GetSegment(Init_bm, TRUE)
    OBVIOUS
  <2> HIDE DEF b1
  <2> QED BY <2>1, <1>1, <1>2, GetSegmentLemma, Zenon
<1> HIDE DEF b1
<1>4. CanGetSegment(b1)
  BY <1>1, <1>3, BMAssumption DEF CanGetSegment
<1> DEFINE R == BlocksOf(HeadRows(Init_bm))
<1>5. BMInv(b1, R)
  BY <1>3, Zenon
<1>6. /\ HeadRows(b1) \in [Chan -> Row]
      /\ BMInv(bm, R)
      /\ bm.now = b1.now /\ bm.valid = b1.valid /\ bm.oob = b1.oob
      /\ \A c \in Chan : bm.heap[c][HeadRows(b1)[c]] = 1
  <2>1. bm = GetSegment(b1, FALSE)
    BY Zenon DEF Init, b1
  <2> HIDE DEF R
  <2> QED BY <2>1, <1>4, <1>5, GetSegmentLemma, Zenon
<1>7. /\ reserve \in Segment /\ reserve.blk = HeadRows(Init_bm) /\ reserve.now = 0 /\ reserve.used = 0
      /\ active \in Segment /\ active.blk = HeadRows(b1) /\ active.now = 0 /\ active.used = 0
  <2>1. 0 \in Chan /\ 0 \in Nat
    BY BMAssumption DEF Chan
  <2>2. /\ reserve = [blk |-> HeadRows(Init_bm), now |-> 0, used |-> 0]
        /\ active = [blk |-> HeadRows(b1), now |-> 0, used |-> 0]
    BY Zenon DEF Init, NewSegment, b1
  <2> QED BY <2>1, <2>2, <1>3, <1>6, Zenon DEF Segment
<1>8. \A x \in Block : bm.now[x] = 0
  BY <1>3, <1>6 DEF Init_bm
<1>9. bm.oob = [p \in Ppa |-> 0] /\ bm.valid = {}
  BY <1>1, <1>3, <1>6, Zenon DEF Init_bm
<1>10. /\ pc = "idle" /\ pend = 0 /\ target = [c \in Chan |-> 0] /\ reads = {} /\ done = {}
       /\ buf = [p \in Ppa |-> Null] /\ flash = [p \in Ppa |-> Null] /\ lq = << >> /\ halt = "no"
       /\ mapping = [l \in Lba |-> Null]
  BY Zenon DEF Init
<1>11. TypeOK
  <2>1. 0 \in Row
    BY BMAssumption DEF Row
  <2>2. BMType(bm)
    BY <1>6, Zenon DEF BMInv
  <2> QED BY <1>7, <1>9, <1>10, <2>1, <2>2, LbaNat DEF TypeOK
<1>12. Victim = {} /\ Held = R
  BY <1>7, <1>10, Zenon DEF Victim, Held
<1>13. Striped(bm, reserve) /\ Striped(bm, active)
  <2>1. \A c \in Chan : At(reserve.blk, c) \in Block /\ At(active.blk, c) \in Block
    BY <1>7, AtType, Zenon DEF Segment
  <2> QED BY <2>1, <1>7, <1>8, StripedFresh, Zenon
<1>14. WritePoints
  BY <1>6, <1>7, <1>10, <1>13, Zenon DEF WritePoints
<1>15. GcHasRoomAndLosesNothing /\ SyncInv
  BY <1>9, <1>10, Zenon DEF GcHasRoomAndLosesNothing, SyncInv, Erased, ValidPageHoldsItsLba
<1> QED BY <1>6, <1>10, <1>11, <1>12, <1>14, <1>15, Zenon DEF IInv

\* page_write without garbage collection.
LEMMA PageWriteStep ==
  ASSUME IInv, NEW l \in Lba, PageWrite(l)
  PROVE  IInv'
<1>1. /\ halt = "no" /\ pc = "idle" /\ Assign(bm, active, flash, l)
      /\ reserve' = reserve /\ pc' = pc /\ pend' = pend /\ target' = target
      /\ reads' = reads /\ done' = done /\ buf' = buf
  BY Zenon DEF PageWrite, Ready, gcVars
<1>2. TypeOK /\ WritePoints /\ BMInv(bm, Held) /\ reads = {} /\ (LASYNC = 0 => SyncInv)
  BY <1>1, Zenon DEF IInv
<1>3. AssignPre(bm, Held, active, flash)
  BY <1>1, <1>2, Zenon DEF AssignPre, TypeOK, WritePoints, SyncInv, Data, Holds, ValidPageHoldsItsLba
<1>4. AssignPost(bm, Held)
  <2>1. mapping \in [Lba -> Ppa \cup {Null}] /\ lq \in Seq(LowerOp)
    BY <1>2, Zenon DEF TypeOK
  <2> QED BY <1>1, <1>3, <2>1, AssignLemma, Zenon
<1>5. Held' = Held /\ Held = BlocksOf(reserve.blk) /\ Victim' = {}
  BY <1>1, Zenon DEF Held, Victim
<1>6. TypeOK'
  BY <1>1, <1>2, <1>4, Zenon DEF TypeOK, AssignPost, BMInv, Data
<1>7. WritePoints'
  <2>1. \A c \in Chan : At(reserve.blk, c) \in Held \cap Block
    BY <1>2, <1>5, AtType, Zenon DEF TypeOK, Segment, BlocksOf
  <2>2. \A c \in Chan : bm'.now[At(reserve.blk, c)] = bm.now[At(reserve.blk, c)]
    BY <2>1, <1>4, Zenon DEF AssignPost
  <2>3. Striped(bm', reserve)
    BY <2>2, <1>2, StripedFrame DEF TypeOK, WritePoints
  <2> QED BY <2>3, <1>1, <1>2, <1>4, Zenon DEF WritePoints, AssignPost
<1>8. GcHasRoomAndLosesNothing' /\ (pc = "idle" => reads = {})'
  BY <1>1, <1>2, Zenon DEF GcHasRoomAndLosesNothing
<1>9. ASSUME LASYNC = 0 PROVE SyncInv'
  BY <1>9, <1>1, <1>2, <1>4, Zenon DEF SyncInv, AssignPost, Holds, ValidPageHoldsItsLba
<1>10. BMInv(bm', Held')
  BY <1>4, <1>5, Zenon DEF AssignPost
<1> QED BY <1>5, <1>6, <1>7, <1>8, <1>9, <1>10, Zenon DEF IInv

\* page_read.
LEMMA PageReadStep ==
  ASSUME IInv, NEW l \in Lba, PageRead(l)
  PROVE  IInv'
<1>1. /\ UNCHANGED <<ftlVars, gcVars, flash>> /\ TypeOK
  BY Zenon DEF PageRead, IInv
<1>2. /\ lq' \in Seq(LowerOp) /\ halt' \in {"no", "unmapped"}
      /\ LASYNC = 0 => lq' = lq
  <2>0. lq \in Seq(LowerOp) /\ mapping \in [Lba -> Ppa \cup {Null}] /\ halt = "no"
    BY <1>1, Zenon DEF TypeOK, PageRead, Ready
  <2>1. CASE mapping[l] # Null /\ LASYNC = 1
    <3>1. [op |-> "r", host |-> TRUE, ppa |-> mapping[l], lba |-> l] \in LowerOp
      BY <2>0, <2>1, Zenon DEF LowerOp
    <3>2. /\ lq' = Append(lq, [op |-> "r", host |-> TRUE, ppa |-> mapping[l], lba |-> l])
          /\ halt' = halt
      BY <2>1 DEF PageRead
    <3> QED BY <2>0, <2>1, <3>1, <3>2
  <2>2. CASE ~(mapping[l] # Null /\ LASYNC = 1)
    BY <2>0, <2>2, Zenon DEF PageRead
  <2> QED BY <2>1, <2>2, Zenon
<1> QED BY <1>1, <1>2, Zenon
  DEF IInv, ftlVars, gcVars, TypeOK, Held, Victim, WritePoints, GcHasRoomAndLosesNothing,
      SyncInv, ValidPageHoldsItsLba

\* l_main runs a request: nothing the FTL keeps changes.
LEMMA LowerStepStep ==
  ASSUME IInv, LowerStep
  PROVE  IInv'
<1>1. /\ UNCHANGED <<bm, mapping, active, reserve, pc, pend, target, reads>>
      /\ TypeOK /\ lq # << >> /\ lq' = Tail(lq)
  BY Zenon DEF LowerStep, ftlVars, IInv
<1>2. LASYNC # 0
  BY <1>1, Zenon DEF IInv, SyncInv
<1>3. Head(lq) \in LowerOp /\ lq' \in Seq(LowerOp)
  BY <1>1 DEF TypeOK
<1>4. /\ flash' \in [Ppa -> Data] /\ done' \subseteq Ppa /\ buf' \in [Ppa -> Data]
      /\ halt' \in {"no", "storage", "noblock", "unmapped"}
  <2> DEFINE r == Head(lq)
  <2>1. r.ppa \in Ppa /\ r.lba \in Data
    BY <1>3, Zenon DEF LowerOp, Data
  <2>2. /\ flash \in [Ppa -> Data] /\ done \subseteq Ppa /\ buf \in [Ppa -> Data]
        /\ halt \in {"no", "storage", "noblock", "unmapped"}
    BY <1>1, SMTT(30) DEF TypeOK, Data
  <2>3. \/ /\ flash' = IF flash[r.ppa] = Null THEN Push(flash, r.ppa, r.lba) ELSE flash
           /\ halt' \in {"no", "storage"} /\ done' = done /\ buf' = buf
        \/ flash' = flash /\ halt' = halt /\ done' = done /\ buf' = buf
        \/ /\ done' = done \cup {r.ppa} /\ buf' = [buf EXCEPT ![r.ppa] = flash[r.ppa]]
           /\ flash' = flash /\ halt' = halt
    BY Zenon DEF LowerStep
  <2> HIDE DEF r
  <2> QED BY <2>1, <2>2, <2>3, Zenon DEF Push
<1>5. TypeOK'
  BY <1>1, <1>3, <1>4, Zenon DEF TypeOK, Data
<1> QED BY <1>1, <1>2, <1>5, Zenon DEF IInv, Held, Victim, WritePoints, GcHasRoomAndLosesNothing

\* do_gc picks a victim and sends the reads.
LEMMA GcStartStep ==
  ASSUME IInv, NEW l \in Lba, GcStart(l)
  PROVE  IInv'
<1>1. PICK v \in GcTargets(bm) :
        /\ target' = v /\ bm' = GetGcTarget(bm, v) /\ reads' = ValidIn(bm, v)
        /\ IF LASYNC = 1
           THEN /\ \E q \in ReadOrder(ValidIn(bm, v)) :
                     lq' = lq \o [i \in 1 .. Cardinality(ValidIn(bm, v)) |->
                                    [op |-> "r", host |-> FALSE, ppa |-> q[i], lba |-> Null]]
                /\ done' = {} /\ buf' = buf
           ELSE /\ done' = ValidIn(bm, v)
                /\ buf' = [p \in Ppa |-> IF p \in ValidIn(bm, v) THEN flash[p] ELSE Null]
                /\ lq' = lq
  BY Zenon DEF GcStart
<1>2. /\ pc = "idle" /\ pc' = "gc" /\ pend' = l
      /\ UNCHANGED <<mapping, active, reserve, flash, halt>>
  BY Zenon DEF GcStart, Ready
<1>3. /\ TypeOK /\ WritePoints /\ BMInv(bm, Held) /\ BMType(bm)
      /\ Held = BlocksOf(reserve.blk) /\ (LASYNC = 0 => SyncInv)
  BY <1>2, Zenon DEF IInv, Held, Victim, BMInv
<1>4. /\ v \in [Chan -> Row] /\ BMInv(bm', Held \cup BlocksOf(v))
      /\ bm'.now = bm.now /\ bm'.valid = bm.valid /\ bm'.oob = bm.oob
      /\ Held \cap BlocksOf(v) = {}
  BY <1>1, <1>3, GetGcTargetLemma, Zenon
<1>5. /\ Held' = Held \cup BlocksOf(v) /\ Victim' = BlocksOf(v)
      /\ BlocksOf(reserve'.blk) = Held
  BY <1>1, <1>2, <1>3, Zenon DEF Held, Victim
<1> DEFINE S == ValidIn(bm, v)
<1>6. S \subseteq Ppa /\ Cardinality(S) \in Nat /\ Cardinality(S) <= BPS * PPB
  BY <1>3, <1>4, VictimPages, Zenon
<1>7. lq' \in Seq(LowerOp)
  <2>1. CASE LASYNC = 1
    <3>1. PICK q \in ReadOrder(S) :
            lq' = lq \o [i \in 1 .. Cardinality(S) |->
                           [op |-> "r", host |-> FALSE, ppa |-> q[i], lba |-> Null]]
      BY <1>1, <2>1, Zenon
    <3>2. q \in [1 .. Cardinality(S) -> S]
      BY Zenon DEF ReadOrder
    <3> HIDE DEF S
    <3>3. \A i \in 1 .. Cardinality(S) :
            [op |-> "r", host |-> FALSE, ppa |-> q[i], lba |-> Null] \in LowerOp
      BY <3>2, <1>6, Zenon DEF LowerOp
    <3> DEFINE t == [i \in 1 .. Cardinality(S) |->
                       [op |-> "r", host |-> FALSE, ppa |-> q[i], lba |-> Null]]
    <3>4. t \in [1 .. Cardinality(S) -> LowerOp]
      BY <3>3, Zenon
    <3>5. lq \in Seq(LowerOp) /\ lq' = lq \o t
      BY <1>3, <3>1, Zenon DEF TypeOK
    <3> HIDE DEF t
    <3>6. t \in Seq(LowerOp)
      BY <3>4, <1>6, SMTT(30)
    <3> QED BY <3>5, <3>6
  <2>2. CASE LASYNC # 1
    BY <2>2, <1>1, <1>3, Zenon DEF TypeOK
  <2> QED BY <2>1, <2>2, Zenon
<1>8. done' \subseteq Ppa /\ buf' \in [Ppa -> Lba \cup {Null}]
  <2> HIDE DEF S
  <2>1. flash \in [Ppa -> Lba \cup {Null}] /\ buf \in [Ppa -> Lba \cup {Null}]
    BY <1>3, Zenon DEF TypeOK
  <2> QED BY <2>1, <1>1, <1>6, Zenon DEF S
<1>9. TypeOK'
  BY <1>1, <1>2, <1>3, <1>4, <1>6, <1>7, <1>8, Zenon DEF TypeOK, BMInv
<1>10. WritePoints'
  <2>1. Striped(bm', reserve)
    BY <1>3, <1>4, StripedFrame, Zenon DEF WritePoints, TypeOK
  <2> QED BY <2>1, <1>2, Zenon DEF WritePoints
<1>11. GcHasRoomAndLosesNothing'
  <2>1. reserve.used = 0
    BY <1>2, <1>3, Zenon DEF WritePoints
  <2>2. Cardinality(reads') + reserve'.used <= BPS * PPB
    BY <2>1, <1>1, <1>2, <1>6
  <2> QED BY <2>2, <1>1, <1>4, Zenon DEF GcHasRoomAndLosesNothing, ValidIn
<1>12. ASSUME LASYNC = 0 PROVE SyncInv'
  <2>1. SyncInv /\ S \subseteq bm.valid
    BY <1>12, <1>3, Zenon DEF ValidIn
  <2>2. lq' = lq /\ reads' = S /\ buf' = [p \in Ppa |-> IF p \in S THEN flash[p] ELSE Null]
    BY <1>12, <1>1
  <2> HIDE DEF S
  <2>3. \A p \in S : buf'[p] = flash[p]
    BY <2>2, <1>6, Zenon
  <2>4. Erased(bm, flash)' /\ (lq = << >> /\ halt # "storage")'
    BY <2>1, <2>2, <1>2, <1>4, Zenon DEF SyncInv, Erased
  <2>5. ValidPageHoldsItsLba'
    BY <2>1, <2>2, <2>3, <1>2, <1>4 DEF SyncInv, ValidPageHoldsItsLba
  <2> QED BY <2>4, <2>5, Zenon DEF SyncInv
<1> QED BY <1>2, <1>4, <1>5, <1>9, <1>10, <1>11, <1>12, Zenon DEF IInv

\* do_gc moves a page.
LEMMA GcMoveStep ==
  ASSUME IInv, NEW p \in Ppa, GcMove(p)
  PROVE  IInv'
<1> DEFINE l  == bm.oob[p]
           n  == PageNum(bm, reserve)
           b1 == TakePage(bm, reserve)
           b2 == UnpopulateBit(b1, p)
<1>1. /\ halt = "no" /\ pc = "gc" /\ p \in reads /\ p \in done
      /\ bm' = ValidatePpa(b2, n, l) /\ reserve' = Advance(reserve)
      /\ LowerWrite(flash, n, buf[p], FALSE)
      /\ reads' = reads \ {p} /\ done' = done \ {p} /\ buf' = [buf EXCEPT ![p] = Null]
      /\ UNCHANGED <<mapping, active, pc, pend, target>>
  BY Zenon DEF GcMove
<1>2. /\ TypeOK /\ WritePoints /\ BMInv(bm, Held) /\ BMType(bm) /\ (LASYNC = 0 => SyncInv)
      /\ reads = ValidIn(bm, target) /\ Cardinality(reads) + reserve.used <= BPS * PPB
      /\ Held = BlocksOf(reserve.blk) \cup BlocksOf(target)
      /\ BlocksOf(reserve.blk) \cap BlocksOf(target) = {}
  BY <1>1, Zenon DEF IInv, Held, Victim, BMInv, GcHasRoomAndLosesNothing
<1>3. /\ reserve \in Segment /\ reserve.now \in Chan /\ reserve.blk \in [Chan -> Row]
      /\ reserve.used \in Nat /\ target \in [Chan -> Row] /\ l \in Lba
  BY <1>2, Zenon DEF TypeOK, Segment
<1>4. /\ IsFiniteSet(reads) /\ Cardinality(reads) \in Nat /\ Cardinality(reads) # 0
      /\ Cardinality(reads \ {p}) = Cardinality(reads) - 1
  <2>1. IsFiniteSet(reads) /\ Cardinality(reads) \in Nat
    BY <1>2, <1>3, VictimPages, SMTT(30)
  <2> QED BY <2>1, <1>1, FS_RemoveElement, FS_EmptySet, Zenon
<1>5. ~NoPageLeft(bm, reserve)
  <2>1. reserve.used < BPS * PPB
    <3>1. BPS * PPB \in Nat
      BY BMAssumption
    <3>2. \A i, j, k \in Nat : i # 0 /\ i + j <= k => j < k
      OBVIOUS
    <3> QED BY <3>1, <3>2, <1>2, <1>3, <1>4, Zenon
  <2> QED BY <2>1, <1>2, <1>3, RoomLemma, Zenon DEF WritePoints
<1>6. NextBlock(reserve) \in BlocksOf(reserve.blk) /\ ~InFree(bm, reserve.now, reserve.blk[reserve.now])
  <2>1. NextBlock(reserve) = <<reserve.now, reserve.blk[reserve.now]>>
    BY Zenon DEF NextBlock, At
  <2>2. NextBlock(reserve) \in BlocksOf(reserve.blk)
    BY <1>3, Zenon DEF BlocksOf, NextBlock
  <2>3. <<reserve.now, reserve.blk[reserve.now]>> \in Held
    BY <2>1, <2>2, <1>2, Zenon
  <2>4. OwnedOnce(bm, Held) /\ reserve.blk[reserve.now] \in Row
    BY <1>2, <1>3, ZenonT(30) DEF BMInv
  <2> QED BY <2>2, <2>3, <2>4, <1>3, HeldBlock, Zenon
<1>7. TakePagePost(bm, Held, reserve)
  BY <1>2, <1>3, <1>5, <1>6, TakePageLemma, Zenon DEF WritePoints
<1>8. /\ n \in Ppa /\ n[1] = NextBlock(reserve) /\ n[2] = bm.now[n[1]] /\ n \notin bm.valid
      /\ BMInv(b1, Held) /\ b1.valid = bm.valid /\ b1.oob = bm.oob
      /\ \A x \in Block : b1.now[x] = IF x = n[1] THEN bm.now[x] + 1 ELSE bm.now[x]
      /\ reserve' \in Segment /\ reserve'.blk = reserve.blk /\ reserve'.used = reserve.used + 1
      /\ Striped(b1, reserve')
  BY <1>7, <1>1, Zenon DEF TakePagePost
<1> HIDE DEF n, b1, l
<1>9. n[1] \in Block /\ n[2] \in Nat /\ p[1] \in Block /\ p[2] \in Nat
  BY <1>8, PpaParts DEF Page
<1>10. /\ BMInv(b2, Held) /\ b2.now = b1.now /\ b2.oob = b1.oob /\ b2.valid = b1.valid \ {p}
  <2>1. b2 = UnpopulateBit(b1, p)
    OBVIOUS
  <2>2. BMInv(b1, Held)
    BY <1>8, ZenonT(30)
  <2> HIDE DEF b2
  <2> QED BY <2>1, <2>2, UnpopulateLemma
<1> HIDE DEF b2
<1>11. n[2] < b2.now[n[1]]
  <2>1. b2.now[n[1]] = bm.now[n[1]] + 1
    BY <1>8, <1>9, <1>10, Zenon
  <2> QED BY <2>1, <1>8, <1>9
<1>12. /\ BMInv(bm', Held) /\ bm'.now = b1.now
       /\ bm'.valid = (bm.valid \ {p}) \cup {n}
       /\ \A q \in Ppa : bm'.oob[q] = IF q = n THEN l ELSE bm.oob[q]
  <2>1. bm' = SetOob(PopulateBit(b2, n), n, l) /\ l \in Nat /\ n \in Ppa
    BY <1>1, <1>3, <1>8, LbaNat, Zenon DEF ValidatePpa
  <2>2. /\ BMInv(bm', Held) /\ bm'.now = b2.now /\ bm'.valid = b2.valid \cup {n}
        /\ \A q \in Ppa : bm'.oob[q] = IF q = n THEN l ELSE b2.oob[q]
    BY <2>1, <1>10, <1>11, PopulateLemma
  <2> QED BY <2>2, <1>8, <1>10, SMTT(30)
<1>13. bm'.oob \in [Ppa -> Lba]
  <2>1. bm'.oob = [q \in Ppa |-> bm'.oob[q]]
    BY <1>12, Zenon DEF BMInv, BMType
  <2>2. bm.oob \in [Ppa -> Lba]
    BY <1>2, Zenon DEF TypeOK
  <2> QED BY <2>1, <2>2, <1>3, <1>12, Zenon
<1>14. Held' = Held /\ Victim' = BlocksOf(target) /\ BlocksOf(reserve'.blk) = BlocksOf(reserve.blk)
  BY <1>1, <1>2, <1>8, Zenon DEF Held, Victim
<1>15. /\ flash' \in [Ppa -> Data] /\ lq' \in Seq(LowerOp)
       /\ halt' \in {"no", "storage", "noblock", "unmapped"}
  <2>0. flash \in [Ppa -> Data] /\ lq \in Seq(LowerOp) /\ buf[p] \in Data
    BY <1>2, Zenon DEF TypeOK, Data
  <2>1. CASE LASYNC = 1
    <3>1. /\ lq' = Append(lq, [op |-> "w", host |-> FALSE, ppa |-> n, lba |-> buf[p]])
          /\ flash' = flash /\ halt' = halt
      BY <2>1, <1>1, SMTT(30) DEF LowerWrite
    <3>2. [op |-> "w", host |-> FALSE, ppa |-> n, lba |-> buf[p]] \in LowerOp
      BY <1>8, <2>0, Zenon DEF LowerOp, Data
    <3> QED BY <3>1, <3>2, <2>0, <1>1
  <2>2. CASE LASYNC # 1
    BY <2>2, <2>0, <1>1, <1>8, Zenon DEF LowerWrite, Push
  <2> QED BY <2>1, <2>2, SMTT(30)
<1>16. TypeOK'
  <2>1. buf' \in [Ppa -> Lba \cup {Null}]
    BY <1>1, <1>2, ZenonT(30) DEF TypeOK
  <2> QED BY <2>1, <1>1, <1>2, <1>8, <1>12, <1>13, <1>15, Zenon DEF TypeOK, BMInv, Data
<1>17. WritePoints'
  <2>1. Striped(bm', reserve')
    BY <1>8, <1>12, StripedFrame, Zenon
  <2> QED BY <2>1, <1>1, Zenon DEF WritePoints
<1>18. GcHasRoomAndLosesNothing'
  <2>1. n[1] \notin BlocksOf(target)
    BY <1>2, <1>6, <1>8, Zenon
  <2>2. ValidIn(bm', target') = reads'
    <3>1. bm'.valid = (bm.valid \ {p}) \cup {n} /\ target' = target /\ reads' = reads \ {p}
      BY <1>1, <1>12, Zenon
    <3>2. reads = {q \in bm.valid : q[1] \in BlocksOf(target)}
      BY <1>2, Zenon DEF ValidIn
    <3> QED BY <3>1, <3>2, <2>1, Zenon DEF ValidIn
  <2>3. Cardinality(reads') + reserve'.used <= BPS * PPB
    <3>1. /\ Cardinality(reads') = Cardinality(reads) - 1 /\ reserve'.used = reserve.used + 1
          /\ Cardinality(reads) \in Nat /\ reserve.used \in Nat
      BY <1>1, <1>3, <1>4, <1>8, Zenon
    <3>2. Cardinality(reads') + reserve'.used = Cardinality(reads) + reserve.used
      BY <3>1
    <3> QED BY <3>2, <1>2, Zenon
  <2> QED BY <2>2, <2>3, SMTT(30) DEF GcHasRoomAndLosesNothing
<1>19. ASSUME LASYNC = 0 PROVE SyncInv'
  <2>1. /\ lq = << >> /\ Erased(bm, flash)
        /\ \A q \in bm.valid : flash[q] = bm.oob[q]
        /\ \A q \in reads \cap done : buf[q] = bm.oob[q]
    BY <1>19, <1>2, Zenon DEF SyncInv, ValidPageHoldsItsLba
  <2>2. flash[n] = Null
    BY <2>1, <1>8, <1>9 DEF Erased
  <2>3. lq' = lq /\ halt' = "no" /\ flash' = [flash EXCEPT ![n] = l]
    <3>1. buf[p] = l
      BY <2>1, <1>1, Zenon DEF l
    <3> QED BY <3>1, <2>2, <1>1, <1>19 DEF LowerWrite, Push
  <2>4. flash \in [Ppa -> Data] /\ bm.valid \subseteq Ppa /\ reads \subseteq bm.valid
    BY <1>2, Zenon DEF TypeOK, Data, BMType, ValidIn
  <2>5. Erased(bm', flash')
    <3> SUFFICES ASSUME NEW q \in Ppa, q[2] >= bm'.now[q[1]] PROVE flash'[q] = Null
      BY Zenon DEF Erased
    <3>1. q[1] \in Block /\ q[2] \in Nat /\ bm.now[q[1]] \in Nat
      BY <1>2, PpaParts, SMTT(30) DEF Page, BMType
    <3>2. q[2] >= bm.now[q[1]]
      BY <3>1, <1>8, <1>12
    <3>3. q # n
      BY <3>1, <1>8, <1>9, <1>12, SMTT(30)
    <3> QED BY <3>2, <3>3, <2>1, <2>3, <2>4, Zenon DEF Erased
  <2>6. \A q \in bm'.valid : flash'[q] = bm'.oob[q]
    BY <2>1, <2>3, <2>4, <1>8, <1>12, SMTT(30)
  <2>7. \A q \in reads' \cap done' : buf'[q] = bm'.oob[q]
    <3> SUFFICES ASSUME NEW q \in reads, q \in done, q # p PROVE buf'[q] = bm'.oob[q]
      BY <1>1, Zenon
    <3>1. q \in Ppa /\ q # n /\ buf \in [Ppa -> Lba \cup {Null}]
      BY <2>4, <1>2, <1>8, Zenon DEF TypeOK
    <3> QED BY <3>1, <2>1, <1>1, <1>12, Zenon
  <2> QED BY <2>1, <2>3, <2>5, <2>6, <2>7, Zenon DEF SyncInv, ValidPageHoldsItsLba
<1> QED BY <1>1, <1>2, <1>12, <1>14, <1>16, <1>17, <1>18, <1>19, Zenon DEF IInv

\* do_gc trims the victim and turns to the reserve segment; the write goes on.
LEMMA GcEndStep ==
  ASSUME IInv, GcEnd
  PROVE  IInv'
<1> DEFINE b1 == TrimSegment(bm, target)
           b0 == GetSegment(b1, TRUE)
           b2 == ChangeReserve(b1, reserve)
           f  == TrimBlocks(flash, target)
           R  == BlocksOf(reserve.blk)
           T  == BlocksOf(target)
           N  == BlocksOf(HeadRows(b1))
<1>1. /\ halt = "no" /\ pc = "gc" /\ reads = {} /\ Assign(b2, reserve, f, pend)
      /\ reserve' = NewSegment(b1) /\ pc' = "idle"
      /\ UNCHANGED <<pend, target, reads, done, buf>>
  BY Zenon DEF GcEnd
<1>2. /\ TypeOK /\ WritePoints /\ BMInv(bm, R \cup T) /\ (LASYNC = 0 => SyncInv)
      /\ R \cap T = {} /\ reserve \in Segment /\ reserve.blk \in [Chan -> Row]
      /\ target \in [Chan -> Row] /\ pend \in Lba
  BY <1>1, Zenon DEF IInv, Held, Victim, TypeOK, Segment
<1>3. /\ BMInv(b1, (R \cup T) \ T) /\ CanGetSegment(b1)
      /\ \A x \in Block : b1.now[x] = IF x \in T THEN 0 ELSE bm.now[x]
      /\ b1.valid = {p \in bm.valid : p[1] \notin T}
      /\ \A p \in Ppa : b1.oob[p] = IF p[1] \in T THEN 0 ELSE bm.oob[p]
  <2> DEFINE h == R \cup T
  <2>1. BlocksOf(target) \subseteq h
    OBVIOUS
  <2>2. BMInv(bm, h) /\ target \in [Chan -> Row]
    BY <1>2, Zenon
  <2> HIDE DEF h
  <2> QED BY <2>1, <2>2, TrimSegmentLemma, Zenon DEF h
<1> HIDE DEF b1, R, T
<1>4. BMInv(b1, R)
  <2>1. (R \cup T) \ T = R
    BY <1>2, Zenon
  <2> QED BY <2>1, <1>3, Zenon
<1>5. /\ HeadRows(b1) \in [Chan -> Row] /\ BMInv(b0, R \cup N)
      /\ b0.now = b1.now /\ b0.valid = b1.valid /\ b0.oob = b1.oob
      /\ \A c \in Chan : b1.now[At(HeadRows(b1), c)] = 0 /\ At(HeadRows(b1), c) \notin R
  <2>1. b0 = GetSegment(b1, TRUE)
    OBVIOUS
  <2> HIDE DEF b0
  <2> QED BY <2>1, <1>3, <1>4, GetSegmentLemma, Zenon
<1>6. /\ BMInv(b2, (R \cup N) \ R)
      /\ b2.now = b1.now /\ b2.valid = b1.valid /\ b2.oob = b1.oob
      /\ \A c \in Chan : b2.heap[c][reserve.blk[c]] = 1
  <2> DEFINE h == R \cup N
  <2>1. b2 = InsertAll(b0, reserve.blk)
    BY Zenon DEF ChangeReserve
  <2>2. BMInv(b0, h) /\ BlocksOf(reserve.blk) \subseteq h /\ reserve.blk \in [Chan -> Row]
    BY <1>2, <1>5, Zenon DEF R
  <2> HIDE DEF b0, b2, N, h
  <2>3. /\ BMInv(b2, h \ BlocksOf(reserve.blk))
        /\ b2.now = b0.now /\ b2.valid = b0.valid /\ b2.oob = b0.oob
        /\ \A c \in Chan : b2.heap[c][reserve.blk[c]] = 1
    BY <2>1, <2>2, InsertAllLemma, Zenon
  <2> QED BY <2>3, <1>5, Zenon DEF h, R
<1> HIDE DEF b0, b2
<1>7. BMInv(b2, N)
  <2>1. N \cap R = {}
    BY <1>5, Zenon DEF BlocksOf
  <2>2. (R \cup N) \ R = N
    BY <2>1, Zenon
  <2> QED BY <2>2, <1>6, Zenon
<1> HIDE DEF N
<1>8. Striped(b2, reserve)
  <2>1. \A c \in Chan : At(reserve.blk, c) \in Block /\ At(reserve.blk, c) \notin T
    BY <1>2, AtType, Zenon DEF R, BlocksOf
  <2>2. \A c \in Chan : b2.now[At(reserve.blk, c)] = bm.now[At(reserve.blk, c)]
    BY <2>1, <1>3, <1>6, Zenon
  <2> QED BY <2>2, <1>2, StripedFrame DEF WritePoints
<1>9. b2.oob \in [Ppa -> Lba]
  <2>1. b2.oob = [p \in Ppa |-> b2.oob[p]]
    BY <1>7, Zenon DEF BMInv, BMType
  <2>2. bm.oob \in [Ppa -> Lba]
    BY <1>2, Zenon DEF TypeOK
  <2> QED BY <2>1, <2>2, <1>3, <1>6, LbaNat
<1>10. f \in [Ppa -> Data] /\ \A p \in Ppa : f[p] = IF p[1] \in T THEN Null ELSE flash[p]
  BY <1>2, Zenon DEF TrimBlocks, TypeOK, Data, T
<1> HIDE DEF f
<1>11. ASSUME LASYNC = 0 PROVE Erased(b2, f) /\ Holds(b2, f)
  <2>1. SyncInv /\ b2.valid \subseteq Ppa
    BY <1>11, <1>2, <1>7, Zenon DEF BMInv, BMType
  <2>2. Erased(b2, f)
    <3> SUFFICES ASSUME NEW p \in Ppa, p[2] >= b2.now[p[1]] PROVE f[p] = Null
      BY Zenon DEF Erased
    <3>1. b2.now[p[1]] = IF p[1] \in T THEN 0 ELSE bm.now[p[1]]
      BY <1>3, <1>6, PpaParts
    <3>2. p[2] >= bm.now[p[1]] => flash[p] = Null
      BY <2>1, Zenon DEF SyncInv, Erased
    <3> QED BY <3>1, <3>2, <1>10, Zenon
  <2>3. Holds(b2, f)
    BY <2>1, <1>3, <1>6, <1>10 DEF SyncInv, ValidPageHoldsItsLba, Holds
  <2> QED BY <2>2, <2>3, Zenon
<1>12. AssignPre(b2, N, reserve, f)
  BY <1>2, <1>6, <1>7, <1>8, <1>9, <1>10, <1>11, ZenonT(30) DEF AssignPre
<1>13. AssignPost(b2, N)
  <2>1. mapping \in [Lba -> Ppa \cup {Null}] /\ lq \in Seq(LowerOp)
    BY <1>2, Zenon DEF TypeOK
  <2>2. Assign(b2, reserve, f, pend)
    BY <1>1, Zenon DEF f, b2, b1
  <2> QED BY <1>1, <1>2, <1>12, <2>1, <2>2, AssignLemma, Zenon
<1>14. /\ reserve'.blk = HeadRows(b1) /\ reserve'.now = 0 /\ reserve'.used = 0
       /\ reserve' \in Segment
  <2>1. reserve' = [blk |-> HeadRows(b1), now |-> 0, used |-> 0]
    BY <1>1, Zenon DEF NewSegment, b1
  <2>2. 0 \in Chan /\ 0 \in Nat
    BY BMAssumption DEF Chan
  <2> QED BY <2>1, <2>2, <1>5, Zenon DEF Segment
<1>15. Held' = N /\ Victim' = {}
  BY <1>1, <1>14, Zenon DEF Held, Victim, N
<1>16. TypeOK'
  BY <1>1, <1>2, <1>13, <1>14, Zenon DEF TypeOK, AssignPost, BMInv, Data
<1>17. WritePoints'
  <2>1. \A c \in Chan : At(reserve'.blk, c) \in N \cap Block
    BY <1>5, <1>14, AtType, Zenon DEF N, BlocksOf
  <2>2. \A c \in Chan : bm'.now[At(reserve'.blk, c)] = 0
    BY <2>1, <1>5, <1>6, <1>13, <1>14, Zenon DEF AssignPost
  <2>3. Striped(bm', reserve')
    BY <2>2, <1>14, StripedFresh, Zenon
  <2> QED BY <2>3, <1>13, <1>14, Zenon DEF WritePoints, AssignPost
<1>18. GcHasRoomAndLosesNothing' /\ reads' = {}
  BY <1>1, Zenon DEF GcHasRoomAndLosesNothing
<1>19. ASSUME LASYNC = 0 PROVE SyncInv'
  BY <1>19, <1>2, <1>13, <1>18, Zenon DEF SyncInv, AssignPost, Holds, ValidPageHoldsItsLba
<1>20. BMInv(bm', Held')
  BY <1>13, <1>15, Zenon DEF AssignPost
<1> QED BY <1>15, <1>16, <1>17, <1>18, <1>19, <1>20, Zenon DEF IInv

\* IInv is inductive.
LEMMA NextIInv == IInv /\ [Next]_vars => IInv'
<1> SUFFICES ASSUME IInv, [Next]_vars PROVE IInv'
  OBVIOUS
<1>1. ASSUME NEW l \in Lba, PageWrite(l) PROVE IInv'
  BY <1>1, PageWriteStep, Zenon
<1>2. ASSUME NEW l \in Lba, PageRead(l) PROVE IInv'
  BY <1>2, PageReadStep, Zenon
<1>3. ASSUME NEW l \in Lba, GcStart(l) PROVE IInv'
  BY <1>3, GcStartStep, Zenon
<1>4. ASSUME NEW p \in Ppa, GcMove(p) PROVE IInv'
  BY <1>4, GcMoveStep, Zenon
<1>5. CASE GcEnd
  BY <1>5, GcEndStep, Zenon
<1>6. CASE LowerStep
  BY <1>6, LowerStepStep, Zenon
<1>7. CASE UNCHANGED vars
  BY <1>7, Zenon DEF vars, ftlVars, gcVars, lowerVars, IInv, TypeOK, Held, Victim, WritePoints,
              GcHasRoomAndLosesNothing, SyncInv, ValidPageHoldsItsLba
<1> QED BY <1>1, <1>2, <1>3, <1>4, <1>5, <1>6, <1>7, Zenon DEF Next, Dead

\* The inductive invariant holds of every behaviour.
LEMMA InvariantHolds == Spec => []IInv
  BY InitIInv, NextIInv, PTL DEF Spec

-----------------------------------------------------------------------------

\* The FTL, its block manager and the lower layer keep their types: write points
\* stay inside their blocks and invalid counts within 16 bits.
THEOREM TypeCorrect == Spec => []TypeOK
<1>1. IInv => TypeOK
  BY Zenon DEF IInv
<1> QED BY <1>1, InvariantHolds, PTL

\* base_get_segment, base_get_gc_target, base_change_reserve and base_trim_segment
\* never lose a block or give one to two owners.
THEOREM BlocksOwnedOnceHolds == Spec => []BlocksOwnedOnce
<1>1. IInv => BlocksOwnedOnce
  BY Zenon DEF IInv, BMInv, BlocksOwnedOnce, Held
<1> QED BY <1>1, InvariantHolds, PTL

\* do_gc has a page in the reserve segment for every page it moves, even for a
\* victim without an invalid page, and trims only what it has moved.
THEOREM GcSafe == Spec => []GcHasRoomAndLosesNothing
<1>1. IInv => GcHasRoomAndLosesNothing
  BY Zenon DEF IInv
<1> QED BY <1>1, InvariantHolds, PTL

\* base_get_page_num and base_check_full may look at the last channel alone.
THEOREM WritePointsHold == Spec => []WritePoints
<1>1. IInv => WritePoints
  BY Zenon DEF IInv
<1> QED BY <1>1, InvariantHolds, PTL

\* In the synchronous build no page is written before it was erased.
THEOREM ErasedAheadHolds == ASSUME LASYNC = 0 PROVE Spec => []ErasedAhead
<1>1. IInv => ErasedAhead
  <2> SUFFICES ASSUME IInv, NEW p \in Ppa, p[2] >= bm.now[p[1]]
               PROVE  flash[p] = Null /\ p \notin bm.valid
    BY Zenon DEF ErasedAhead
  <2>1. Erased(bm, flash) /\ ValidIsWritten(bm) /\ BMType(bm)
    BY Zenon DEF IInv, SyncInv, BMInv
  <2>2. p[2] \in Nat /\ bm.now[p[1]] \in Nat
    BY <2>1, PpaParts DEF Page, BMType
  <2> QED BY <2>1, <2>2 DEF Erased, ValidIsWritten
<1> QED BY <1>1, InvariantHolds, PTL

\* In the synchronous build every valid page holds the data of the logical address
\* in its oob, across writes, copies by do_gc and trims.
THEOREM ValidPageHolds == ASSUME LASYNC = 0 PROVE Spec => []ValidPageHoldsItsLba
<1>1. IInv => ValidPageHoldsItsLba
  BY Zenon DEF IInv, SyncInv
<1> QED BY <1>1, InvariantHolds, PTL

-----------------------------------------------------------------------------
(* Segments.                                                               *)

\* page_map_assign opens at most one segment.
LEMMA AssignSegs ==
  ASSUME NEW b, NEW held, NEW act, NEW f, NEW l \in Lba,
         BMInv(b, held), SegInv(b), Assign(b, act, f, l),
         mapping \in [Lba -> Ppa \cup {Null}]
  PROVE  SegInv(bm')
<1> DEFINE b1  == InvalidateOld(b, l)
           new == NoPageLeft(b1, act)
           seg == IF new THEN NewSegment(b1) ELSE act
           b2  == IF new THEN GetSegment(b1, FALSE) ELSE b1
           p   == PageNum(b2, seg)
<1>1. BMInv(b1, held) /\ SegInv(b1)
  <2>1. CASE mapping[l] = Null
    BY <2>1, Zenon DEF InvalidateOld
  <2>2. CASE mapping[l] # Null
    <3>1. mapping[l] \in Ppa /\ BMType(b)
      BY <2>2, Zenon DEF BMInv
    <3>2. b1 = UnpopulateBit(b, mapping[l])
      BY <2>2, Zenon DEF InvalidateOld
    <3> HIDE DEF b1
    <3>3. BMInv(b1, held)
      BY <3>1, <3>2, UnpopulateLemma, Zenon
    <3>4. SameSegs(b1, b)
      BY <3>1, <3>2, MarksKeepSegs, Zenon
    <3> QED BY <3>3, <3>4, SegFrame, Zenon
  <2> QED BY <2>1, <2>2, Zenon
<1>2. CASE new /\ ~CanGetSegment(b1)
  <2>1. bm' = b1
    BY <1>2, Zenon DEF Assign
  <2> QED BY <1>1, <2>1, Zenon
<1>3. CASE ~(new /\ ~CanGetSegment(b1))
  <2>1. bm' = SetOob(PopulateBit(TakePage(b2, seg), p), p, l)
    BY <1>3, Zenon DEF Assign, ValidatePpa
  <2> HIDE DEF b1, p, seg
  <2>2. BMType(b2) /\ SegInv(b2)
    <3>1. CASE new
      <4>1. b2 = GetSegment(b1, FALSE) /\ CanGetSegment(b1)
        BY <3>1, <1>3, Zenon
      <4> HIDE DEF b2, new
      <4>2. BMInv(b2, held)
        BY <4>1, <1>1, GetSegmentLemma, Zenon
      <4>3. SegInv(b2)
        BY <4>1, <1>1, GetSegmentSegs, Zenon
      <4> QED BY <4>2, <4>3, Zenon DEF BMInv
    <3>2. CASE ~new
      <4>1. b2 = b1
        BY <3>2, Zenon
      <4> QED BY <4>1, <1>1, Zenon DEF BMInv
    <3> QED BY <3>1, <3>2, Zenon
  <2> HIDE DEF b2
  <2>3. SameSegs(bm', b2)
    BY <2>1, <2>2, MarksKeepSegs, Zenon
  <2> QED BY <2>2, <2>3, SegFrame, Zenon
<1> QED BY <1>2, <1>3, Zenon

\* page_map_create takes the reserve and the active segment.
LEMMA InitSegments == Init => SegInv(bm)
<1> SUFFICES ASSUME Init PROVE SegInv(bm)
  OBVIOUS
<1> DEFINE b1 == GetSegment(Init_bm, TRUE)
           R == BlocksOf(HeadRows(Init_bm))
<1>1. BMInv(Init_bm, {}) /\ CanGetSegment(Init_bm) /\ \A c \in Chan : Len(Init_bm.free[c]) = NOS
  BY InitLemma, BMAssumption DEF CanGetSegment
<1>2. bm = GetSegment(b1, FALSE)
  BY Zenon DEF Init
<1>3. /\ BMInv(b1, {} \cup R) /\ SegInv(b1)
      /\ \A c \in Chan : Len(b1.free[c]) = Len(Init_bm.free[c]) - 1
  <2>1. b1 = GetSegment(Init_bm, TRUE)
    OBVIOUS
  <2> HIDE DEF b1
  <2>2. /\ BMInv(b1, {} \cup R)
        /\ \A c \in Chan : Len(b1.free[c]) = Len(Init_bm.free[c]) - 1
    BY <2>1, <1>1, GetSegmentLemma, Zenon
  <2>3. SegInv(b1)
    BY <2>1, <1>1, InitSegs, GetSegmentSegs, Zenon
  <2> QED BY <2>2, <2>3, Zenon
<1> HIDE DEF b1, R
<1>4. CanGetSegment(b1) /\ BMInv(b1, R)
  BY <1>1, <1>3, BMAssumption DEF CanGetSegment
<1> QED BY <1>2, <1>3, <1>4, GetSegmentSegs, Zenon
\* The end of do_gc: trim, a new reserve segment, and the write that waited.
LEMMA GcEndSegs ==
  ASSUME IInv, SegInv(bm), GcEnd
  PROVE  SegInv(bm')
<1> DEFINE b1 == TrimSegment(bm, target)
           b0 == GetSegment(b1, TRUE)
           b2 == ChangeReserve(b1, reserve)
           R  == BlocksOf(reserve.blk)
           T  == BlocksOf(target)
           N  == BlocksOf(HeadRows(b1))
<1>1. /\ pc = "gc" /\ Assign(b2, reserve, TrimBlocks(flash, target), pend)
  BY Zenon DEF GcEnd
<1>2. /\ BMInv(bm, R \cup T) /\ R \cap T = {} /\ reserve.blk \in [Chan -> Row]
      /\ target \in [Chan -> Row] /\ pend \in Lba /\ mapping \in [Lba -> Ppa \cup {Null}]
  BY <1>1, Zenon DEF IInv, Held, Victim, TypeOK, Segment
<1>3. /\ BMInv(b1, (R \cup T) \ T) /\ CanGetSegment(b1) /\ SegInv(b1)
  <2>1. PICK h : h = R \cup T
    OBVIOUS
  <2>2. BMInv(bm, h) /\ BlocksOf(target) \subseteq h
    BY <1>2, <2>1, Zenon
  <2>3. BMInv(b1, h \ BlocksOf(target)) /\ CanGetSegment(b1)
    BY <1>2, <2>2, TrimSegmentLemma, Zenon
  <2>4. SegInv(b1)
    BY <1>2, <2>2, TrimSegmentSegs, Zenon
  <2> QED BY <2>1, <2>3, <2>4, Zenon
<1> HIDE DEF b1, R, T
<1>4. BMInv(b1, R)
  <2>1. (R \cup T) \ T = R
    BY <1>2, Zenon
  <2> QED BY <2>1, <1>3, Zenon
<1>5. BMInv(b0, R \cup N) /\ SegInv(b0)
  <2>1. b0 = GetSegment(b1, TRUE)
    OBVIOUS
  <2> HIDE DEF b0
  <2>2. BMInv(b0, R \cup N)
    BY <2>1, <1>3, <1>4, GetSegmentLemma, Zenon
  <2>3. SegInv(b0)
    BY <2>1, <1>3, <1>4, GetSegmentSegs, Zenon
  <2> QED BY <2>2, <2>3, Zenon
<1>6. BMInv(b2, (R \cup N) \ R) /\ SegInv(b2)
  <2>1. b2 = InsertAll(b0, reserve.blk)
    BY Zenon DEF ChangeReserve
  <2>2. PICK h : h = R \cup N
    OBVIOUS
  <2>3. BMInv(b0, h) /\ BMType(b0) /\ BlocksOf(reserve.blk) \subseteq h
    BY <1>5, <2>2, Zenon DEF BMInv, R
  <2> HIDE DEF b0, b2, N
  <2>4. BMInv(b2, h \ BlocksOf(reserve.blk))
    BY <1>2, <2>1, <2>3, InsertAllLemma, Zenon
  <2>5. SameSegs(b2, b0)
    BY <2>1, <2>3, MarksKeepSegs, Zenon
  <2> QED BY <1>5, <2>2, <2>4, <2>5, SegFrame, Zenon DEF R
<1> HIDE DEF b0, b2, N
<1> QED BY <1>1, <1>2, <1>6, AssignSegs, Zenon

\* Of the other steps only page_write opens a segment.
LEMMA NextSegs ==
  ASSUME IInv, SegInv(bm), [Next]_vars
  PROVE  SegInv(bm')
<1>0. BMInv(bm, Held) /\ BMType(bm) /\ mapping \in [Lba -> Ppa \cup {Null}]
  BY Zenon DEF IInv, BMInv, TypeOK
<1>1. ASSUME NEW l \in Lba, PageWrite(l) PROVE SegInv(bm')
  <2>1. Assign(bm, active, flash, l)
    BY <1>1, Zenon DEF PageWrite
  <2> QED BY <1>0, <2>1, AssignSegs, Zenon
<1>2. ASSUME NEW l \in Lba, GcStart(l) PROVE SegInv(bm')
  <2>1. PICK v : bm' = GetGcTarget(bm, v)
    BY <1>2, Zenon DEF GcStart
  <2>2. SameSegs(bm', bm)
    BY <1>0, <2>1, MarksKeepSegs, Zenon
  <2> QED BY <2>2, SegFrame, Zenon
<1>3. ASSUME NEW p \in Ppa, GcMove(p) PROVE SegInv(bm')
  <2>1. PICK n, l : bm' = SetOob(PopulateBit(UnpopulateBit(TakePage(bm, reserve), p), n), n, l)
    BY <1>3, Zenon DEF GcMove, ValidatePpa
  <2>2. SameSegs(bm', bm)
    BY <1>0, <2>1, MarksKeepSegs, Zenon
  <2> QED BY <2>2, SegFrame, Zenon
<1>4. CASE GcEnd
  BY <1>4, GcEndSegs, Zenon
<1>5. ASSUME bm' = bm PROVE SegInv(bm')
  BY <1>5, Zenon
<1>6. ASSUME NEW l \in Lba, PageRead(l) PROVE bm' = bm
  BY <1>6, Zenon DEF PageRead, ftlVars
<1>7. LowerStep \/ Dead \/ UNCHANGED vars => bm' = bm
  BY Zenon DEF LowerStep, Dead, vars, ftlVars
<1> QED BY <1>1, <1>2, <1>3, <1>4, <1>5, <1>6, <1>7, Zenon DEF Next

\* base_trim_segment finds the segment of every block it trims in seg_map and frees the
\* segment with its last block, although do_gc takes its victim's blocks from several
\* segments.
THEOREM SegmentsCounted == Spec => []SegmentAccounting
<1> DEFINE Inv == IInv /\ SegInv(bm)
<1>1. Init => Inv
  BY InitIInv, InitSegments, Zenon
<1>2. Inv /\ [Next]_vars => Inv'
  BY NextIInv, NextSegs, Zenon
<1>3. Inv => SegmentAccounting
  BY Zenon DEF SegInv, Gone, SegmentAccounting
<1> QED BY <1>1, <1>2, <1>3, PTL DEF Spec
-----------------------------------------------------------------------------
(* Copies.                                                                 *)

\* The flash has finitely many pages.
LEMMA FinitePpa == IsFiniteSet(Ppa)
<1>1. IsFiniteSet(Chan) /\ IsFiniteSet(Row) /\ IsFiniteSet(Page)
  BY BMAssumption, FS_Interval DEF Chan, Row, Page
<1>2. IsFiniteSet(Block)
  BY <1>1, FS_Product, Zenon DEF Block
<1> QED BY <1>1, <1>2, FS_Product, Zenon DEF Ppa

\* page_map_gc_update moves the copy it is given.
LEMMA GcMoveCopies ==
  ASSUME IInv, IInv', NEW p \in Ppa, GcMove(p), NEW l \in Lba
  PROVE  Copies(l)' = Copies(l)
<1> DEFINE n == PageNum(bm, reserve)
           C == {q \in bm.valid : bm.oob[q] = l}
           D == {q \in bm'.valid : bm'.oob[q] = l}
<1>1. /\ BMType(bm) /\ ValidIsWritten(bm) /\ bm.valid \subseteq Ppa /\ bm'.valid \subseteq Ppa
      /\ bm.oob \in [Ppa -> Lba]
  BY Zenon DEF IInv, TypeOK, BMInv, BMType
<1>2. p \in bm.valid
  BY Zenon DEF GcMove, IInv, GcHasRoomAndLosesNothing, ValidIn
<1>3. bm' = SetOob(PopulateBit(UnpopulateBit(TakePage(bm, reserve), p), n), n, bm.oob[p])
  BY Zenon DEF GcMove, ValidatePpa
<1>4. n[2] = bm.now[n[1]]
  BY Zenon DEF PageNum
<1> HIDE DEF n
<1>5. /\ bm'.valid = (bm.valid \ {p}) \cup {n}
      /\ bm'.oob = [bm.oob EXCEPT ![n] = bm.oob[p]]
  BY <1>1, <1>3, Zenon DEF BMType, SetOob, PopulateBit, UnpopulateBit, TakePage
<1>6. n \in Ppa /\ n \notin bm.valid
  <2>1. n \in Ppa
    BY <1>1, <1>5, Zenon
  <2>2. n[1] \in Block /\ bm.now[n[1]] \in Nat
    BY <1>1, <2>1, PpaParts DEF BMType
  <2> QED BY <1>1, <1>4, <2>1, <2>2 DEF ValidIsWritten
<1>7. \A q \in Ppa : bm'.oob[q] = IF q = n THEN bm.oob[p] ELSE bm.oob[q]
  BY <1>1, <1>5, <1>6, Zenon
<1>8. Copies(l) = Cardinality(C) /\ Copies(l)' = Cardinality(D)
  BY Zenon DEF Copies
<1>9. IsFiniteSet(C) /\ Cardinality(C) \in Nat
  <2>1. C \subseteq Ppa
    BY <1>1, Zenon
  <2> QED BY <2>1, FinitePpa, FS_Subset, FS_CardinalityType, Zenon
<1>10. CASE bm.oob[p] = l
  <2>1. p \in C /\ n \notin C \ {p}
    BY <1>2, <1>6, <1>10, Zenon
  <2>2. D = (C \ {p}) \cup {n}
    BY <1>1, <1>5, <1>6, <1>7, <1>10, Zenon
  <2> HIDE DEF C, D
  <2>3. /\ IsFiniteSet(C \ {p}) /\ Cardinality(C \ {p}) = Cardinality(C) - 1
    BY <1>9, <2>1, FS_RemoveElement, Zenon
  <2>4. Cardinality((C \ {p}) \cup {n}) = Cardinality(C \ {p}) + 1
    BY <2>1, <2>3, FS_AddElement, Zenon
  <2> QED BY <1>8, <1>9, <2>2, <2>3, <2>4
<1>11. CASE bm.oob[p] # l
  <2>1. D = C
    BY <1>1, <1>5, <1>6, <1>7, <1>11, Zenon
  <2> QED BY <1>8, <2>1, Zenon
<1> QED BY <1>10, <1>11, Zenon

\* While do_gc runs, no logical address gains or loses a valid copy.
THEOREM CopiesKept == Spec => GcMoveKeepsCopies
<1> DEFINE A == pc = "gc" /\ pc' = "gc" => \A l \in Lba : Copies(l)' = Copies(l)
<1>1. ASSUME IInv, IInv', [Next]_vars PROVE A
  <2> SUFFICES ASSUME pc = "gc", pc' = "gc", NEW l \in Lba PROVE Copies(l)' = Copies(l)
    OBVIOUS
  <2>1. ASSUME NEW p \in Ppa, GcMove(p) PROVE Copies(l)' = Copies(l)
    BY <1>1, <2>1, GcMoveCopies, Zenon
  <2>2. ASSUME bm' = bm PROVE Copies(l)' = Copies(l)
    BY <2>2, Zenon DEF Copies
  <2>3. ~(\E k \in Lba : PageWrite(k) \/ PageRead(k) \/ GcStart(k)) /\ ~GcEnd
    BY Zenon DEF PageWrite, PageRead, GcStart, GcEnd, Ready
  <2>4. LowerStep \/ Dead \/ UNCHANGED vars => bm' = bm
    BY Zenon DEF LowerStep, Dead, vars, ftlVars
  <2> QED BY <1>1, <2>1, <2>2, <2>3, <2>4, Zenon DEF Next
<1>2. IInv /\ IInv' /\ [Next]_vars => [A]_vars
  BY <1>1, Zenon
<1>3. Spec => [][A]_vars
  BY <1>2, InvariantHolds, PTL DEF Spec
<1> QED BY <1>3, Zenon DEF GcMoveKeepsCopies

=============================================================================
