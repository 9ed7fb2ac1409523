------------------------------- MODULE BaseBM -------------------------------
(***************************************************************************)
(* The base block manager (blockmanager/base_block_manager.c): operations  *)
(* of its state, the record bm, in which                                   *)
(*   free[c]   the queue free_block of channel c, as row numbers           *)
(*   heap[c]   the entries of max_heap of channel c, a bag of rows         *)
(*   now[b]    __block.now, the next page of block b                       *)
(*   inv[b]    __block.invalid_number, 16 bits                             *)
(*   valid     the pages whose bit is set in __block.bitset                *)
(*   oob[p]    __block.oob_list, the logical address stored with page p    *)
(*   segOf[b]  __block.seg_idx                                             *)
(*   segs[v]   invalid_blocks of each segment object that is in seg_map    *)
(* A block is <<channel, row>>, a page <<block, index>>.  A segment is     *)
(* named by its vector of rows instead of the counter seg_map_idx: a       *)
(* segment of seg_map has a block that is not trimmed, which a second      *)
(* segment with the same vector would have to own as well.                 *)
(***************************************************************************)
EXTENDS Integers, Sequences, FiniteSets

CONSTANTS NOS, BPS, PPB  \* segments, channels (blocks of a segment), pages of a block

ASSUME BMAssumption == NOS \in Nat /\ NOS >= 2 /\ BPS \in Nat \ {0} /\ PPB \in Nat \ {0}

Row   == 0 .. NOS - 1
Chan  == 0 .. BPS - 1
Page  == 0 .. PPB - 1
Block == Chan \X Row
Ppa   == Block \X Page

U16 == 65536

\* The block a segment has on channel c.
At(vec, c) == <<c, vec[c]>>

\* __segment as its owner holds it: blocks, now (the next channel) and used_page_num.
Segment == [blk : [Chan -> Row], now : Chan, used : Nat]

\* The blocks of a vector of rows.
BlocksOf(vec) == {At(vec, c) : c \in Chan}

Init_bm ==
  [ free  |-> [c \in Chan |-> [j \in 1 .. NOS |-> j - 1]],
    heap  |-> [c \in Chan |-> [r \in Row |-> 0]],
    now   |-> [b \in Block |-> 0],
    inv   |-> [b \in Block |-> 0],
    valid |-> {},
    oob   |-> [p \in Ppa |-> 0],
    segOf |-> [b \in Block |-> [c \in Chan |-> 0]],
    segs  |-> [v \in {} |-> 0] ]

-----------------------------------------------------------------------------
(* base_get_segment.  It has a block on every channel to take, or aborts.  *)

CanGetSegment(bm) == \A c \in Chan : bm.free[c] # << >>

HeadRows(bm) == [c \in Chan |-> Head(bm.free[c])]

\* mh_insert_append on the heap of every channel.
HeapAppend(heap, vec) ==
  [c \in Chan |-> [heap[c] EXCEPT ![vec[c]] = @ + 1]]

InsertAll(bm, vec) == [bm EXCEPT !.heap = HeapAppend(@, vec)]

NewSegment(bm) == [blk |-> HeadRows(bm), now |-> 0, used |-> 0]

GetSegment(bm, isreserve) ==
  LET vec == HeadRows(bm) IN
  [bm EXCEPT
     !.free  = [c \in Chan |-> Tail(bm.free[c])],
     !.heap  = IF isreserve THEN @ ELSE HeapAppend(@, vec),
     !.segOf = [b \in Block |-> IF b[2] = vec[b[1]] THEN vec ELSE bm.segOf[b]],
     !.segs  = [v \in DOMAIN bm.segs \cup {vec} |-> IF v = vec THEN 0 ELSE bm.segs[v]]]

\* Mutant: the old reserve segment never enters the heaps.
ChangeReserveForgetsOld(bm, reserve) == GetSegment(bm, TRUE)

\* base_change_reserve: a new reserve, and the old one becomes a candidate for gc.
ChangeReserve(bm, reserve) ==
  InsertAll(GetSegment(bm, TRUE), reserve.blk)

IsGcNeeded(bm) == bm.free[0] = << >>

-----------------------------------------------------------------------------
(* base_get_gc_target: mh_construct and mh_get_max on every channel give a *)
(* block of the most invalid pages; which one, among equals, is the heap's *)
(* business (module Heap) and left open here.                              *)

InHeap(bm, c) == {r \in Row : bm.heap[c][r] > 0}

MostInvalid(bm, c) ==
  {r \in InHeap(bm, c) : \A q \in InHeap(bm, c) : bm.inv[<<c, q>>] <= bm.inv[<<c, r>>]}

GcTargets(bm) == {v \in [Chan -> Row] : \A c \in Chan : v[c] \in MostInvalid(bm, c)}

GetGcTarget(bm, v) ==
  [bm EXCEPT !.heap = [c \in Chan |-> [bm.heap[c] EXCEPT ![v[c]] = @ - 1]]]

-----------------------------------------------------------------------------
(* base_trim_segment.  Channel by channel the block goes back to the free  *)
(* queue and its segment counts one more trimmed block; the segment whose  *)
(* last block this is leaves seg_map.  The channels' steps commute, so the *)
(* loop is one function of the state before it.                            *)

\* The trimmed blocks of v that belong to the segment s.
TrimmedOf(bm, v, s) == {c \in Chan : bm.segOf[At(v, c)] = s}

\* Mutant: the segment stays in seg_map after its last block is trimmed.
TrimSegmentKeepsSegment(bm, v) ==
  [bm EXCEPT
     !.free  = [c \in Chan |-> Append(bm.free[c], v[c])],
     !.now   = [b \in Block |-> IF b \in BlocksOf(v) THEN 0 ELSE bm.now[b]],
     !.inv   = [b \in Block |-> IF b \in BlocksOf(v) THEN 0 ELSE bm.inv[b]],
     !.valid = {p \in bm.valid : p[1] \notin BlocksOf(v)},
     !.segs  = [s \in DOMAIN bm.segs |->
                  bm.segs[s] + Cardinality(TrimmedOf(bm, v, s))]]

TrimSegment(bm, v) ==
  LET gone == {s \in DOMAIN bm.segs : bm.segs[s] + Cardinality(TrimmedOf(bm, v, s)) = BPS} IN
  [bm EXCEPT
     !.free  = [c \in Chan |-> Append(bm.free[c], v[c])],
     !.now   = [b \in Block |-> IF b \in BlocksOf(v) THEN 0 ELSE bm.now[b]],
     !.inv   = [b \in Block |-> IF b \in BlocksOf(v) THEN 0 ELSE bm.inv[b]],
     !.valid = {p \in bm.valid : p[1] \notin BlocksOf(v)},
     !.oob   = [p \in Ppa |-> IF p[1] \in BlocksOf(v) THEN 0 ELSE bm.oob[p]],
     !.segs  = [s \in DOMAIN bm.segs \ gone |->
                  bm.segs[s] + Cardinality(TrimmedOf(bm, v, s))]]

-----------------------------------------------------------------------------
(* Bits and out-of-band data.  base_unpopulate_bit counts an invalid page  *)
(* whether or not the bit was set.                                         *)

PopulateBit(bm, p) == [bm EXCEPT !.valid = @ \cup {p}]

\* Mutant: the page is counted as invalid but its bit stays set.
UnpopulateBitKeepsBit(bm, p) == [bm EXCEPT !.inv[p[1]] = (@ + 1) % U16]

UnpopulateBit(bm, p) ==
  [bm EXCEPT !.valid = @ \ {p}, !.inv[p[1]] = (@ + 1) % U16]

SetOob(bm, p, lba) == [bm EXCEPT !.oob[p] = lba]

-----------------------------------------------------------------------------
(* base_get_page_num: round robin over the channels.  The segment is full  *)
(* when the turn is back at channel 0 and the last channel has no page     *)
(* left; base_check_full looks at the last channel only.                   *)

LastBlock(s) == At(s.blk, BPS - 1)

NoPageLeft(bm, s) == s.now = 0 /\ bm.now[LastBlock(s)] = PPB

CheckFull(bm, s) == bm.now[LastBlock(s)] = PPB

NextBlock(s) == At(s.blk, s.now)

\* The page base_get_page_num returns, and the block manager and segment after it.
PageNum(bm, s) == <<NextBlock(s), bm.now[NextBlock(s)]>>

TakePage(bm, s) == [bm EXCEPT !.now[NextBlock(s)] = @ + 1]

\* Mutant: the turn does not go back to channel 0.
AdvanceNoWrap(s) == [s EXCEPT !.now = @ + 1, !.used = @ + 1]

Advance(s) == [s EXCEPT !.now = IF @ + 1 = BPS THEN 0 ELSE @ + 1, !.used = @ + 1]

-----------------------------------------------------------------------------
(* What the block manager keeps.                                           *)

BMType(bm) ==
  /\ bm \in [ free  : [Chan -> Seq(Row)],
              heap  : [Chan -> [Row -> Nat]],
              now   : [Block -> 0 .. PPB],
              inv   : [Block -> 0 .. U16 - 1],
              valid : SUBSET Ppa,
              oob   : [Ppa -> Nat],
              segOf : [Block -> [Chan -> Row]],
              segs  : {bm.segs} ]
  /\ bm.segs \in [DOMAIN bm.segs -> Nat]
  /\ DOMAIN bm.segs \subseteq [Chan -> Row]

InFree(bm, c, r) == \E i \in 1 .. Len(bm.free[c]) : bm.free[c][i] = r

\* Every block is in one place, and there once: a free queue, a heap, or held,
\* the blocks the client keeps outside of both.
OwnedOnce(bm, held) ==
  \A c \in Chan :
    /\ \A i, j \in 1 .. Len(bm.free[c]) : bm.free[c][i] = bm.free[c][j] => i = j
    /\ \A r \in Row :
         \/ InFree(bm, c, r)  /\ bm.heap[c][r] = 0 /\ <<c, r>> \notin held
         \/ ~InFree(bm, c, r) /\ bm.heap[c][r] = 1 /\ <<c, r>> \notin held
         \/ ~InFree(bm, c, r) /\ bm.heap[c][r] = 0 /\ <<c, r>> \in held

\* The channels' free queues have the same length: is_gc_needed looks at one.
FreeBalanced(bm) == \A c, d \in Chan : Len(bm.free[c]) = Len(bm.free[d])

\* Nothing is written in a free block, and no page beyond now is valid.
FreeIsEmpty(bm) == \A c \in Chan, r \in Row : InFree(bm, c, r) => bm.now[<<c, r>>] = 0
ValidIsWritten(bm) == \A p \in bm.valid : p[2] < bm.now[p[1]]

\* The blocks of an open segment are filled round robin.
Striped(bm, s) ==
  LET k == bm.now[LastBlock(s)] IN
  /\ \A c \in Chan : bm.now[At(s.blk, c)] = IF c < s.now THEN k + 1 ELSE k
  /\ s.used = BPS * k + s.now

=============================================================================
