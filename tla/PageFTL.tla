------------------------------ MODULE PageFTL -------------------------------
(***************************************************************************)
(* The page-mapping FTL (algorithm/Page_ftl) on the base block manager and *)
(* the RAM lower layer (lower/posix_memory).  One thread runs the FTL: it  *)
(* takes host requests one at a time (page_read, page_write) and is inside *)
(* do_gc from the victim's selection to its trim.  With LASYNC = 0 (the    *)
(* default build) the lower layer runs inside the caller; with LASYNC = 1  *)
(* reads and writes go through the FIFO p_q to the thread l_main, while    *)
(* trim_a_block still runs in the caller.                                  *)
(*                                                                         *)
(* A page's content is abstracted to the logical address that page_write   *)
(* copies into it.  abort(), and the use of the null block that precedes   *)
(* it in base_get_segment, end the process: halt.                          *)
(***************************************************************************)
EXTENDS BaseBM

CONSTANTS NLBA,    \* logical pages the host uses
          LASYNC,  \* the build flag: 0 or 1
          QDEPTH,  \* host requests in flight in the lower queue
          Null     \* UINT_MAX in mapping, a null storage pointer in seg_table

Lba == 0 .. NLBA - 1

ASSUME FTLAssumption == /\ NLBA \in Nat \ {0}
                        /\ LASYNC \in {0, 1}
                        /\ QDEPTH \in Nat \ {0}
                        /\ Null \notin Ppa
                        /\ Null \notin Lba

VARIABLES bm, mapping, active, reserve,  \* algo_body and its block manager
          pc,       \* "idle", or "gc" while do_gc runs
          pend,     \* the logical address whose write called do_gc
          target,   \* rows of the victim (the ghost segment)
          reads,    \* temp_list: pages of the victim still to be moved
          done,     \* pages whose gc_value has isdone set
          buf,      \* what the read of such a page returned
          flash,    \* seg_table: the content of each page
          lq,       \* p_q, with LASYNC = 1
          halt      \* "no", or why the process ended

ftlVars   == <<bm, mapping, active, reserve>>
gcVars    == <<pc, pend, target, reads, done, buf>>
lowerVars == <<flash, lq, halt>>
vars      == <<ftlVars, gcVars, lowerVars>>

LowerOp == [op : {"w", "r"}, host : BOOLEAN, ppa : Ppa, lba : Lba \cup {Null}]

Init ==
  LET b1 == GetSegment(Init_bm, TRUE) IN
  /\ reserve = NewSegment(Init_bm)
  /\ active = NewSegment(b1)
  /\ bm = GetSegment(b1, FALSE)
  /\ mapping = [l \in Lba |-> Null]
  /\ pc = "idle" /\ pend = 0 /\ target = [c \in Chan |-> 0]
  /\ reads = {} /\ done = {} /\ buf = [p \in Ppa |-> Null]
  /\ flash = [p \in Ppa |-> Null]
  /\ lq = << >> /\ halt = "no"

-----------------------------------------------------------------------------
(* The lower layer.                                                        *)

\* posix_push_data on the pages f: a page that has storage must be erased first.
Push(f, p, l) == [f EXCEPT ![p] = l]

\* li->write: run here (LASYNC = 0) or queued (LASYNC = 1); f is flash so far.
LowerWrite(f, p, l, host) ==
  IF LASYNC = 1
  THEN /\ lq' = Append(lq, [op |-> "w", host |-> host, ppa |-> p, lba |-> l])
       /\ flash' = f
       /\ UNCHANGED halt
  ELSE /\ flash' = IF f[p] = Null THEN Push(f, p, l) ELSE f
       /\ halt' = IF f[p] = Null THEN "no" ELSE "storage"
       /\ UNCHANGED lq

\* Mutant: only the first channel's block is erased.
TrimBlocksFirst(f, v) == [p \in Ppa |-> IF p[1] = At(v, 0) THEN Null ELSE f[p]]

\* posix_trim_a_block for every block of the victim, in the caller's thread.
TrimBlocks(f, v) == [p \in Ppa |-> IF p[1] \in BlocksOf(v) THEN Null ELSE f[p]]

HostOps == {i \in DOMAIN lq : lq[i].host}

\* Mutant: l_main puts a read it has run back on the queue instead of ending it.
LowerStepRequeues ==
  /\ halt = "no" /\ lq # << >>
  /\ lq' = IF Head(lq).op = "r" THEN Append(Tail(lq), Head(lq)) ELSE Tail(lq)
  /\ flash' = IF Head(lq).op = "w" THEN Push(flash, Head(lq).ppa, Head(lq).lba) ELSE flash
  /\ UNCHANGED <<ftlVars, gcVars, halt>>

\* l_main takes the oldest request and runs it to its end_req.
LowerStep ==
  /\ halt = "no" /\ lq # << >>
  /\ lq' = Tail(lq)
  /\ LET r == Head(lq) IN
     \/ /\ r.op = "w"
        /\ flash' = IF flash[r.ppa] = Null THEN Push(flash, r.ppa, r.lba) ELSE flash
        /\ halt' = IF flash[r.ppa] = Null THEN "no" ELSE "storage"
        /\ UNCHANGED <<done, buf>>
     \/ /\ r.op = "r" /\ r.host
        /\ UNCHANGED <<flash, halt, done, buf>>
     \/ /\ r.op = "r" /\ ~r.host
        /\ done' = done \cup {r.ppa}
        /\ buf' = [buf EXCEPT ![r.ppa] = flash[r.ppa]]
        /\ UNCHANGED <<flash, halt>>
  /\ UNCHANGED <<ftlVars, pc, pend, target, reads>>

-----------------------------------------------------------------------------
(* page_map_assign once there is room: invalidate the old page, take a     *)
(* page of the active segment (or of a new one), validate it, map it, and  *)
(* write the data there.  b, act, f: the state do_gc left.                 *)

InvalidateOld(b, l) == IF mapping[l] = Null THEN b ELSE UnpopulateBit(b, mapping[l])

\* Mutant: the page is marked valid without its logical address.
ValidatePpaNoOob(b, p, l) == PopulateBit(b, p)

\* validate_ppa.
ValidatePpa(b, p, l) == SetOob(PopulateBit(b, p), p, l)

Assign(b, act, f, l) ==
  LET b1  == InvalidateOld(b, l)
      new == NoPageLeft(b1, act)
      seg == IF new THEN NewSegment(b1) ELSE act
      b2  == IF new THEN GetSegment(b1, FALSE) ELSE b1
      p   == PageNum(b2, seg)
  IN IF new /\ ~CanGetSegment(b1)
     THEN /\ halt' = "noblock"
          /\ bm' = b1 /\ active' = act /\ flash' = f
          /\ UNCHANGED <<mapping, lq>>
     ELSE /\ bm' = ValidatePpa(TakePage(b2, seg), p, l)
          /\ active' = Advance(seg)
          /\ mapping' = [mapping EXCEPT ![l] = p]
          /\ LowerWrite(f, p, l, TRUE)

NeedsGc == CheckFull(bm, active) /\ IsGcNeeded(bm)

Ready == halt = "no" /\ pc = "idle" /\ Cardinality(HostOps) < QDEPTH

\* page_write when no garbage collection is due.
PageWrite(l) ==
  /\ Ready /\ ~NeedsGc
  /\ Assign(bm, active, flash, l)
  /\ UNCHANGED <<reserve, gcVars>>

\* page_read.  An unmapped address aborts in page_map_pick.
PageRead(l) ==
  /\ Ready
  /\ \/ /\ mapping[l] = Null
        /\ halt' = "unmapped" /\ UNCHANGED lq
     \/ /\ mapping[l] # Null /\ LASYNC = 1
        /\ lq' = Append(lq, [op |-> "r", host |-> TRUE, ppa |-> mapping[l], lba |-> l])
        /\ UNCHANGED halt
     \/ /\ mapping[l] # Null /\ LASYNC = 0
        /\ UNCHANGED <<lq, halt>>
  /\ UNCHANGED <<ftlVars, gcVars, flash>>

-----------------------------------------------------------------------------
(* do_gc.                                                                  *)

ValidIn(b, v) == {p \in b.valid : p[1] \in BlocksOf(v)}

\* The order for_each_page_in_seg gives temp_list: page index, then channel.
Before(p, q) == p[2] < q[2] \/ (p[2] = q[2] /\ p[1][1] < q[1][1])

ReadOrder(S) ==
  {q \in [1 .. Cardinality(S) -> S] :
     \A i, j \in 1 .. Cardinality(S) : i < j => Before(q[i], q[j])}

\* page_write with a full device: do_gc picks a victim and reads its valid pages.
GcStart(l) ==
  /\ Ready /\ NeedsGc
  /\ \E v \in GcTargets(bm) :
       LET S == ValidIn(bm, v) IN
       /\ target' = v
       /\ bm' = GetGcTarget(bm, v)
       /\ reads' = S
       /\ IF LASYNC = 1
          THEN /\ \E q \in ReadOrder(S) :
                    lq' = lq \o [i \in 1 .. Cardinality(S) |->
                                   [op |-> "r", host |-> FALSE, ppa |-> q[i], lba |-> Null]]
               /\ done' = {}
               /\ UNCHANGED buf
          ELSE /\ done' = S
               /\ buf' = [p \in Ppa |-> IF p \in S THEN flash[p] ELSE Null]
               /\ UNCHANGED lq
  /\ pc' = "gc" /\ pend' = l
  /\ UNCHANGED <<mapping, active, reserve, flash, halt>>

\* The polling loop finds a finished read: page_map_gc_update, then the write.
\* page_map_gc_update leaves mapping as it is.  With LASYNC = 0 all reads are
\* done when the loop starts and it takes them in order; with LASYNC = 1 reads
\* end while it goes round the list, and any finished one may be next.
GcMove(p) ==
  /\ halt = "no" /\ pc = "gc" /\ p \in reads \cap done
  /\ LASYNC = 0 => \A q \in reads : ~Before(q, p)
  /\ LET l == bm.oob[p]
         n == PageNum(bm, reserve)
     IN /\ bm' = ValidatePpa(UnpopulateBit(TakePage(bm, reserve), p), n, l)
        /\ reserve' = Advance(reserve)
        /\ LowerWrite(flash, n, buf[p], FALSE)
  /\ reads' = reads \ {p}
  /\ done' = done \ {p}
  /\ buf' = [buf EXCEPT ![p] = Null]
  /\ UNCHANGED <<mapping, active, pc, pend, target>>

\* Every page moved: trim the victim, switch to the reserve segment, take a
\* new reserve, and finish the write that was waiting.
GcEnd ==
  /\ halt = "no" /\ pc = "gc" /\ reads = {}
  /\ LET b1 == TrimSegment(bm, target)
         b2 == ChangeReserve(b1, reserve)
     IN /\ Assign(b2, reserve, TrimBlocks(flash, target), pend)
        /\ reserve' = NewSegment(b1)
  /\ pc' = "idle"
  /\ UNCHANGED <<pend, target, reads, done, buf>>

\* The process is gone.
Dead == halt # "no" /\ UNCHANGED vars

Next ==
  \/ \E l \in Lba : PageWrite(l) \/ PageRead(l) \/ GcStart(l)
  \/ \E p \in Ppa : GcMove(p)
  \/ GcEnd
  \/ LowerStep
  \/ Dead

\* do_gc polls until its reads are done, and l_main runs whenever p_q has work.
Fairness == WF_vars(LowerStep) /\ WF_vars(GcEnd) /\ WF_vars(\E p \in Ppa : GcMove(p))

Spec == Init /\ [][Next]_vars /\ Fairness

-----------------------------------------------------------------------------
(* Properties.                                                             *)

TypeOK ==
  /\ BMType(bm) /\ bm.oob \in [Ppa -> Lba]
  /\ mapping \in [Lba -> Ppa \cup {Null}]
  /\ active \in Segment /\ reserve \in Segment
  /\ pc \in {"idle", "gc"} /\ pend \in Lba
  /\ target \in [Chan -> Row] /\ reads \subseteq Ppa /\ done \subseteq Ppa
  /\ buf \in [Ppa -> Lba \cup {Null}]
  /\ flash \in [Ppa -> Lba \cup {Null}]
  /\ lq \in Seq(LowerOp)
  /\ halt \in {"no", "storage", "noblock", "unmapped"}

\* The blocks the FTL holds outside free queues and heaps: the reserve segment,
\* and the victim while do_gc runs.
Victim == IF pc = "gc" THEN BlocksOf(target) ELSE {}

\* Every block is in exactly one place, and there once: a free queue, a heap,
\* the reserve segment, or the victim of a running do_gc.  So no block is lost,
\* and none is handed out (base_get_segment) or collected (base_get_gc_target)
\* while somebody still owns it.
BlocksOwnedOnce ==
  /\ OwnedOnce(bm, BlocksOf(reserve.blk) \cup Victim)
  /\ BlocksOf(reserve.blk) \cap Victim = {}

\* Flash is erased ahead of the write point: the pages of a block from now on
\* hold nothing and are not marked valid, whatever the block went through.
\* This is what keeps posix_push_data from its abort() on a page with storage.
ErasedAhead ==
  \A p \in Ppa : p[2] >= bm.now[p[1]] => flash[p] = Null /\ p \notin bm.valid

\* A page marked valid holds the data of the logical address in its oob, and so
\* does the buffer of a page that do_gc has read and not yet written: the copy
\* goes out with the address from the old page's oob.
ValidPageHoldsItsLba ==
  /\ \A p \in bm.valid : flash[p] = bm.oob[p]
  /\ \A p \in reads \cap done : buf[p] = bm.oob[p]

\* While do_gc runs, the victim's valid pages are exactly those still to be
\* moved, so the trim at its end erases no valid page; and the reserve segment
\* has a page for each of them (page_map_gc_update does not check the -1 of
\* base_get_page_num).
GcHasRoomAndLosesNothing ==
  pc = "gc" => /\ ValidIn(bm, target) = reads
               /\ Cardinality(reads) + reserve.used <= BPS * PPB

\* invalid_blocks of a segment is the number of its blocks trimmed since it was
\* allocated, so base_trim_segment finds the segment of every block in seg_map
\* and frees it with its last block, not before.
SegmentAccounting ==
  /\ \A c \in Chan, r \in Row : ~InFree(bm, c, r) => bm.segOf[<<c, r>>] \in DOMAIN bm.segs
  /\ \A s \in DOMAIN bm.segs :
       /\ bm.segs[s] < BPS
       /\ bm.segs[s] = Cardinality({c \in Chan :
                          InFree(bm, c, s[c]) \/ bm.segOf[At(s, c)] # s})

\* The write points: the active and the reserve segment are filled round robin,
\* the reserve segment is empty between two runs of do_gc, and the active segment
\* is a candidate for the next one.  With it the last channel tells base_get_page_num
\* and base_check_full whether the whole segment is full.
WritePoints ==
  /\ Striped(bm, reserve)
  /\ pc = "idle" => /\ Striped(bm, active)
                    /\ reserve.used = 0
                    /\ \A c \in Chan : bm.heap[c][active.blk[c]] = 1

\* Moving a page in do_gc leaves every logical address the number of valid
\* copies it had.
Copies(l) == Cardinality({p \in bm.valid : bm.oob[p] = l})
GcMoveKeepsCopies ==
  [][pc = "gc" /\ pc' = "gc" => \A l \in Lba : Copies(l)' = Copies(l)]_vars

\* do_gc ends (or the process is gone): its reads are answered, each page moves.
GcTerminates == pc = "gc" ~> (pc = "idle" \/ halt # "no")

\* README.md: the algorithm layer "translates LPA(from interface) to PPA(to
\* lower)": a mapped logical address leads to the valid page that holds it.
MappingTranslates ==
  pc = "idle" => \A l \in Lba :
    mapping[l] # Null => mapping[l] \in bm.valid /\ bm.oob[mapping[l]] = l


=============================================================================
