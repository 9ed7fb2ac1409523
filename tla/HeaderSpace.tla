---------------------------- MODULE HeaderSpace -----------------------------
(***************************************************************************)
(* The flash space of the LSM tree's headers: the MAP partition of the     *)
(* partitioned block manager (blockmanager/partition), the page manager    *)
(* map_m of algorithm/Lsmtree/page.c, garbage collection (gc_header) and   *)
(* its only client, a compaction (leveling), which reads the runs of two   *)
(* levels, writes those of a new level and gives the old ones up.  All of  *)
(* it runs in the compaction thread.                                       *)
(*                                                                         *)
(* The blocks of a MAP segment always move together (the free queues of    *)
(* the channels are filled and emptied in step, the victim is a row), so a *)
(* segment is a row of PPS pages, filled in order.                         *)
(***************************************************************************)
EXTENDS Integers, Sequences, FiniteSets

CONSTANTS
  SEGS,   \* segments of the MAP partition
  PPS,    \* pages of a segment
  Runs,   \* bound: runs alive at a time, old and new
  MAXUP,  \* bound: runs a compaction takes from memory (memtable or cached level)
  PAD,    \* pages leveling asks for beyond its runs: 1 + result_padding = 3
  EXTRA,  \* bound: headers written beyond what was asked for (badly packed keys)
  None    \* a null pointer

Row == 0 .. SEGS - 1
Ppa == Row \X (0 .. PPS - 1)

ASSUME HeaderAssumption ==
  /\ SEGS \in Nat /\ SEGS >= 2 /\ PPS \in Nat \ {0}
  /\ MAXUP \in Nat /\ PAD \in Nat /\ EXTRA \in Nat
  /\ IsFiniteSet(Runs)
  /\ None \notin Row /\ None \notin Ppa /\ None \notin Runs

VARIABLES
  free,             \* the free queue
  now, inv, valid,  \* of each row: pages written, pages invalidated; the valid bits
  active, reserve,  \* map_m
  pbn, comp,        \* of each run: its page, and iscompactioning or where it lives
  pc,               \* "idle", "check", "write", "gc"
  caller,           \* where gc_header returns to: "check" or "write"
  need, left,       \* pages asked for, headers still to write
  victim, todo,     \* tseg, and its valid pages still to be moved
  before,           \* the remaining pages when gc_header was called
  halt              \* "no", or why the process ended

bmVars  == <<free, now, inv, valid, active, reserve>>
runVars == <<pbn, comp>>
gcVars  == <<victim, todo, before>>
vars == <<bmVars, runVars, pc, caller, need, left, gcVars, halt>>

RunsIn(C) == {i \in Runs : comp[i] \in C}

\* pm_init: the first segment is the reserve; there is no active segment yet.
Init ==
  /\ free = [j \in 1 .. SEGS - 1 |-> j]
  /\ now = [r \in Row |-> 0] /\ inv = [r \in Row |-> 0] /\ valid = {}
  /\ active = None /\ reserve = 0
  /\ pbn = [i \in Runs |-> None] /\ comp = [i \in Runs |-> "none"]
  /\ pc = "idle" /\ caller = "check" /\ need = 0 /\ left = 0
  /\ victim = None /\ todo = {} /\ before = 0
  /\ halt = "no"

-----------------------------------------------------------------------------
(* A compaction.                                                           *)

\* pbm_pt_remain_page.
Remain == Len(free) * PPS + PPS - now[active]

\* leveling: S, the runs on disk of both levels, up, those that are in memory.
\* page_check_available takes an active segment when there is none.
Leveling(S, up) ==
  /\ halt = "no" /\ pc = "idle"
  /\ need' = Cardinality(S) + up + PAD
  /\ left' \in 0 .. need' + EXTRA
  /\ left' <= Cardinality(RunsIn({"none"}))
  /\ comp' = [i \in Runs |-> IF i \in S THEN "chosen" ELSE comp[i]]
  /\ active' = IF active = None THEN Head(free) ELSE active
  /\ free' = IF active = None THEN Tail(free) ELSE free
  /\ pc' = "check"
  /\ UNCHANGED <<now, inv, valid, reserve, pbn, caller, gcVars, halt>>

\* htable_read_preproc of the runs to be read.
ReadPreproc ==
  comp' = [i \in Runs |-> IF comp[i] = "chosen" THEN "comp" ELSE comp[i]]

\* Mutant: one page less than asked for is enough.
CheckDoneOneLess ==
  /\ halt = "no" /\ pc = "check" /\ Remain + 1 >= need
  /\ ReadPreproc
  /\ pc' = "write"
  /\ UNCHANGED <<bmVars, pbn, caller, need, left, gcVars, halt>>

\* page_check_available returns; the runs are read.
CheckDone ==
  /\ halt = "no" /\ pc = "check" /\ Remain >= need
  /\ ReadPreproc
  /\ pc' = "write"
  /\ UNCHANGED <<bmVars, pbn, caller, need, left, gcVars, halt>>

ActiveFull == now[active] = PPS

\* compaction_htable_write_insert: run i of the new level c_level is written to p.
HtableWriteInsert(i, p) ==
  /\ comp[i] = "none"
  /\ pbn' = [pbn EXCEPT ![i] = p]
  /\ comp' = [comp EXCEPT ![i] = "new"]

\* Mutant: a full active segment is used once more.
WriteHeaderNoSwitch(i) ==
  /\ halt = "no" /\ pc = "write" /\ left > 0
  /\ now' = [now EXCEPT ![active] = @ + 1]
  /\ valid' = valid \cup {<<active, now[active]>>}
  /\ HtableWriteInsert(i, <<active, now[active]>>)
  /\ left' = left - 1
  /\ UNCHANGED <<free, active, inv, reserve, pc, caller, need, gcVars, halt>>

\* getPPA, for the next header.
WriteHeader(i) ==
  LET seg == IF ActiveFull THEN Head(free) ELSE active
      p   == <<seg, now[seg]>>
  IN
  /\ halt = "no" /\ pc = "write" /\ left > 0
  /\ ActiveFull => free # << >>
  /\ active' = seg
  /\ free' = IF ActiveFull THEN Tail(free) ELSE free
  /\ now' = [now EXCEPT ![seg] = @ + 1]
  /\ valid' = valid \cup {p}
  /\ HtableWriteInsert(i, p)
  /\ left' = left - 1
  /\ UNCHANGED <<inv, reserve, pc, caller, need, gcVars, halt>>

\* invalidate_PPA of the pages of S.  It counts a page that is already invalid twice.
Invalidate(S) ==
  LET In(T, r) == Cardinality({i \in T : pbn[i][1] = r}) IN
  /\ valid' = valid \ {pbn[i] : i \in S}
  /\ inv' = [r \in Row |-> inv[r] + In(S, r) + In({i \in S : pbn[i] \notin valid}, r)]

\* level_change: the new level takes the place of the two old ones, which are released.
ReplaceLevels ==
  /\ pbn' = [i \in Runs |-> IF comp[i] \in {"comp", "invbygc"} THEN None ELSE pbn[i]]
  /\ comp' = [i \in Runs |-> CASE comp[i] \in {"comp", "invbygc"} -> "none"
                               [] comp[i] = "new" -> "disk"
                               [] OTHER -> comp[i]]

\* Mutant: runs that gc_header has dropped are invalidated as well.
LevelChangeInvalidatesAll ==
  /\ halt = "no" /\ pc = "write" /\ left = 0
  /\ Invalidate(RunsIn({"comp", "invbygc"}))
  /\ ReplaceLevels
  /\ pc' = "idle"
  /\ UNCHANGED <<free, now, active, reserve, caller, need, left, gcVars, halt>>

\* Mutant: the runs read are dropped, their pages stay valid.
LevelChangeNoInvalidate ==
  /\ halt = "no" /\ pc = "write" /\ left = 0
  /\ ReplaceLevels
  /\ pc' = "idle"
  /\ UNCHANGED <<bmVars, caller, need, left, gcVars, halt>>

\* htable_read_postproc of every run read, and level_change.
LevelChange ==
  /\ halt = "no" /\ pc = "write" /\ left = 0
  /\ Invalidate(RunsIn({"comp"}))
  /\ ReplaceLevels
  /\ pc' = "idle"
  /\ UNCHANGED <<free, now, active, reserve, caller, need, left, gcVars, halt>>

-----------------------------------------------------------------------------
(* gc_header.                                                              *)

\* pbm_pt_get_gc_target: the first of the rows with the most invalid pages.
MostInvalid ==
  CHOOSE r \in Row : \A q \in Row : inv[q] < inv[r] \/ (inv[q] = inv[r] /\ r <= q)

ValidIn(r) == {p \in valid : p[1] = r}

\* for_each_page_in_seg goes through a segment in the order it was written in.
First(P) == CHOOSE p \in P : \A q \in P : p[2] <= q[2]

\* Called when page_check_available or getPPA finds too little.  When the victim is
\* the active segment, the reserve takes its place.
GcStart ==
  /\ halt = "no"
  /\ \/ pc = "check" /\ Remain < need
     \/ pc = "write" /\ left > 0 /\ ActiveFull /\ free = << >>
  /\ IF inv[MostInvalid] = 0
     THEN halt' = "full" /\ UNCHANGED <<bmVars, pc, caller, gcVars>>
     ELSE /\ victim' = MostInvalid
          /\ todo' = ValidIn(MostInvalid)
          /\ before' = Remain
          /\ active' = IF MostInvalid = active THEN reserve ELSE active
          /\ reserve' = IF MostInvalid = active THEN None ELSE reserve
          /\ pc' = "gc" /\ caller' = pc
          /\ UNCHANGED <<free, now, inv, valid, halt>>
  /\ UNCHANGED <<runVars, need, left>>

\* The runs gc_header may find for page p: it searches the levels by key for a run
\* whose pbn is p.  A run it has dropped keeps its pbn, and is found for a page
\* written there since if that has the same first key.
Owners(p) == {i \in Runs : pbn[i] = p /\ comp[i] # "none"}

\* getRPPA: when the active segment is full the reserve goes back to the free queue
\* and a segment is taken from its head.
MoveTo == IF ActiveFull THEN Head(Append(free, reserve)) ELSE active

\* Mutant: the run is not told where its page went.
GcMoveKeepsPbn ==
  LET p == First(todo) IN
  /\ halt = "no" /\ pc = "gc" /\ todo # {} /\ Owners(p) # {}
  /\ todo' = todo \ {p}
  /\ active' = MoveTo
  /\ free' = IF ActiveFull THEN Tail(Append(free, reserve)) ELSE free
  /\ reserve' = IF ActiveFull THEN None ELSE reserve
  /\ now' = [now EXCEPT ![MoveTo] = @ + 1]
  /\ valid' = valid \cup {<<MoveTo, now[MoveTo]>>}
  /\ UNCHANGED <<inv, pbn, comp, halt, pc, caller, need, left, victim, before>>

\* One valid page of the victim.  The run it belongs to gets a new page, unless a
\* compaction has read it; a page nobody knows ends the process.
GcMove ==
  LET p == First(todo)
      n == <<MoveTo, now[MoveTo]>>
  IN
  /\ halt = "no" /\ pc = "gc" /\ todo # {}
  /\ todo' = todo \ {p}
  /\ IF Owners(p) = {}
     THEN halt' = "error" /\ UNCHANGED <<bmVars, runVars>>
     ELSE \E i \in Owners(p) :
       \/ /\ comp[i] \in {"comp", "invbygc"}
          /\ comp' = [comp EXCEPT ![i] = "invbygc"]
          /\ UNCHANGED <<bmVars, pbn, halt>>
       \/ /\ comp[i] \notin {"comp", "invbygc"}
          /\ active' = MoveTo
          /\ free' = IF ActiveFull THEN Tail(Append(free, reserve)) ELSE free
          /\ reserve' = IF ActiveFull THEN None ELSE reserve
          /\ now' = [now EXCEPT ![n[1]] = @ + 1]
          /\ valid' = valid \cup {n}
          /\ pbn' = [pbn EXCEPT ![i] = n]
          /\ UNCHANGED <<inv, comp, halt>>
  /\ UNCHANGED <<pc, caller, need, left, victim, before>>

\* pbm_pt_trim_segment, but for the free queue.
TrimVictim ==
  /\ now' = [now EXCEPT ![victim] = 0]
  /\ inv' = [inv EXCEPT ![victim] = 0]
  /\ valid' = {p \in valid : p[1] # victim}

\* Mutant: the victim is not trimmed.
GcEndNoTrim ==
  /\ halt = "no" /\ pc = "gc" /\ todo = {}
  /\ halt' = IF reserve = None /\ free = << >> THEN "full" ELSE halt
  /\ reserve' = IF reserve = None /\ free # << >> THEN Head(free) ELSE reserve
  /\ free' = IF reserve = None /\ free # << >> THEN Tail(free) ELSE free
  /\ pc' = caller
  /\ UNCHANGED <<now, inv, valid, active, runVars, caller, need, left, gcVars>>

\* Mutant: the reserve segment is not replaced.
GcEndNoReserve ==
  /\ halt = "no" /\ pc = "gc" /\ todo = {}
  /\ TrimVictim
  /\ free' = Append(free, victim)
  /\ pc' = caller
  /\ UNCHANGED <<reserve, active, runVars, caller, need, left, gcVars, halt>>

\* The victim is trimmed; then the caller replaces a reserve that was used
\* (change_new_reserve).
GcEnd ==
  LET all == Append(free, victim) IN
  /\ halt = "no" /\ pc = "gc" /\ todo = {}
  /\ TrimVictim
  /\ reserve' = IF reserve = None THEN Head(all) ELSE reserve
  /\ free' = IF reserve = None THEN Tail(all) ELSE all
  /\ pc' = caller
  /\ UNCHANGED <<active, runVars, caller, need, left, gcVars, halt>>

Dead == halt # "no" /\ UNCHANGED vars

Next ==
  \/ \E S \in SUBSET RunsIn({"disk"}), up \in 0 .. MAXUP : Leveling(S, up)
  \/ CheckDone
  \/ \E i \in Runs : WriteHeader(i)
  \/ LevelChange
  \/ GcStart \/ GcMove \/ GcEnd
  \/ Dead

Spec == Init /\ [][Next]_vars

\* The compaction thread goes on with the compaction it has begun.
Fairness ==
  /\ WF_vars(CheckDone) /\ WF_vars(GcStart) /\ WF_vars(GcMove) /\ WF_vars(GcEnd)
  /\ WF_vars(\E i \in Runs : WriteHeader(i)) /\ WF_vars(LevelChange)

FairSpec == Spec /\ Fairness

-----------------------------------------------------------------------------
(* Properties.                                                             *)

Live == RunsIn({"disk", "chosen", "comp", "new"})

\* The values the variables take: the write point of a MAP segment stays within the
\* segment, and map_m hands out pages of the MAP partition only.
TypeOK ==
  /\ free \in Seq(Row) /\ active \in Row \cup {None} /\ reserve \in Row \cup {None}
  /\ now \in [Row -> 0 .. PPS] /\ inv \in [Row -> Nat] /\ valid \subseteq Ppa
  /\ pbn \in [Runs -> Ppa \cup {None}]
  /\ comp \in [Runs -> {"none", "disk", "chosen", "comp", "invbygc", "new"}]
  /\ pc \in {"idle", "check", "write", "gc"} /\ caller \in {"check", "write"}
  /\ need \in Nat /\ left \in Nat /\ before \in Int
  /\ victim \in Row \cup {None} /\ todo \subseteq Ppa
  /\ halt \in {"no", "full", "error"}

\* Every run that is still needed has a valid page of its own, through any number of
\* garbage collections in the middle of compactions, and gc_header never meets the
\* valid page of no run, on which it prints error! and aborts.
RunsOwnPages ==
  /\ halt # "error"
  /\ \A i \in Live : pbn[i] \in valid
  /\ \A i, j \in Live : pbn[i] = pbn[j] => i = j

\* The count gc_header chooses by is exact: invalid_number of a segment is the number
\* of its written pages that are not valid, so no page is invalidated twice (which
\* invalidate_PPA would count three times) and none is forgotten.
InvalidExact ==
  \A r \in Row : inv[r] + Cardinality(ValidIn(r)) = now[r]

\* Every segment is in one place: once in the free queue, the reserve (both never
\* written), the active one, or full; the victim is the only other one.  There is a
\* reserve segment whenever gc_header is not running, and while it has not been used
\* by the gc_header that runs.
SegmentsOwnedOnce ==
  LET freeRows == {free[k] : k \in 1 .. Len(free)} IN
  /\ Cardinality(freeRows) = Len(free)
  /\ reserve \notin freeRows /\ active \notin freeRows
  /\ active # None => active # reserve
  /\ \A r \in freeRows \cup ({reserve} \ {None}) : now[r] = 0
  /\ \A r \in Row \ (freeRows \cup {reserve, active}) :
        now[r] = PPS \/ (pc = "gc" /\ r = victim)
  /\ pc # "gc" => reserve # None

\* page_check_available keeps its word: while a compaction writes, getPPA has to
\* collect garbage only after as many headers as leveling asked for.
ReservationHolds ==
  pc = "gc" /\ caller = "write" => Cardinality(RunsIn({"new"})) >= need

\* Every gc_header leaves more pages to write than it found; otherwise the retry loops
\* of page_check_available and getPPA could go round for ever.
GcGains == [][pc = "gc" /\ pc' # "gc" => Remain' > before]_vars

\* gc_header gives up with device full! only when the headers that are needed and
\* those still to be written do not fit in all segments but the reserve one.
FullMeansFull ==
  halt = "full" =>
    Cardinality(Live) + (IF pc = "check" THEN need ELSE left) > (SEGS - 1) * PPS

\* A compaction that has begun comes to its end or finds the device full.
CompactionEnds == pc # "idle" ~> (pc = "idle" \/ halt # "no")

=============================================================================
