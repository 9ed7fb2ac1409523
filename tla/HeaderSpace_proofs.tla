------------------------- MODULE HeaderSpace_proofs -------------------------
(***************************************************************************)
(* Proofs about module HeaderSpace: for any number of segments (at least   *)
(* two), pages and runs, and any sequence of compactions,                  *)
(*  - every run that is needed keeps a valid page of its own               *)
(*    (RunsOwnPages), and invalid_number is exact (InvalidExact),          *)
(*  - every segment is in one place (SegmentsOwnedOnce),                   *)
(*  - page_check_available keeps its word (ReservationHolds),              *)
(*  - device full! is true when it is said (FullMeansFull),                *)
(*  - every gc_header gains pages (GcGains).                               *)
(***************************************************************************)
EXTENDS HeaderSpace, TLAPS, FiniteSetTheorems, WellFoundedInduction

\* The segments of a queue.
RowsOf(q) == {q[k] : k \in DOMAIN q}
FreeRows == RowsOf(free)

\* No segment is in the free queue twice.
NoRepeat(q) == \A j, k \in DOMAIN q : q[j] = q[k] => j = k

-----------------------------------------------------------------------------
(* The invariant.                                                          *)

BmType ==
  /\ free \in Seq(Row) /\ active \in Row \cup {None} /\ reserve \in Row \cup {None}
  /\ now \in [Row -> 0 .. PPS] /\ inv \in [Row -> Nat] /\ valid \subseteq Ppa

RunType ==
  /\ pbn \in [Runs -> Ppa \cup {None}]
  /\ comp \in [Runs -> {"none", "disk", "chosen", "comp", "invbygc", "new"}]

CtlType ==
  /\ pc \in {"idle", "check", "write", "gc"} /\ caller \in {"check", "write"}
  /\ need \in Nat /\ left \in Nat /\ before \in Int
  /\ victim \in Row \cup {None} /\ todo \subseteq Ppa
  /\ halt \in {"no", "full"}

\* SegmentsOwnedOnce, with the victim's place.  The active segment is missing only
\* before the first compaction.
SegInv ==
  /\ NoRepeat(free)
  /\ reserve \notin FreeRows /\ active \notin FreeRows
  /\ active \in Row => active # reserve
  /\ \A r \in FreeRows : now[r] = 0
  /\ reserve \in Row => now[reserve] = 0
  /\ \A r \in Row \ (FreeRows \cup {reserve, active}) :
        now[r] = PPS \/ (pc = "gc" /\ r = victim)
  /\ pc # "gc" => reserve \in Row
  /\ active = None => pc = "idle" /\ free # << >>
  /\ pc = "gc" => victim \in Row \ (FreeRows \cup {reserve, active})

\* Pages are valid below the write point only, and invalid_number is exact.
PageInv == (\A p \in valid : p[2] < now[p[1]]) /\ InvalidExact

\* RunsOwnPages and its converse: a valid page has a run, unless gc_header has just
\* dealt with it.  A run that gc_header has dropped keeps its pbn, but in a segment
\* that has no invalid pages until the compaction ends, so that gc_header will not
\* choose it and mistake a page written there for the run's.
OwnInv ==
  /\ \A i \in Live : pbn[i] \in valid
  /\ \A i, j \in Live : pbn[i] = pbn[j] => i = j
  /\ \A p \in valid : \/ pc = "gc" /\ p[1] = victim /\ p \notin todo
                      \/ \E i \in Live : pbn[i] = p
  /\ \A i \in Live : pc = "gc" /\ pbn[i][1] = victim => pbn[i] \in todo
  /\ \A i \in RunsIn({"invbygc"}) :
        /\ pbn[i] \in Ppa
        /\ inv[pbn[i][1]] = 0 \/ (pc = "gc" /\ pbn[i][1] = victim)
        /\ pc = "gc" => pbn[i] \notin todo

\* What gc_header still has to move fits in the pages it has, and what it gains.
MoveInv ==
  pc = "gc" =>
    /\ todo \subseteq ValidIn(victim) /\ Cardinality(todo) < PPS
    /\ reserve = None => now[active] + Cardinality(todo) < PPS
    /\ Remain + (IF reserve = None THEN 0 ELSE PPS) > before + Cardinality(todo)

\* What page_check_available has granted.
AskInv ==
  /\ pc \in {"idle", "check"} \/ (pc = "gc" /\ caller = "check") => RunsIn({"new"}) = {}
  /\ pc = "write" => Remain + Cardinality(RunsIn({"new"})) >= need
  /\ ReservationHolds

IInv ==
  /\ BmType /\ RunType /\ CtlType /\ SegInv /\ PageInv /\ OwnInv /\ MoveInv /\ AskInv
  /\ FullMeansFull

-----------------------------------------------------------------------------
(* Operators.                                                              *)

\* A page is a segment and an offset in it.
LEMMA PpaParts ==
  /\ \A p \in Ppa : p[1] \in Row /\ p[2] \in Nat /\ p[2] < PPS /\ p = <<p[1], p[2]>>
  /\ \A r \in Row, n \in Nat : n < PPS => <<r, n>> \in Ppa
  /\ \A r, n : <<r, n>>[1] = r /\ <<r, n>>[2] = n
  /\ Row \subseteq Nat
BY HeaderAssumption DEF Ppa, Row

\* Numbers have a smallest one.
LEMMA SmallestNumber ==
  ASSUME NEW S, S \subseteq Nat, S # {}
  PROVE  \E x \in S : \A y \in S : x <= y
<1>1. PICK x \in S : \A y \in S : ~(<<y, x>> \in OpToRel(<, Nat))
  BY NatLessThanWellFounded, WFMin, Zenon
<1>2. ASSUME NEW y \in S PROVE x <= y
  <2>1. x \in Nat /\ y \in Nat
    OBVIOUS
  <2>2. ~(<<y, x>> \in {ss \in Nat \X Nat : ss[1] < ss[2]})
    BY <1>1, Zenon DEF OpToRel
  <2>3. QED
    BY <2>1, <2>2
<1>3. QED
  BY <1>2, Zenon

\* for_each_page_in_seg finds a page when there is one.
LEMMA FirstIsOne ==
  ASSUME NEW P, P \subseteq Ppa, P # {}
  PROVE  First(P) \in P
<1> DEFINE N == {p[2] : p \in P}
<1>1. N \subseteq Nat /\ N # {}
  BY PpaParts
<1>2. PICK x \in N : \A y \in N : x <= y
  BY <1>1, SmallestNumber, Zenon
<1>3. \E p \in P : \A q \in P : p[2] <= q[2]
  BY <1>2, Zenon
<1>4. QED
  BY <1>3, Zenon DEF First

\* pbm_pt_get_gc_target finds a segment with the most invalid pages.
LEMMA MostInvalidIsOne ==
  ASSUME inv \in [Row -> Nat], now \in [Row -> 0 .. PPS], \A r \in Row : inv[r] <= now[r]
  PROVE  MostInvalid \in Row /\ \A q \in Row : inv[q] <= inv[MostInvalid]
<1> DEFINE N == {PPS - inv[r] : r \in Row}
<1>0. 0 \in Row /\ Row \subseteq Nat /\ PPS \in Nat
  BY HeaderAssumption DEF Row
<1>1. N \subseteq Nat /\ N # {}
  <2>1. ASSUME NEW r \in Row PROVE PPS - inv[r] \in Nat
    <3>1. inv[r] \in Nat /\ now[r] \in 0 .. PPS /\ inv[r] <= now[r]
      OBVIOUS
    <3>2. QED
      BY <1>0, <3>1
  <2>2. QED
    BY <1>0, <2>1, Zenon
<1>2. PICK x \in N : \A y \in N : x <= y
  BY <1>1, SmallestNumber, Zenon
<1>3. PICK m \in Row : x = PPS - inv[m]
  BY <1>2, Zenon
<1>4. \A q \in Row : inv[q] <= inv[m]
  <2>1. ASSUME NEW q \in Row PROVE inv[q] <= inv[m]
    <3>1. PPS - inv[m] <= PPS - inv[q]
      BY <1>2, <1>3, Zenon
    <3>2. inv[q] \in Nat /\ inv[m] \in Nat
      OBVIOUS
    <3>3. QED
      BY <1>0, <3>1, <3>2
  <2>2. QED
    BY <2>1, Zenon
<1> DEFINE T == {r \in Row : inv[r] = inv[m]}
<1>5. PICK t \in T : \A y \in T : t <= y
  <2>1. T \subseteq Nat /\ T # {}
    BY <1>0, Zenon
  <2>2. QED
    BY <2>1, SmallestNumber, Zenon
<1>6. \A q \in Row : inv[q] < inv[t] \/ (inv[q] = inv[t] /\ t <= q)
  <2>1. ASSUME NEW q \in Row PROVE inv[q] < inv[t] \/ (inv[q] = inv[t] /\ t <= q)
    <3>1. inv[q] \in Nat /\ inv[m] \in Nat /\ inv[t] = inv[m] /\ inv[q] <= inv[m]
      BY <1>4, <1>5, Zenon
    <3>2. inv[q] = inv[m] => t <= q
      BY <1>5, Zenon
    <3>3. QED
      BY <3>1, <3>2
  <2>2. QED
    BY <2>1, Zenon
<1>7. MostInvalid \in Row /\ \A q \in Row : inv[q] < inv[MostInvalid] \/ inv[q] = inv[MostInvalid]
  BY <1>5, <1>6, Zenon DEF MostInvalid
<1>8. QED
  BY <1>7

\* A segment is taken from the head of a queue.
LEMMA TailRows ==
  ASSUME NEW q \in Seq(Row), q # << >>, NoRepeat(q)
  PROVE  /\ Head(q) \in RowsOf(q) /\ Head(q) \in Row /\ Tail(q) \in Seq(Row)
         /\ NoRepeat(Tail(q)) /\ RowsOf(Tail(q)) = RowsOf(q) \ {Head(q)}
         /\ Len(q) \in Nat /\ Len(Tail(q)) = Len(q) - 1
<1>1. /\ Len(q) \in Nat /\ Len(q) > 0 /\ DOMAIN q = 1 .. Len(q)
      /\ Head(q) = q[1] /\ Head(q) \in Row /\ Tail(q) \in Seq(Row)
      /\ Len(Tail(q)) = Len(q) - 1 /\ DOMAIN Tail(q) = 1 .. Len(q) - 1
      /\ \A i \in 1 .. Len(q) - 1 : Tail(q)[i] = q[i + 1]
  OBVIOUS
<1>2. \A i \in 1 .. Len(q) - 1 : i + 1 \in 1 .. Len(q) /\ i + 1 # 1
  BY <1>1
<1>3. \A j \in 1 .. Len(q) : j = 1 \/ (j - 1 \in 1 .. Len(q) - 1 /\ (j - 1) + 1 = j)
  BY <1>1
<1>4. 1 \in DOMAIN q /\ Head(q) \in RowsOf(q)
  BY <1>1 DEF RowsOf
<1>5. NoRepeat(Tail(q))
  BY <1>1 DEF NoRepeat
<1>6. ASSUME NEW x \in RowsOf(Tail(q)) PROVE x \in RowsOf(q) \ {Head(q)}
  <2>1. PICK j \in 1 .. Len(q) - 1 : x = q[j + 1]
    BY <1>1, Zenon DEF RowsOf
  <2>2. j + 1 \in DOMAIN q /\ j + 1 # 1
    BY <1>1, <1>2, Zenon
  <2>3. QED
    BY <1>1, <1>4, <2>1, <2>2, Zenon DEF RowsOf, NoRepeat
<1>7. ASSUME NEW x \in RowsOf(q) \ {Head(q)} PROVE x \in RowsOf(Tail(q))
  <2>1. PICK j \in 1 .. Len(q) : x = q[j] /\ j # 1
    BY <1>1, Zenon DEF RowsOf
  <2>2. j - 1 \in DOMAIN Tail(q) /\ Tail(q)[j - 1] = x
    BY <1>1, <1>3, <2>1, Zenon
  <2>3. QED
    BY <2>2, Zenon DEF RowsOf
<1>8. RowsOf(Tail(q)) = RowsOf(q) \ {Head(q)}
  BY <1>6, <1>7, Zenon
<1>9. QED
  BY <1>1, <1>4, <1>5, <1>8, Zenon

\* A segment is put at the end of a queue.
LEMMA AppendRows ==
  ASSUME NEW q \in Seq(Row), NEW x \in Row, NoRepeat(q), x \notin RowsOf(q)
  PROVE  /\ Append(q, x) \in Seq(Row) /\ Append(q, x) # << >> /\ NoRepeat(Append(q, x))
         /\ RowsOf(Append(q, x)) = RowsOf(q) \cup {x}
         /\ Len(q) \in Nat /\ Len(Append(q, x)) = Len(q) + 1
<1>1. /\ Len(q) \in Nat /\ DOMAIN q = 1 .. Len(q) /\ Append(q, x) \in Seq(Row)
      /\ Len(Append(q, x)) = Len(q) + 1 /\ DOMAIN Append(q, x) = 1 .. Len(q) + 1
      /\ \A i \in 1 .. Len(q) : Append(q, x)[i] = q[i]
      /\ Append(q, x)[Len(q) + 1] = x
  OBVIOUS
<1>2. DOMAIN Append(q, x) = DOMAIN q \cup {Len(q) + 1}
  BY <1>1
<1>3. NoRepeat(Append(q, x)) /\ RowsOf(Append(q, x)) = RowsOf(q) \cup {x}
  BY <1>1, <1>2 DEF NoRepeat, RowsOf
<1>4. Append(q, x) # << >>
  BY <1>1
<1>5. QED
  BY <1>1, <1>3, <1>4, Zenon

\* The length of a queue is the number of its segments.
LEMMA RowCount ==
  ASSUME NEW q \in Seq(Row), NoRepeat(q)
  PROVE  IsFiniteSet(RowsOf(q)) /\ Cardinality(RowsOf(q)) = Len(q) /\ RowsOf(q) \subseteq Row
<1>1. Len(q) \in Nat /\ DOMAIN q = 1 .. Len(q) /\ \A k \in DOMAIN q : q[k] \in Row
  OBVIOUS
<1>2. IsFiniteSet(1 .. Len(q)) /\ Cardinality(1 .. Len(q)) = Len(q)
  <2>1. ASSUME NEW n \in Nat PROVE IsFiniteSet(1 .. n) /\ Cardinality(1 .. n) = n
    BY FS_Interval
  <2>2. QED
    BY <1>1, <2>1, Zenon
<1> DEFINE f == [k \in 1 .. Len(q) |-> q[k]]
<1>3. f \in Surjection(1 .. Len(q), RowsOf(q)) /\ f \in Injection(1 .. Len(q), RowsOf(q))
  <2>1. f \in [1 .. Len(q) -> RowsOf(q)]
    BY <1>1, Zenon DEF RowsOf
  <2>2. \A j, k \in 1 .. Len(q) : f[j] = f[k] => j = k
    BY <1>1, Zenon DEF NoRepeat
  <2>3. \A t \in RowsOf(q) : \E k \in 1 .. Len(q) : f[k] = t
    BY <1>1, Zenon DEF RowsOf
  <2> HIDE DEF f
  <2>4. QED
    BY <2>1, <2>2, <2>3, Zenon DEF Surjection, Injection, IsInjective
<1>4. IsFiniteSet(RowsOf(q)) /\ Cardinality(RowsOf(q)) = Cardinality(1 .. Len(q))
  <2> HIDE DEF f
  <2>1. QED
    BY <1>2, <1>3, FS_Surjection, Zenon
<1>5. QED
  BY <1>1, <1>2, <1>4, Zenon DEF RowsOf

-----------------------------------------------------------------------------
(* Pages.                                                                  *)

\* The pages of the partition, and so the valid ones of a segment, are finitely many.
LEMMA PagesFinite ==
  ASSUME NEW P, P \subseteq Ppa
  PROVE  IsFiniteSet(P) /\ Cardinality(P) \in Nat
<1>1. IsFiniteSet(Row)
  BY FS_Interval, HeaderAssumption DEF Row
<1>2. IsFiniteSet(0 .. PPS - 1)
  BY FS_Interval, HeaderAssumption
<1>3. IsFiniteSet(Ppa)
  BY <1>1, <1>2, FS_Product, Zenon DEF Ppa
<1>4. IsFiniteSet(P)
  BY <1>3, FS_Subset, Zenon
<1>5. QED
  BY <1>4, FS_CardinalityType, Zenon

\* The valid pages of a segment can be counted.
LEMMA ValidFinite ==
  ASSUME valid \subseteq Ppa, NEW r
  PROVE  IsFiniteSet(ValidIn(r)) /\ Cardinality(ValidIn(r)) \in Nat /\ ValidIn(r) \subseteq Ppa
<1>1. ValidIn(r) \subseteq Ppa
  BY Zenon DEF ValidIn
<1>2. QED
  BY <1>1, PagesFinite, Zenon

\* So can the runs.
LEMMA RunsFinite ==
  ASSUME NEW S, S \subseteq Runs
  PROVE  IsFiniteSet(S) /\ Cardinality(S) \in Nat
<1>1. IsFiniteSet(S)
  BY HeaderAssumption, FS_Subset, Zenon
<1>2. QED
  BY <1>1, FS_CardinalityType, Zenon

\* invalid_number is at most what has been written.
LEMMA InvBound ==
  ASSUME BmType, PageInv
  PROVE  \A r \in Row : /\ inv[r] \in Nat /\ now[r] \in Nat /\ now[r] <= PPS
                        /\ inv[r] <= now[r] /\ Cardinality(ValidIn(r)) = now[r] - inv[r]
<1>1. ASSUME NEW r \in Row
      PROVE  /\ inv[r] \in Nat /\ now[r] \in Nat /\ now[r] <= PPS
             /\ inv[r] <= now[r] /\ Cardinality(ValidIn(r)) = now[r] - inv[r]
  <2>1. inv[r] \in Nat /\ now[r] \in 0 .. PPS
    BY Zenon DEF BmType
  <2>2. Cardinality(ValidIn(r)) \in Nat
    BY ValidFinite, Zenon DEF BmType
  <2>3. inv[r] + Cardinality(ValidIn(r)) = now[r]
    BY Zenon DEF PageInv, InvalidExact
  <2>4. QED
    BY <2>1, <2>2, <2>3, HeaderAssumption
<1>2. QED
  BY <1>1, Zenon

\* getPPA and getRPPA: the page at the write point of seg, which is not full, is new.
LEMMA WriteAt ==
  ASSUME BmType, PageInv, NEW seg \in Row, now[seg] # PPS,
         now' = [now EXCEPT ![seg] = @ + 1],
         valid' = valid \cup {<<seg, now[seg]>>}, inv' = inv
  PROVE  /\ <<seg, now[seg]>> \in Ppa /\ <<seg, now[seg]>> \notin valid
         /\ now' \in [Row -> 0 .. PPS] /\ valid' \subseteq Ppa /\ PageInv'
<1> DEFINE n == <<seg, now[seg]>>
<1>1. now[seg] \in Nat /\ now[seg] < PPS /\ now[seg] + 1 \in 0 .. PPS /\ PPS \in Nat
  BY HeaderAssumption DEF BmType
<1>2. n \in Ppa /\ n[1] = seg /\ n[2] = now[seg]
  BY <1>1, PpaParts, Zenon
<1>3. n \notin valid
  BY <1>1, <1>2 DEF PageInv
<1>4. now' \in [Row -> 0 .. PPS] /\ now'[seg] = now[seg] + 1
      /\ \A r \in Row : r # seg => now'[r] = now[r]
  BY <1>1, Zenon DEF BmType
<1> HIDE DEF n
<1>5. valid' = valid \cup {n} /\ valid' \subseteq Ppa
  BY <1>2, Zenon DEF BmType, n
<1>6. ASSUME NEW p \in valid' PROVE p[2] < now'[p[1]]
  <2>1. CASE p = n
    BY <1>1, <1>2, <1>4, <2>1
  <2>2. CASE p \in valid
    <3>1. p[1] \in Row /\ p[2] \in Nat /\ p[2] < now[p[1]]
      BY <2>2, PpaParts, Zenon DEF BmType, PageInv
    <3>2. QED
      BY <1>1, <1>4, <3>1
  <2>3. QED
    BY <1>5, <2>1, <2>2, Zenon
<1>7. ASSUME NEW r \in Row PROVE inv'[r] + Cardinality(ValidIn(r)') = now'[r]
  <2>1. inv[r] + Cardinality(ValidIn(r)) = now[r] /\ inv[r] \in Nat
    BY Zenon DEF PageInv, InvalidExact, BmType
  <2>2. IsFiniteSet(ValidIn(r)) /\ Cardinality(ValidIn(r)) \in Nat
    BY ValidFinite, Zenon DEF BmType
  <2>3. CASE r = seg
    <3>1. ValidIn(r)' = ValidIn(r) \cup {n} /\ n \notin ValidIn(r)
      BY <1>2, <1>3, <1>5, <2>3, Zenon DEF ValidIn
    <3>2. Cardinality(ValidIn(r)') = Cardinality(ValidIn(r)) + 1
      BY <2>2, <3>1, FS_AddElement, Zenon
    <3>3. QED
      BY <1>4, <2>1, <2>2, <2>3, <3>2
  <2>4. CASE r # seg
    <3>1. ValidIn(r)' = ValidIn(r)
      BY <1>2, <1>5, <2>4, Zenon DEF ValidIn
    <3>2. QED
      BY <1>4, <2>1, <2>4, <3>1, Zenon
  <2>5. QED
    BY <2>3, <2>4, Zenon
<1>8. PageInv'
  BY <1>6, <1>7, Zenon DEF PageInv, InvalidExact
<1>9. QED
  BY <1>2, <1>3, <1>4, <1>5, <1>8, Zenon DEF n

\* pbm_pt_remain_page.
LEMMA RemainValue ==
  ASSUME BmType, active \in Row
  PROVE  /\ Len(free) \in Nat /\ PPS \in Nat /\ PPS > 0 /\ now[active] \in 0 .. PPS
         /\ Len(free) * PPS \in Nat /\ Remain = Len(free) * PPS + PPS - now[active]
         /\ Remain \in Nat /\ (free = << >> <=> Len(free) = 0)
<1>1. Len(free) \in Nat /\ (free = << >> <=> Len(free) = 0)
  BY DEF BmType
<1>2. PPS \in Nat /\ PPS > 0 /\ now[active] \in 0 .. PPS
  BY HeaderAssumption DEF BmType
<1>3. Len(free) * PPS \in Nat
  BY <1>1, <1>2
<1>4. QED
  BY <1>1, <1>2, <1>3 DEF Remain

\* One segment more is a segment of pages more.
LEMMA OneMore ==
  ASSUME NEW a \in Nat, NEW b \in Nat
  PROVE  (a + 1) * b = a * b + b /\ a * b \in Nat
OBVIOUS

-----------------------------------------------------------------------------
(* A compaction.                                                           *)

\* The runs of a kind, by their state.
LEMMA RunSets ==
  /\ \A i \in Runs : /\ i \in Live <=> comp[i] \in {"disk", "chosen", "comp", "new"}
                     /\ i \in RunsIn({"invbygc"}) <=> comp[i] = "invbygc"
                     /\ i \in RunsIn({"new"}) <=> comp[i] = "new"
  /\ Live \subseteq Runs /\ RunsIn({"invbygc"}) \subseteq Runs /\ RunsIn({"new"}) \subseteq Runs
BY Zenon DEF Live, RunsIn

\* leveling keeps the invariant: it only chooses runs, and takes the first active
\* segment.
LEMMA LevelingInv ==
  ASSUME IInv, NEW S \in SUBSET RunsIn({"disk"}), NEW up \in 0 .. MAXUP, Leveling(S, up)
  PROVE  IInv'
<1>0. /\ BmType /\ RunType /\ CtlType /\ SegInv /\ PageInv /\ OwnInv /\ AskInv
      /\ halt = "no" /\ pc = "idle" /\ pc' = "check"
      /\ UNCHANGED <<now, inv, valid, reserve, pbn, caller, victim, todo, before, halt>>
      /\ comp' = [i \in Runs |-> IF i \in S THEN "chosen" ELSE comp[i]]
  BY Zenon DEF IInv, Leveling, gcVars
<1>1. \A i \in Runs : comp'[i] = IF i \in S THEN "chosen" ELSE comp[i]
  BY <1>0, Zenon
<1>2. \A i \in S : i \in Runs /\ comp[i] = "disk"
  BY Zenon DEF RunsIn
<1>3. Live' = Live /\ RunsIn({"invbygc"})' = RunsIn({"invbygc"})
      /\ RunsIn({"new"})' = RunsIn({"new"})
  BY <1>1, <1>2, Zenon DEF Live, RunsIn
<1>4. RunType'
  BY <1>0, Zenon DEF RunType
<1>5. CtlType'
  <2>1. need' = Cardinality(S) + up + PAD /\ left' \in 0 .. need' + EXTRA
    BY Zenon DEF Leveling
  <2>2. Cardinality(S) \in Nat
    BY <1>2, RunsFinite, Zenon
  <2>3. need' \in Nat /\ left' \in Nat
    BY <2>1, <2>2, HeaderAssumption
  <2>4. QED
    BY <1>0, <2>3, Zenon DEF CtlType
<1>6. BmType' /\ SegInv'
  <2>1. CASE active # None
    <3>1. active' = active /\ free' = free
      BY <2>1, Zenon DEF Leveling
    <3>2. QED
      BY <1>0, <2>1, <3>1, Zenon DEF BmType, SegInv, FreeRows
  <2>2. CASE active = None
    <3>1. active' = Head(free) /\ free' = Tail(free)
      BY <2>2, Zenon DEF Leveling
    <3>2. free \in Seq(Row) /\ free # << >> /\ NoRepeat(free)
      BY <1>0, <2>2, Zenon DEF BmType, SegInv
    <3>3. /\ Head(free) \in FreeRows /\ Head(free) \in Row /\ Tail(free) \in Seq(Row)
          /\ NoRepeat(Tail(free)) /\ RowsOf(Tail(free)) = FreeRows \ {Head(free)}
      BY <3>2, TailRows, Zenon DEF FreeRows
    <3>4. BmType'
      BY <1>0, <3>1, <3>3, Zenon DEF BmType
    <3>5. FreeRows' = FreeRows \ {Head(free)}
      BY <3>1, <3>3, Zenon DEF FreeRows
    <3>6. None \notin Row
      BY HeaderAssumption, Zenon
    <3>7. QED
      BY <1>0, <2>2, <3>1, <3>3, <3>4, <3>5, <3>6, Zenon DEF SegInv, BmType
  <2>3. QED
    BY <2>1, <2>2, Zenon
<1>7. PageInv'
  BY <1>0, Zenon DEF PageInv, InvalidExact, ValidIn
<1>8. OwnInv'
  BY <1>0, <1>3 DEF OwnInv
<1>9. MoveInv' /\ AskInv' /\ FullMeansFull'
  BY <1>0, <1>3, Zenon DEF MoveInv, AskInv, ReservationHolds, FullMeansFull
<1>10. QED
  BY <1>4, <1>5, <1>6, <1>7, <1>8, <1>9, Zenon DEF IInv

\* page_check_available returns with as many pages as it was asked for.
LEMMA CheckDoneInv ==
  ASSUME IInv, CheckDone
  PROVE  IInv'
<1>0. /\ BmType /\ RunType /\ CtlType /\ SegInv /\ PageInv /\ OwnInv /\ AskInv
      /\ halt = "no" /\ pc = "check" /\ pc' = "write" /\ Remain >= need
      /\ UNCHANGED <<free, now, inv, valid, active, reserve>>
      /\ UNCHANGED <<pbn, caller, need, left, victim, todo, before, halt>>
      /\ comp' = [i \in Runs |-> IF comp[i] = "chosen" THEN "comp" ELSE comp[i]]
  BY Zenon DEF IInv, CheckDone, ReadPreproc, bmVars, gcVars
<1>1. \A i \in Runs : comp'[i] = IF comp[i] = "chosen" THEN "comp" ELSE comp[i]
  BY <1>0, Zenon
<1>2. Live' = Live /\ RunsIn({"invbygc"})' = RunsIn({"invbygc"})
      /\ RunsIn({"new"})' = RunsIn({"new"})
  BY <1>1, Zenon DEF Live, RunsIn
<1>3. BmType' /\ CtlType'
  BY <1>0, Zenon DEF BmType, CtlType
<1>4. RunType'
  BY <1>0, Zenon DEF RunType
<1>5. SegInv'
  BY <1>0, Zenon DEF SegInv, FreeRows
<1>6. PageInv'
  BY <1>0, Zenon DEF PageInv, InvalidExact, ValidIn
<1>7. OwnInv'
  BY <1>0, <1>2, Zenon DEF OwnInv
<1>8. AskInv'
  <2>1. RunsIn({"new"})' = {}
    BY <1>0, <1>2, Zenon DEF AskInv
  <2>2. Cardinality(RunsIn({"new"})') = 0
    BY <2>1, FS_EmptySet, Zenon
  <2>3. Remain' = Remain /\ Remain \in Nat
    <3>1. active \in Row
      BY <1>0, Zenon DEF SegInv, BmType
    <3>2. QED
      BY <1>0, <3>1, RemainValue, Zenon DEF Remain
  <2>4. Remain' + Cardinality(RunsIn({"new"})') >= need'
    BY <1>0, <2>2, <2>3
  <2>5. QED
    BY <1>0, <2>4, Zenon DEF AskInv, ReservationHolds
<1>9. MoveInv' /\ FullMeansFull'
  BY <1>0, Zenon DEF MoveInv, FullMeansFull
<1>10. QED
  BY <1>3, <1>4, <1>5, <1>6, <1>7, <1>8, <1>9, Zenon DEF IInv

\* A header is written to a new page, which becomes a run's.
LEMMA WriteHeaderInv ==
  ASSUME IInv, NEW i \in Runs, WriteHeader(i)
  PROVE  IInv'
<1> DEFINE seg == IF ActiveFull THEN Head(free) ELSE active
           n == <<seg, now[seg]>>
<1>0. /\ BmType /\ RunType /\ CtlType /\ SegInv /\ PageInv /\ OwnInv /\ AskInv
      /\ halt = "no" /\ pc = "write" /\ left > 0 /\ left' = left - 1
      /\ UNCHANGED <<inv, reserve, pc, caller, need, victim, todo, before, halt>>
      /\ comp[i] = "none" /\ pbn' = [pbn EXCEPT ![i] = n] /\ comp' = [comp EXCEPT ![i] = "new"]
      /\ now' = [now EXCEPT ![seg] = @ + 1] /\ valid' = valid \cup {n}
      /\ active' = seg /\ free' = IF ActiveFull THEN Tail(free) ELSE free
      /\ ActiveFull => free # << >>
  BY Zenon DEF IInv, WriteHeader, HtableWriteInsert, gcVars
<1>1. active \in Row /\ None \notin Row /\ reserve \in Row
  BY <1>0, HeaderAssumption, Zenon DEF SegInv, BmType
<1>2. /\ seg \in Row /\ now[seg] # PPS /\ free' \in Seq(Row) /\ NoRepeat(free')
      /\ RowsOf(free') = FreeRows \ {seg} /\ (seg = active \/ (seg \in FreeRows /\ now[active] = PPS))
      /\ Len(free') * PPS + PPS - (now[seg] + 1) = Remain - 1
  <2>1. /\ free \in Seq(Row) /\ NoRepeat(free) /\ PPS \in Nat /\ PPS # 0
        /\ active \notin FreeRows
    BY <1>0, HeaderAssumption, Zenon DEF BmType, SegInv
  <2>2. /\ Len(free) \in Nat /\ now[active] \in 0 .. PPS /\ Len(free) * PPS \in Nat
        /\ Remain = Len(free) * PPS + PPS - now[active]
    BY <1>0, <1>1, RemainValue, Zenon
  <2>3. CASE ~ActiveFull
    <3>1. seg = active /\ free' = free /\ now[seg] # PPS
      BY <1>0, <2>3, Zenon DEF ActiveFull
    <3>2. Len(free') * PPS + PPS - (now[seg] + 1) = Remain - 1
      BY <2>1, <2>2, <3>1
    <3>3. QED
      BY <1>1, <2>1, <3>1, <3>2, Zenon DEF FreeRows
  <2>4. CASE ActiveFull
    <3>1. seg = Head(free) /\ free' = Tail(free) /\ free # << >> /\ now[active] = PPS
      BY <1>0, <2>4, Zenon DEF ActiveFull
    <3>2. /\ Head(free) \in FreeRows /\ Head(free) \in Row /\ Tail(free) \in Seq(Row)
          /\ NoRepeat(Tail(free)) /\ RowsOf(Tail(free)) = FreeRows \ {Head(free)}
          /\ Len(Tail(free)) = Len(free) - 1 /\ Len(Tail(free)) \in Nat
      BY <2>1, <3>1, TailRows DEF FreeRows
    <3>3. now[seg] = 0
      BY <1>0, <3>1, <3>2, Zenon DEF SegInv
    <3>4. Len(free) = Len(Tail(free)) + 1
      BY <2>2, <3>2
    <3>5. (Len(Tail(free)) + 1) * PPS = Len(Tail(free)) * PPS + PPS
          /\ Len(Tail(free)) * PPS \in Nat
      BY <2>1, <3>2, OneMore, Zenon
    <3>6. Len(free') * PPS + PPS - (now[seg] + 1) = Remain - 1
      BY <2>1, <2>2, <3>1, <3>3, <3>4, <3>5
    <3>7. QED
      BY <2>1, <3>1, <3>2, <3>3, <3>6, Zenon
  <2>5. QED
    BY <2>3, <2>4, Zenon
<1> HIDE DEF seg
<1>3. /\ n \in Ppa /\ n \notin valid /\ now' \in [Row -> 0 .. PPS] /\ valid' \subseteq Ppa
      /\ PageInv'
  BY <1>0, <1>2, WriteAt, Zenon
<1> HIDE DEF n
<1>4. BmType'
  BY <1>0, <1>2, <1>3, Zenon DEF BmType
<1>5. RunType' /\ CtlType'
  <2>1. left' \in Nat
    BY <1>0 DEF CtlType
  <2>2. QED
    BY <1>0, <1>3, <2>1, Zenon DEF RunType, CtlType
<1>6. /\ now'[seg] = now[seg] + 1 /\ \A r \in Row : r # seg => now'[r] = now[r]
  BY <1>0, <1>2, Zenon DEF BmType
<1>7. SegInv'
  <2>1. FreeRows' = FreeRows \ {seg}
    BY <1>2, Zenon DEF FreeRows
  <2>2. \A r \in FreeRows : r \in Row
    BY <1>0, RowCount, Zenon DEF FreeRows, SegInv, BmType
  <2>3. seg # reserve
    BY <1>0, <1>1, <1>2, Zenon DEF SegInv
  <2>4. \A r \in Row \ (FreeRows' \cup {reserve', active'}) : now'[r] = PPS
    <3>1. ASSUME NEW r \in Row, r \notin FreeRows \ {seg}, r # reserve, r # seg
          PROVE  now[r] = PPS
      BY <1>0, <1>1, <1>2, <3>1, Zenon DEF SegInv
    <3>2. QED
      BY <1>0, <1>6, <2>1, <3>1, Zenon
  <2>5. QED
    BY <1>0, <1>1, <1>2, <1>6, <2>1, <2>2, <2>3, <2>4, Zenon DEF SegInv
<1>8. /\ Live' = Live \cup {i} /\ i \notin Live /\ i \notin RunsIn({"new"})
      /\ RunsIn({"invbygc"})' = RunsIn({"invbygc"}) /\ i \notin RunsIn({"invbygc"})
      /\ RunsIn({"new"})' = RunsIn({"new"}) \cup {i}
      /\ pbn'[i] = n /\ \A j \in Runs : j # i => pbn'[j] = pbn[j]
  BY <1>0, Zenon DEF Live, RunsIn, RunType
<1>9. OwnInv'
  <2>1. /\ \A j \in Live' : pbn'[j] \in valid'
        /\ \A j, k \in Live' : pbn'[j] = pbn'[k] => j = k
    BY <1>0, <1>3, <1>8, RunSets DEF OwnInv
  <2>2. \A p \in valid' : \E j \in Live' : pbn'[j] = p
    BY <1>0, <1>8, RunSets DEF OwnInv
  <2>3. QED
    BY <1>0, <1>8, <2>1, <2>2, RunSets DEF OwnInv
<1>10. AskInv'
  <2>1. IsFiniteSet(RunsIn({"new"})) /\ Cardinality(RunsIn({"new"})) \in Nat
    BY RunSets, RunsFinite, Zenon
  <2>2. Cardinality(RunsIn({"new"})') = Cardinality(RunsIn({"new"})) + 1
    BY <1>8, <2>1, FS_AddElement, Zenon
  <2>3. Remain \in Nat /\ need \in Nat
    BY <1>0, <1>1, RemainValue, Zenon DEF CtlType
  <2>4. Remain' = Remain - 1
    BY <1>0, <1>2, <1>6, Zenon DEF Remain
  <2>5. Remain' + Cardinality(RunsIn({"new"})') >= need'
    BY <1>0, <2>1, <2>2, <2>3, <2>4 DEF AskInv
  <2>6. QED
    BY <1>0, <2>5, Zenon DEF AskInv, ReservationHolds
<1>11. MoveInv' /\ FullMeansFull'
  BY <1>0, Zenon DEF MoveInv, FullMeansFull
<1>12. QED
  BY <1>3, <1>4, <1>5, <1>7, <1>9, <1>10, <1>11, Zenon DEF IInv

\* Runs with pages of their own have as many pages.
LEMMA PagesOfRuns ==
  ASSUME OwnInv, NEW T, T \subseteq Live
  PROVE  /\ IsFiniteSet({pbn[i] : i \in T})
         /\ Cardinality({pbn[i] : i \in T}) = Cardinality(T)
<1> DEFINE P == {pbn[i] : i \in T}
           f == [i \in T |-> pbn[i]]
<1>1. IsFiniteSet(T)
  BY RunSets, RunsFinite, Zenon
<1>2. f \in Surjection(T, P) /\ f \in Injection(T, P)
  <2>1. f \in [T -> P]
    OBVIOUS
  <2>2. \A i, j \in T : f[i] = f[j] => i = j
    BY Zenon DEF OwnInv
  <2>3. \A p \in P : \E i \in T : f[i] = p
    OBVIOUS
  <2> HIDE DEF f, P
  <2>4. QED
    BY <2>1, <2>2, <2>3, Zenon DEF Surjection, Injection, IsInjective
<1> HIDE DEF f, P
<1>3. IsFiniteSet(P) /\ Cardinality(P) = Cardinality(T)
  BY <1>1, <1>2, FS_Surjection, Zenon
<1>4. QED
  BY <1>3, Zenon DEF P

\* level_change invalidates exactly the pages of the runs that were read.
LEMMA LevelChangeInv ==
  ASSUME IInv, LevelChange
  PROVE  IInv'
<1> DEFINE S == RunsIn({"comp"})
           In(r) == {i \in S : pbn[i][1] = r}
           Gone(r) == {pbn[i] : i \in In(r)}
<1>0. /\ BmType /\ RunType /\ CtlType /\ SegInv /\ PageInv /\ OwnInv /\ AskInv
      /\ halt = "no" /\ pc = "write" /\ pc' = "idle"
      /\ UNCHANGED <<free, now, active, reserve, caller, need, left, victim, todo, before, halt>>
      /\ Invalidate(S) /\ ReplaceLevels
  BY Zenon DEF IInv, LevelChange, gcVars
<1>1. S \subseteq Live /\ S \subseteq Runs /\ \A i \in S : pbn[i] \in valid /\ pbn[i] \in Ppa
  BY <1>0, Zenon DEF RunsIn, Live, OwnInv, BmType
<1>2. valid' = valid \ {pbn[i] : i \in S} /\ valid' \subseteq valid
  BY <1>0, Zenon DEF Invalidate
<1>3. /\ inv' \in [Row -> Nat]
      /\ \A r \in Row : inv'[r] = inv[r] + Cardinality(In(r))
  <2>1. \A r : {i \in {j \in S : pbn[j] \notin valid} : pbn[i][1] = r} = {}
    BY <1>1, Zenon
  <2>2. Cardinality({}) = 0
    BY FS_EmptySet, Zenon
  <2>3. inv' = [r \in Row |-> inv[r] + Cardinality({i \in S : pbn[i][1] = r})
                  + Cardinality({i \in {j \in S : pbn[j] \notin valid} : pbn[i][1] = r})]
    BY <1>0, Zenon DEF Invalidate
  <2>4. \A r \in Row : inv[r] \in Nat /\ Cardinality(In(r)) \in Nat
    <3>1. \A r : In(r) \subseteq Runs
      BY <1>1, Zenon
    <3>2. \A r : Cardinality(In(r)) \in Nat
      BY <3>1, RunsFinite, Zenon
    <3>3. QED
      BY <1>0, <3>2, Zenon DEF BmType
  <2>5. inv' = [r \in Row |-> inv[r] + Cardinality(In(r)) + 0]
    BY <2>1, <2>2, <2>3, Zenon
  <2> HIDE DEF In
  <2>6. QED
    BY <2>4, <2>5
<1>4. BmType'
  BY <1>0, <1>2, <1>3, Zenon DEF BmType
<1>5. /\ \A i \in Runs : pbn'[i] = IF comp[i] \in {"comp", "invbygc"} THEN None ELSE pbn[i]
      /\ \A i \in Runs : comp'[i] = IF comp[i] \in {"comp", "invbygc"} THEN "none"
                                    ELSE IF comp[i] = "new" THEN "disk" ELSE comp[i]
      /\ pbn' \in [Runs -> Ppa \cup {None}]
      /\ comp' \in [Runs -> {"none", "disk", "chosen", "comp", "invbygc", "new"}]
  BY <1>0, Zenon DEF ReplaceLevels, RunType
<1>6. RunType' /\ CtlType'
  BY <1>0, <1>5, Zenon DEF RunType, CtlType
<1>7. SegInv'
  BY <1>0, Zenon DEF SegInv, FreeRows
<1>8. PageInv'
  <2>1. ASSUME NEW r \in Row PROVE inv'[r] + Cardinality(ValidIn(r)') = now'[r]
    <3>1. /\ IsFiniteSet(Gone(r)) /\ Cardinality(Gone(r)) = Cardinality(In(r))
      <4>1. In(r) \subseteq Live
        BY <1>1, Zenon
      <4>2. QED
        BY <1>0, <4>1, PagesOfRuns, Zenon
    <3>2. ValidIn(r)' = ValidIn(r) \ Gone(r)
      BY <1>2, Zenon DEF ValidIn
    <3>3. ValidIn(r) \cap Gone(r) = Gone(r)
      BY <1>1, Zenon DEF ValidIn
    <3>4. IsFiniteSet(ValidIn(r)) /\ Cardinality(ValidIn(r)) \in Nat
      BY <1>0, ValidFinite, Zenon DEF BmType
    <3> HIDE DEF Gone, In
    <3>5. Cardinality(ValidIn(r)') = Cardinality(ValidIn(r)) - Cardinality(Gone(r))
      BY <3>2, <3>3, <3>4, FS_Difference, Zenon
    <3>6. Cardinality(Gone(r)) \in Nat
      BY <3>1, FS_CardinalityType, Zenon
    <3>7. inv[r] + Cardinality(ValidIn(r)) = now[r] /\ inv[r] \in Nat
      BY <1>0, Zenon DEF PageInv, InvalidExact, BmType
    <3>8. QED
      BY <1>0, <1>3, <3>1, <3>4, <3>5, <3>6, <3>7
  <2>2. \A p \in valid' : p[2] < now'[p[1]]
    BY <1>0, <1>2, Zenon DEF PageInv
  <2>3. QED
    BY <2>1, <2>2, Zenon DEF PageInv, InvalidExact
<1>9. /\ Live' = Live \ S /\ RunsIn({"invbygc"})' = {} /\ RunsIn({"new"})' = {}
      /\ \A i \in Live' : pbn'[i] = pbn[i]
  BY <1>5, Zenon DEF Live, RunsIn
<1>10. OwnInv'
  <2>1. /\ \A i \in Live' : pbn'[i] \in valid'
        /\ \A i, j \in Live' : pbn'[i] = pbn'[j] => i = j
    BY <1>0, <1>1, <1>2, <1>9 DEF OwnInv
  <2>2. \A p \in valid' : \E i \in Live' : pbn'[i] = p
    BY <1>0, <1>2, <1>9, Zenon DEF OwnInv
  <2>3. QED
    BY <1>0, <1>9, <2>1, <2>2, Zenon DEF OwnInv
<1>11. MoveInv' /\ AskInv' /\ FullMeansFull'
  BY <1>0, <1>9, Zenon DEF MoveInv, AskInv, ReservationHolds, FullMeansFull
<1>12. QED
  BY <1>4, <1>6, <1>7, <1>8, <1>10, <1>11, Zenon DEF IInv

-----------------------------------------------------------------------------
(* gc_header.                                                              *)

\* gc_header starts with a victim that has invalid pages.
LEMMA GcBegins ==
  ASSUME IInv, GcStart, inv[MostInvalid] # 0
  PROVE  IInv'
<1> DEFINE m == MostInvalid
<1>0. /\ BmType /\ RunType /\ CtlType /\ SegInv /\ PageInv /\ OwnInv /\ AskInv
      /\ halt = "no" /\ pc \in {"check", "write"} /\ pc' = "gc" /\ caller' = pc
      /\ UNCHANGED <<free, now, inv, valid, halt, pbn, comp, need, left>>
      /\ victim' = m /\ todo' = ValidIn(m) /\ before' = Remain
      /\ active' = (IF m = active THEN reserve ELSE active)
      /\ reserve' = (IF m = active THEN None ELSE reserve)
  BY Zenon DEF IInv, GcStart, runVars
<1>1. m \in Row /\ inv[m] \in Nat /\ inv[m] > 0
  <2>1. m \in Row
    BY <1>0, InvBound, MostInvalidIsOne, Zenon DEF BmType
  <2>2. QED
    BY <1>0, <2>1 DEF BmType
<1>2. /\ now[m] \in Nat /\ now[m] <= PPS /\ now[m] > 0 /\ PPS \in Nat
      /\ Cardinality(ValidIn(m)) = now[m] - inv[m]
      /\ Cardinality(ValidIn(m)) \in Nat /\ ValidIn(m) \subseteq Ppa
  BY <1>0, <1>1, InvBound, ValidFinite, HeaderAssumption DEF BmType
<1> HIDE DEF m
<1>3. /\ active \in Row /\ reserve \in Row /\ None \notin Row /\ active # reserve
      /\ now[reserve] = 0 /\ m # reserve /\ m \notin FreeRows
  BY <1>0, <1>1, <1>2, HeaderAssumption DEF SegInv, BmType
<1>4. FreeRows' = FreeRows /\ None \notin FreeRows /\ reserve \notin FreeRows
  BY <1>0, <1>3, RowCount, Zenon DEF FreeRows, SegInv, BmType
<1>5. Remain \in Nat /\ Remain = Len(free) * PPS + PPS - now[active]
      /\ Len(free) * PPS \in Nat
  BY <1>0, <1>3, RemainValue, Zenon
<1>6. BmType' /\ RunType'
  BY <1>0, <1>3, Zenon DEF BmType, RunType
<1>7. CtlType'
  <2>1. before' \in Int /\ todo' \subseteq Ppa /\ victim' \in Row
    BY <1>0, <1>1, <1>2, <1>5
  <2>2. caller' \in {"check", "write"} /\ pc' = "gc"
    BY <1>0, Zenon
  <2>3. QED
    BY SMTT(30), <1>0, <2>1, <2>2 DEF CtlType
<1>8. SegInv'
  <2>1. CASE m = active
    <3>1. active' = reserve /\ reserve' = None
      BY <1>0, <2>1, Zenon
    <3>2. QED
      BY <1>0, <1>1, <1>3, <1>4, <2>1, <3>1, Zenon DEF SegInv
  <2>2. CASE m # active
    <3>1. active' = active /\ reserve' = reserve
      BY <1>0, <2>2, Zenon
    <3>2. QED
      BY <1>0, <1>1, <1>3, <1>4, <2>2, <3>1, Zenon DEF SegInv
  <2>3. QED
    BY <2>1, <2>2, Zenon
<1>9. PageInv'
  BY <1>0, Zenon DEF PageInv, InvalidExact, ValidIn
<1>10. Live' = Live /\ RunsIn({"invbygc"})' = RunsIn({"invbygc"})
       /\ RunsIn({"new"})' = RunsIn({"new"})
  BY <1>0, Zenon DEF Live, RunsIn
<1>11. OwnInv'
  <2>1. \A i \in Live' : pbn'[i][1] = victim' => pbn'[i] \in todo'
    BY <1>0, <1>10, Zenon DEF OwnInv, ValidIn
  <2>2. \A p \in valid' : \E i \in Live' : pbn'[i] = p
    BY <1>0, <1>10, Zenon DEF OwnInv
  <2>3. \A i \in RunsIn({"invbygc"}) : pbn[i] \in Ppa /\ inv[pbn[i][1]] = 0
    BY <1>0, Zenon DEF OwnInv
  <2>4. \A i \in RunsIn({"invbygc"}) : pbn[i] \notin ValidIn(m)
    BY <1>1, <2>3 DEF ValidIn
  <2>5. QED
    BY SMTT(30), <1>0, <1>10, <2>1, <2>2, <2>3, <2>4 DEF OwnInv
<1>12. MoveInv'
  <2>1. ValidIn(victim)' = ValidIn(m)
    BY <1>0, Zenon DEF ValidIn
  <2>2. todo' = ValidIn(victim)' /\ Cardinality(todo') < PPS
        /\ Cardinality(todo') = now[m] - inv[m] /\ Cardinality(todo') \in Nat
    BY <1>0, <1>1, <1>2, <2>1
  <2>3. CASE m = active
    <3>1. active' = reserve /\ reserve' = None /\ now'[active'] = 0
      BY <1>0, <1>3, <2>3, Zenon
    <3>2. Remain' = Len(free) * PPS + PPS - 0
      BY <1>0, <3>1, Zenon DEF Remain
    <3>3. Remain' + 0 > before' + Cardinality(todo')
      BY SMTT(30), <1>0, <1>1, <1>2, <1>5, <2>2, <2>3, <3>2
    <3>4. now'[active'] + Cardinality(todo') < PPS
      BY <2>2, <3>1
    <3>5. QED
      BY <2>2, <3>1, <3>3, <3>4, Zenon DEF MoveInv
  <2>4. CASE m # active
    <3>1. active' = active /\ reserve' = reserve /\ reserve' # None
      BY <1>0, <1>3, <2>4, Zenon
    <3>2. Remain' = Remain
      BY <1>0, <3>1, Zenon DEF Remain
    <3>3. Remain' + PPS > before' + Cardinality(todo')
      BY <1>0, <1>2, <1>5, <2>2, <3>2
    <3>4. QED
      BY <2>2, <3>1, <3>3, Zenon DEF MoveInv
  <2>5. QED
    BY <2>3, <2>4, Zenon
<1>13. AskInv'
  <2>1. caller' = "check" => RunsIn({"new"})' = {}
    BY <1>0, <1>10, Zenon DEF AskInv
  <2>2. ASSUME pc = "write" PROVE Cardinality(RunsIn({"new"})) >= need
    <3>1. ActiveFull /\ free = << >>
      BY <2>2, Zenon DEF GcStart
    <3>2. Len(free) = 0 /\ now[active] = PPS
      BY <3>1, Zenon DEF ActiveFull
    <3>3. Remain = 0
      BY <1>2, <1>5, <3>2
    <3>4. Cardinality(RunsIn({"new"})) \in Nat /\ need \in Nat
      BY <1>0, RunSets, RunsFinite, Zenon DEF CtlType
    <3>5. QED
      BY <1>0, <2>2, <3>3, <3>4 DEF AskInv
  <2>3. QED
    BY <1>0, <1>10, <2>1, <2>2, Zenon DEF AskInv, ReservationHolds
<1>14. FullMeansFull'
  BY <1>0, Zenon DEF FullMeansFull
<1>15. QED
  BY <1>6, <1>7, <1>8, <1>9, <1>11, <1>12, <1>13, <1>14, Zenon DEF IInv

\* gc_header looks at a page of the victim that belongs to a run in use.
LEMMA GcLooks ==
  ASSUME IInv, GcMove, NEW p, p = First(todo)
  PROVE  /\ p \in todo /\ p \in valid /\ p \in Ppa /\ p[1] = victim /\ todo' = todo \ {p}
         /\ pc = "gc" /\ halt = "no" /\ halt' = "no"
         /\ UNCHANGED <<pc, caller, need, left, victim, before>>
         /\ \A i \in Owners(p) : i \in Live /\ pbn[i] = p
         /\ Owners(p) # {}
         /\ IsFiniteSet(todo) /\ Cardinality(todo) \in Nat
         /\ Cardinality(todo') = Cardinality(todo) - 1 /\ Cardinality(todo) > 0
<1>0. /\ BmType /\ RunType /\ CtlType /\ OwnInv /\ MoveInv /\ todo # {}
      /\ pc = "gc" /\ halt = "no" /\ todo' = todo \ {p}
      /\ UNCHANGED <<pc, caller, need, left, victim, before>>
  BY Zenon DEF IInv, GcMove
<1>1. todo \subseteq ValidIn(victim) /\ todo \subseteq Ppa
  BY <1>0, Zenon DEF MoveInv, CtlType
<1>2. p \in todo
  BY <1>0, <1>1, FirstIsOne, Zenon
<1>3. p \in valid /\ p \in Ppa /\ p[1] = victim
  BY <1>1, <1>2, Zenon DEF ValidIn
<1>4. ASSUME NEW i \in Owners(p) PROVE i \in Live /\ pbn[i] = p
  <2>1. i \in Runs /\ pbn[i] = p /\ comp[i] # "none"
    BY Zenon DEF Owners
  <2>2. comp[i] # "invbygc"
    BY <1>0, <1>2, <2>1, RunSets DEF OwnInv
  <2>3. comp[i] \in {"none", "disk", "chosen", "comp", "invbygc", "new"}
    BY <1>0, <2>1, Zenon DEF RunType
  <2>4. QED
    BY <2>1, <2>2, <2>3, RunSets, Zenon
<1>5. Owners(p) # {}
  <2>1. PICK i \in Live : pbn[i] = p
    BY <1>0, <1>2, <1>3, Zenon DEF OwnInv
  <2>2. i \in Owners(p)
    BY <2>1, Zenon DEF Owners, Live, RunsIn
  <2>3. QED
    BY <2>2, Zenon
<1>6. halt' = "no"
  BY <1>0, <1>5, Zenon DEF GcMove
<1>7. IsFiniteSet(todo) /\ Cardinality(todo) \in Nat
  BY <1>1, PagesFinite, Zenon
<1>8. Cardinality(todo') = Cardinality(todo) - 1
  BY <1>0, <1>2, <1>7, FS_RemoveElement, Zenon
<1>9. Cardinality(todo) # 0
  BY <1>0, <1>7, FS_EmptySet, Zenon
<1>10. QED
  BY <1>0, <1>2, <1>3, <1>4, <1>5, <1>6, <1>7, <1>8, <1>9

\* The page of a run that a compaction has read is dropped.
LEMMA GcDrops ==
  ASSUME IInv, GcMove, NEW i \in Owners(First(todo)), comp[i] \in {"comp", "invbygc"},
         comp' = [comp EXCEPT ![i] = "invbygc"], UNCHANGED <<bmVars, pbn, halt>>
  PROVE  IInv'
<1> DEFINE p == First(todo)
<1>0. /\ BmType /\ RunType /\ CtlType /\ SegInv /\ PageInv /\ OwnInv /\ MoveInv /\ AskInv
      /\ UNCHANGED <<free, now, inv, valid, active, reserve, pbn, halt>>
  BY Zenon DEF IInv, bmVars
<1>1. /\ p \in todo /\ p \in valid /\ p \in Ppa /\ p[1] = victim /\ todo' = todo \ {p}
      /\ pc = "gc" /\ halt = "no"
      /\ UNCHANGED <<pc, caller, need, left, victim, before>>
      /\ i \in Live /\ pbn[i] = p
      /\ Cardinality(todo) \in Nat /\ Cardinality(todo') = Cardinality(todo) - 1
  BY GcLooks, Zenon
<1> HIDE DEF p
<1>2. i \in Runs /\ comp[i] = "comp"
  BY <1>1, RunSets, Zenon
<1>3. /\ Live' = Live \ {i} /\ RunsIn({"invbygc"})' = RunsIn({"invbygc"}) \cup {i}
      /\ RunsIn({"new"})' = RunsIn({"new"})
  BY <1>0, <1>2, Zenon DEF Live, RunsIn, RunType
<1>4. BmType' /\ RunType' /\ CtlType'
  BY <1>0, <1>1, <1>2, Zenon DEF BmType, RunType, CtlType
<1>5. SegInv'
  BY <1>0, <1>1, Zenon DEF SegInv, FreeRows
<1>6. PageInv'
  BY <1>0, Zenon DEF PageInv, InvalidExact, ValidIn
<1>7. OwnInv'
  <2>1. /\ \A j \in Live' : pbn'[j] \in valid'
        /\ \A j, k \in Live' : pbn'[j] = pbn'[k] => j = k
    BY SMTT(30), <1>0, <1>3 DEF OwnInv
  <2>2. \A q \in valid' : \/ pc' = "gc" /\ q[1] = victim' /\ q \notin todo'
                          \/ \E j \in Live' : pbn'[j] = q
    BY ZenonT(60), <1>0, <1>1, <1>3 DEF OwnInv
  <2>3. \A j \in Live' : pc' = "gc" /\ pbn'[j][1] = victim' => pbn'[j] \in todo'
    BY <1>0, <1>1, <1>3 DEF OwnInv
  <2>4. \A j \in RunsIn({"invbygc"})' :
           /\ pbn'[j] \in Ppa
           /\ inv'[pbn'[j][1]] = 0 \/ (pc' = "gc" /\ pbn'[j][1] = victim')
           /\ pc' = "gc" => pbn'[j] \notin todo'
    BY <1>0, <1>1, <1>3, Zenon DEF OwnInv
  <2>5. QED
    BY <2>1, <2>2, <2>3, <2>4, Zenon DEF OwnInv
<1>8. MoveInv'
  <2>1. active \in Row
    BY <1>0, <1>1, Zenon DEF SegInv, BmType
  <2>2. Remain \in Nat /\ Remain' = Remain /\ now[active] \in Nat /\ before \in Int /\ PPS \in Nat
    BY <1>0, <2>1, RemainValue DEF Remain, CtlType
  <2>3. ValidIn(victim)' = ValidIn(victim)
    BY <1>0, <1>1, Zenon DEF ValidIn
  <2>4. /\ todo \subseteq ValidIn(victim) /\ Cardinality(todo) < PPS
        /\ reserve = None => now[active] + Cardinality(todo) < PPS
        /\ Remain + (IF reserve = None THEN 0 ELSE PPS) > before + Cardinality(todo)
    BY <1>0, <1>1, Zenon DEF MoveInv
  <2>5. /\ todo' \subseteq ValidIn(victim)' /\ Cardinality(todo') < PPS
        /\ reserve' = None => now'[active'] + Cardinality(todo') < PPS
    BY <1>0, <1>1, <2>2, <2>3, <2>4
  <2>6. Remain' + (IF reserve' = None THEN 0 ELSE PPS) > before' + Cardinality(todo')
    <3>1. /\ Remain' = Remain /\ before' = before /\ reserve' = reserve
          /\ Cardinality(todo') = Cardinality(todo) - 1 /\ Cardinality(todo) \in Nat
          /\ Remain \in Nat /\ before \in Int /\ PPS \in Nat
          /\ Remain + (IF reserve = None THEN 0 ELSE PPS) > before + Cardinality(todo)
      BY <1>0, <1>1, <2>2, <2>4, Zenon
    <3>2. CASE reserve = None
      BY <3>1, <3>2
    <3>3. CASE reserve # None
      BY <3>1, <3>3
    <3>4. QED
      BY <3>2, <3>3, Zenon
  <2>7. QED
    BY <2>5, <2>6, Zenon DEF MoveInv
<1>9. AskInv' /\ FullMeansFull'
  BY <1>0, <1>1, <1>3, Zenon DEF AskInv, ReservationHolds, FullMeansFull
<1>10. QED
  BY <1>4, <1>5, <1>6, <1>7, <1>8, <1>9, Zenon DEF IInv

\* A page moved is one page less to move.
LEMMA StillGains ==
  ASSUME NEW l \in Int, NEW s \in Int, NEW w \in Int, NEW x \in Int, NEW b \in Int,
         NEW c \in Int, l + s - w + x > b + c
  PROVE  (l + s - w - 1) + x > b + (c - 1)
OBVIOUS

\* The page of another run is moved.
LEMMA GcMoves ==
  ASSUME IInv, GcMove, NEW i \in Owners(First(todo)), comp[i] \notin {"comp", "invbygc"},
         active' = MoveTo,
         free' = (IF ActiveFull THEN Tail(Append(free, reserve)) ELSE free),
         reserve' = (IF ActiveFull THEN None ELSE reserve),
         now' = [now EXCEPT ![MoveTo] = @ + 1],
         valid' = valid \cup {<<MoveTo, now[MoveTo]>>},
         pbn' = [pbn EXCEPT ![i] = <<MoveTo, now[MoveTo]>>],
         UNCHANGED <<inv, comp, halt>>
  PROVE  IInv'
<1> DEFINE p == First(todo)
           seg == MoveTo
           n == <<seg, now[seg]>>
<1>0. /\ BmType /\ RunType /\ CtlType /\ SegInv /\ PageInv /\ OwnInv /\ MoveInv /\ AskInv
      /\ PPS \in Nat /\ None \notin Row /\ PPS # 0
  BY HeaderAssumption, Zenon DEF IInv
<1>1. /\ p \in todo /\ p \in valid /\ p \in Ppa /\ p[1] = victim /\ todo' = todo \ {p}
      /\ pc = "gc" /\ halt = "no"
      /\ UNCHANGED <<pc, caller, need, left, victim, before>>
      /\ i \in Live /\ pbn[i] = p
      /\ Cardinality(todo) \in Nat /\ Cardinality(todo') = Cardinality(todo) - 1
      /\ Cardinality(todo) > 0
  BY GcLooks, Zenon
<1> HIDE DEF p
<1>2. i \in Runs /\ active \in Row /\ free \in Seq(Row) /\ NoRepeat(free)
      /\ victim \in Row \ (FreeRows \cup {reserve, active})
      /\ reserve \notin FreeRows /\ active \notin FreeRows /\ FreeRows \subseteq Row
  BY <1>0, <1>1, RunSets, RowCount, Zenon DEF SegInv, BmType, FreeRows
<1>3. /\ Len(free) \in Nat /\ now[active] \in 0 .. PPS /\ Len(free) * PPS \in Nat
      /\ Remain = Len(free) * PPS + PPS - now[active] /\ Remain \in Nat
  BY <1>0, <1>2, RemainValue, Zenon
<1>4. /\ todo \subseteq ValidIn(victim) /\ Cardinality(todo) < PPS
      /\ reserve = None => now[active] + Cardinality(todo) < PPS
      /\ Remain + (IF reserve = None THEN 0 ELSE PPS) > before + Cardinality(todo)
      /\ before \in Int
  BY <1>0, <1>1, Zenon DEF MoveInv, CtlType
<1>5. /\ seg \in Row /\ seg # victim /\ now[seg] # PPS /\ seg \notin RowsOf(free')
      /\ free' \in Seq(Row) /\ NoRepeat(free') /\ reserve' \in Row \cup {None}
      /\ reserve' \notin RowsOf(free') /\ reserve' # seg
      /\ \A r \in RowsOf(free') : now[r] = 0
      /\ reserve' \in Row => now[reserve'] = 0
      /\ \A r \in Row \ (RowsOf(free') \cup {reserve', seg}) : now[r] = PPS \/ r = victim
      /\ victim \notin RowsOf(free') \cup {reserve', seg}
      /\ reserve' = None => now[seg] + Cardinality(todo) < PPS
      /\ Len(free') * PPS + PPS - now[seg] + (IF reserve' = None THEN 0 ELSE PPS)
           > before + Cardinality(todo)
  <2>1. CASE ~ActiveFull
    <3>1. seg = active /\ free' = free /\ reserve' = reserve /\ now[seg] # PPS
      BY <2>1, Zenon DEF MoveTo, ActiveFull
    <3>2. /\ \A r \in FreeRows : now[r] = 0
          /\ reserve \in Row => now[reserve] = 0
          /\ \A r \in Row \ (FreeRows \cup {reserve, active}) : now[r] = PPS \/ r = victim
          /\ reserve # active /\ reserve \in Row \cup {None}
      BY <1>0, <1>1, <1>2, Zenon DEF SegInv, BmType
    <3>3. Len(free') * PPS + PPS - now[seg] = Remain
      BY <1>3, <3>1, Zenon
    <3> HIDE DEF seg, n
    <3>4. QED
      BY <1>2, <1>3, <1>4, <3>1, <3>2, <3>3, Zenon DEF FreeRows
  <2>2. CASE ActiveFull
    <3>1. now[active] = PPS /\ reserve \in Row
      BY <1>0, <1>1, <1>3, <1>4, <2>2 DEF ActiveFull, BmType
    <3> DEFINE all == Append(free, reserve)
    <3>2. seg = Head(all) /\ free' = Tail(all) /\ reserve' = None
      BY <2>2, Zenon DEF MoveTo
    <3>3. /\ all \in Seq(Row) /\ all # << >> /\ NoRepeat(all) /\ Len(all) = Len(free) + 1
          /\ RowsOf(all) = FreeRows \cup {reserve}
      BY <1>2, <3>1, AppendRows, Zenon DEF FreeRows
    <3> HIDE DEF seg, n, all
    <3>4. /\ seg \in RowsOf(all) /\ seg \in Row /\ free' \in Seq(Row) /\ NoRepeat(free')
          /\ RowsOf(free') = RowsOf(all) \ {seg} /\ Len(free') = Len(all) - 1
      BY <3>2, <3>3, TailRows, Zenon
    <3>5. Len(free') = Len(free)
      BY <1>3, <3>3, <3>4
    <3>6. \A r \in RowsOf(all) : now[r] = 0
      BY <1>0, <3>1, <3>3, Zenon DEF SegInv
    <3>7. seg # victim /\ victim \notin RowsOf(all)
      BY <1>2, <3>3, <3>4, Zenon
    <3>8. \A r \in Row \ (RowsOf(free') \cup {reserve', seg}) : now[r] = PPS \/ r = victim
      <4>1. ASSUME NEW r \in Row, r \notin RowsOf(free'), r # seg, r # active
            PROVE  now[r] = PPS \/ r = victim
        <5>1. r \notin FreeRows \cup {reserve, active}
          BY <4>1, <3>3, <3>4, Zenon
        <5>2. QED
          BY <5>1, <1>0, <1>1, Zenon DEF SegInv
      <4>2. QED
        BY <4>1, <3>1, Zenon
    <3>9. now[seg] = 0
      BY <3>4, <3>6, Zenon
    <3>10. reserve' = None => now[seg] + Cardinality(todo) < PPS
      BY <1>1, <1>4, <3>9
    <3>11. Len(free') * PPS + PPS - now[seg] + (IF reserve' = None THEN 0 ELSE PPS)
             > before + Cardinality(todo)
      <4>1. Len(free') * PPS = Len(free) * PPS
        BY <3>5, Zenon
      <4>2. Len(free) * PPS + PPS > before + Cardinality(todo)
        BY <1>0, <1>1, <1>3, <1>4, <3>1
      <4>3. Len(free') * PPS + PPS - now[seg] + 0 = Len(free) * PPS + PPS
        BY <1>0, <1>3, <3>9, <4>1
      <4>4. QED
        BY <3>2, <4>2, <4>3, Zenon
    <3>12. None \notin RowsOf(free')
      BY <1>0, <3>4, RowCount, Zenon
    <3>13. PPS # 0 /\ reserve' # seg /\ seg \notin RowsOf(free')
           /\ reserve' \notin Row /\ victim # None /\ victim \notin RowsOf(free') /\ seg # victim
      BY <1>0, <1>2, <3>2, <3>4, <3>7, Zenon
    <3>14. QED
      BY <3>13, <3>12, <3>2, <3>4, <3>6, <3>7, <3>8, <3>9, <3>10, <3>11, Zenon
  <2>3. QED
    BY SMTT(30), <2>1, <2>2
<1>6. active' = seg /\ now' = [now EXCEPT ![seg] = @ + 1] /\ valid' = valid \cup {n}
      /\ pbn' = [pbn EXCEPT ![i] = n] /\ UNCHANGED <<inv, comp, halt>> /\ n[1] = seg
      /\ n = <<seg, now[seg]>>
  OBVIOUS
<1> HIDE DEF seg, n
<1>7. /\ n \in Ppa /\ n \notin valid /\ now' \in [Row -> 0 .. PPS] /\ valid' \subseteq Ppa
      /\ PageInv'
  <2>1. /\ seg \in Row /\ now[seg] # PPS /\ inv' = inv /\ now' = [now EXCEPT ![seg] = @ + 1]
        /\ valid' = valid \cup {<<seg, now[seg]>>}
    BY ZenonT(60), <1>5, <1>6
  <2>2. /\ <<seg, now[seg]>> \in Ppa /\ <<seg, now[seg]>> \notin valid
        /\ now' \in [Row -> 0 .. PPS] /\ valid' \subseteq Ppa /\ PageInv'
    BY <1>0, <2>1, WriteAt, Zenon
  <2>3. QED
    BY SMTT(30), <1>6, <2>2
<1>8. now'[seg] = now[seg] + 1 /\ \A r \in Row : r # seg => now'[r] = now[r]
  BY <1>0, <1>5, <1>6, Zenon DEF BmType
<1>9. BmType' /\ RunType' /\ CtlType'
  <2>1. BmType'
    BY ZenonT(60), <1>0, <1>5, <1>6, <1>7 DEF BmType
  <2>2. RunType'
    BY <1>0, <1>2, <1>6, <1>7, Zenon DEF RunType
  <2>3. QED
    BY <1>0, <1>1, <1>6, <2>1, <2>2, Zenon DEF CtlType
<1>10. SegInv'
  <2>1. FreeRows' = RowsOf(free') /\ RowsOf(free') \subseteq Row
    BY ZenonT(60), <1>5, RowCount DEF FreeRows
  <2>2. /\ \A r \in FreeRows' : now'[r] = 0
        /\ reserve' \in Row => now'[reserve'] = 0
    BY <1>5, <1>8, <2>1, Zenon
  <2>3. \A r \in Row \ (FreeRows' \cup {reserve', active'}) :
           now'[r] = PPS \/ (pc' = "gc" /\ r = victim')
    BY SMTT(30), <1>1, <1>5, <1>6, <1>8, <2>1
  <2>4. pc' = "gc" /\ active' \in Row /\ active' # None
    BY SMTT(30), <1>0, <1>1, <1>5, <1>6
  <2>5. victim' \in Row \ (FreeRows' \cup {reserve', active'})
    BY ZenonT(60), <1>1, <1>2, <1>5, <1>6, <2>1
  <2>6. NoRepeat(free)' /\ reserve' \notin FreeRows' /\ active' \notin FreeRows' /\ active' # reserve'
    BY ZenonT(60), <1>5, <1>6, <2>1 DEF NoRepeat
  <2>7. QED
    BY <2>2, <2>3, <2>4, <2>5, <2>6, Zenon DEF SegInv
<1>11. OwnInv'
  <2>1. /\ Live' = Live /\ RunsIn({"invbygc"})' = RunsIn({"invbygc"})
        /\ i \notin RunsIn({"invbygc"})
    BY SMTT(30), <1>1, <1>6 DEF Live, RunsIn
  <2>2. pbn'[i] = n /\ \A j \in Runs : j # i => pbn'[j] = pbn[j]
    BY <1>0, <1>2, <1>6, Zenon DEF RunType
  <2>3. Live \subseteq Runs /\ RunsIn({"invbygc"}) \subseteq Runs
    BY SMTT(30), RunSets
  <2>10. /\ \A j \in Live : pbn[j] \in valid
         /\ \A j, k \in Live : pbn[j] = pbn[k] => j = k
         /\ \A j \in Live : pbn[j][1] = victim => pbn[j] \in todo
    BY ZenonT(60), <1>0, <1>1 DEF OwnInv
  <2>11. \A q \in valid : \/ q[1] = victim /\ q \notin todo
                          \/ \E j \in Live : pbn[j] = q
    BY ZenonT(60), <1>0, <1>1 DEF OwnInv
  <2>12. \A j \in RunsIn({"invbygc"}) :
           /\ pbn[j] \in Ppa /\ pbn[j] \notin todo
           /\ inv[pbn[j][1]] = 0 \/ pbn[j][1] = victim
    BY ZenonT(60), <1>0, <1>1 DEF OwnInv
  <2>4. \A j \in Live' : pbn'[j] \in valid'
    BY <1>6, <2>1, <2>2, <2>3, <2>10, Zenon
  <2>5. \A j, k \in Live' : pbn'[j] = pbn'[k] => j = k
    BY <1>7, <2>1, <2>2, <2>3, <2>10
  <2>6. \A q \in valid' : \/ pc' = "gc" /\ q[1] = victim' /\ q \notin todo'
                          \/ \E j \in Live' : pbn'[j] = q
    <3>1. ASSUME NEW q \in valid, q # p
          PROVE  \/ pc' = "gc" /\ q[1] = victim' /\ q \notin todo'
                 \/ \E j \in Live' : pbn'[j] = q
      <4>1. CASE q[1] = victim /\ q \notin todo
        BY <1>1, <4>1, Zenon
      <4>2. ASSUME NEW j \in Live, pbn[j] = q PROVE \E k \in Live' : pbn'[k] = q
        <5>1. j # i /\ j \in Runs
          BY <1>1, <2>3, <3>1, <4>2, Zenon
        <5>2. QED
          BY <2>1, <2>2, <4>2, <5>1, Zenon
      <4>3. QED
        BY <2>11, <4>1, <4>2, Zenon
    <3>2. pc' = "gc" /\ p[1] = victim' /\ p \notin todo'
      BY <1>1, Zenon
    <3>3. i \in Live' /\ pbn'[i] = n
      BY <1>1, <2>1, <2>2, Zenon
    <3>4. QED
      BY <1>6, <3>1, <3>2, <3>3, Zenon
  <2>7. \A j \in Live' : pc' = "gc" /\ pbn'[j][1] = victim' => pbn'[j] \in todo'
    <3>1. ASSUME NEW j \in Live, pbn'[j][1] = victim PROVE pbn'[j] \in todo'
      <4>1. j # i /\ j \in Runs
        BY <1>5, <1>6, <2>2, <2>3, <3>1, Zenon
      <4>2. pbn'[j] = pbn[j] /\ pbn[j] # p
        BY SMTT(30), <1>1, <2>2, <2>10, <4>1
      <4>3. QED
        BY SMTT(30), <1>1, <2>10, <3>1, <4>2
    <3>2. QED
      BY <1>1, <2>1, <3>1, Zenon
  <2>8. \A j \in RunsIn({"invbygc"})' :
           /\ pbn'[j] \in Ppa
           /\ inv'[pbn'[j][1]] = 0 \/ (pc' = "gc" /\ pbn'[j][1] = victim')
           /\ pc' = "gc" => pbn'[j] \notin todo'
    <3>1. ASSUME NEW j \in RunsIn({"invbygc"})
          PROVE  /\ pbn'[j] \in Ppa /\ pbn'[j] \notin todo'
                 /\ inv'[pbn'[j][1]] = 0 \/ pbn'[j][1] = victim'
      <4>1. pbn'[j] = pbn[j]
        BY <2>1, <2>2, <2>3, Zenon
      <4>2. QED
        BY <1>1, <1>6, <2>12, <4>1, Zenon
    <3>2. QED
      BY ZenonT(60), <1>1, <2>1, <3>1
  <2>9. QED
    BY <2>4, <2>5, <2>6, <2>7, <2>8, Zenon DEF OwnInv
<1>12. MoveInv'
  <2>1. Remain' = Len(free') * PPS + PPS - now'[seg]
    BY <1>6, Zenon DEF Remain
  <2>2. now[seg] \in Nat /\ Len(free') \in Nat /\ Len(free') * PPS \in Nat
    BY <1>0, <1>5 DEF BmType
  <2>3. todo' \subseteq ValidIn(victim)'
    BY <1>1, <1>4, <1>6, Zenon DEF ValidIn
  <2>4. Cardinality(todo') < PPS /\ (reserve' = None => now'[active'] + Cardinality(todo') < PPS)
    <3>1. Cardinality(todo') = Cardinality(todo) - 1 /\ Cardinality(todo) \in Nat
          /\ Cardinality(todo) < PPS /\ PPS \in Nat
      BY SMTT(30), <1>0, <1>1, <1>4
    <3>2. now'[active'] = now[seg] + 1
      BY <1>6, <1>8, Zenon
    <3>3. reserve' = None => now[seg] + Cardinality(todo) < PPS
      BY <1>5, Zenon
    <3>4. QED
      BY <2>2, <3>1, <3>2, <3>3
  <2>5. Remain' + (IF reserve' = None THEN 0 ELSE PPS) > before' + Cardinality(todo')
    <3>1. Remain' = Len(free') * PPS + PPS - now[seg] - 1
      BY <1>0, <1>8, <2>1, <2>2
    <3>5. /\ Len(free') * PPS \in Int /\ PPS \in Int /\ 0 \in Int /\ now[seg] \in Int
          /\ before \in Int /\ Cardinality(todo) \in Int
          /\ Remain' = Len(free') * PPS + PPS - now[seg] - 1
          /\ before' = before /\ Cardinality(todo') = Cardinality(todo) - 1
      BY <1>0, <1>1, <1>4, <2>2, <3>1
    <3>2. CASE reserve' = None
      <4>1. Len(free') * PPS + PPS - now[seg] + 0 > before + Cardinality(todo)
        BY <1>5, <3>2, Zenon
      <4>2. QED
        BY <3>2, <4>1, <3>5, StillGains, Zenon
    <3>3. CASE reserve' # None
      <4>1. Len(free') * PPS + PPS - now[seg] + PPS > before + Cardinality(todo)
        BY <1>5, <3>3, Zenon
      <4>2. QED
        BY <3>3, <4>1, <3>5, StillGains, Zenon
    <3>4. QED
      BY <3>2, <3>3, Zenon
  <2>6. QED
    BY SMTT(30), <2>3, <2>4, <2>5 DEF MoveInv
<1>13. AskInv' /\ FullMeansFull'
  <2>1. RunsIn({"new"})' = RunsIn({"new"})
    BY <1>6, Zenon DEF RunsIn
  <2>2. QED
    BY SMTT(30), <1>0, <1>1, <1>6, <2>1 DEF AskInv, ReservationHolds, FullMeansFull
<1>14. QED
  BY <1>7, <1>9, <1>10, <1>11, <1>12, <1>13, Zenon DEF IInv

\* One page of the victim keeps the invariant.
LEMMA GcMoveInv ==
  ASSUME IInv, GcMove
  PROVE  IInv'
<1>1. Owners(First(todo)) # {}
  BY GcLooks, Zenon
<1>2. PICK i \in Owners(First(todo)) :
       \/ /\ comp[i] \in {"comp", "invbygc"}
          /\ comp' = [comp EXCEPT ![i] = "invbygc"]
          /\ UNCHANGED <<bmVars, pbn, halt>>
       \/ /\ comp[i] \notin {"comp", "invbygc"}
          /\ active' = MoveTo
          /\ free' = (IF ActiveFull THEN Tail(Append(free, reserve)) ELSE free)
          /\ reserve' = (IF ActiveFull THEN None ELSE reserve)
          /\ now' = [now EXCEPT ![MoveTo] = @ + 1]
          /\ valid' = valid \cup {<<MoveTo, now[MoveTo]>>}
          /\ pbn' = [pbn EXCEPT ![i] = <<MoveTo, now[MoveTo]>>]
          /\ UNCHANGED <<inv, comp, halt>>
  BY <1>1, Zenon DEF GcMove
<1>3. CASE comp[i] \in {"comp", "invbygc"}
  BY <1>2, <1>3, GcDrops, Zenon
<1>4. CASE comp[i] \notin {"comp", "invbygc"}
  BY <1>2, <1>4, GcMoves, Zenon
<1>5. QED
  BY <1>3, <1>4, Zenon

\* What gc_header leaves: the victim's pages are gone, and the segments are where
\* SegmentsOwnedOnce wants them.
LEMMA GcEndSegments ==
  ASSUME IInv, GcEnd
  PROVE  /\ free' \in Seq(Row) /\ NoRepeat(free') /\ reserve' \in Row
         /\ RowsOf(free') \cup {reserve'} = (FreeRows \cup {reserve, victim}) \ {None}
         /\ reserve' \notin RowsOf(free') /\ victim \in Row
         /\ victim \notin FreeRows \cup {reserve, active} /\ active \in Row
         /\ active \notin FreeRows \cup {reserve}
         /\ Len(free) \in Nat /\ Len(free') = Len(free) + (IF reserve = None THEN 0 ELSE 1)
<1> DEFINE all == Append(free, victim)
<1>0. /\ BmType /\ SegInv /\ MoveInv /\ pc = "gc" /\ None \notin Row
      /\ reserve' = (IF reserve = None THEN Head(all) ELSE reserve)
      /\ free' = (IF reserve = None THEN Tail(all) ELSE all)
  BY HeaderAssumption, Zenon DEF IInv, GcEnd
<1>1. /\ victim \in Row /\ victim \notin FreeRows \cup {reserve, active} /\ active \in Row
      /\ active \notin FreeRows \cup {reserve} /\ reserve \notin FreeRows
      /\ free \in Seq(Row) /\ NoRepeat(free) /\ reserve \in Row \cup {None}
  BY <1>0, Zenon DEF SegInv, BmType
<1>2. FreeRows \subseteq Row
  BY <1>1, RowCount, Zenon DEF FreeRows
<1>3. /\ all \in Seq(Row) /\ all # << >> /\ NoRepeat(all) /\ Len(free) \in Nat
      /\ Len(all) = Len(free) + 1 /\ RowsOf(all) = FreeRows \cup {victim}
  BY <1>1, AppendRows, Zenon DEF FreeRows
<1> HIDE DEF all
<1>4. CASE reserve = None
  <2>1. reserve' = Head(all) /\ free' = Tail(all)
    BY <1>0, <1>4, Zenon
  <2>2. /\ reserve' \in RowsOf(all) /\ reserve' \in Row /\ free' \in Seq(Row) /\ NoRepeat(free')
        /\ RowsOf(free') = RowsOf(all) \ {reserve'} /\ Len(free') = Len(all) - 1
    BY <1>3, <2>1, TailRows, Zenon
  <2>3. Len(free') = Len(free) + (IF reserve = None THEN 0 ELSE 1)
    BY <1>3, <1>4, <2>2
  <2>4. RowsOf(free') \cup {reserve'} = (FreeRows \cup {reserve, victim}) \ {None}
    BY <1>0, <1>1, <1>2, <1>3, <1>4, <2>2
  <2>5. QED
    BY <1>1, <1>3, <2>2, <2>3, <2>4, Zenon
<1>5. CASE reserve # None
  <2>1. reserve' = reserve /\ free' = all
    BY <1>0, <1>5, Zenon
  <2>2. Len(free') = Len(free) + (IF reserve = None THEN 0 ELSE 1)
    BY <1>3, <1>5, <2>1, Zenon
  <2>3. RowsOf(free') \cup {reserve'} = (FreeRows \cup {reserve, victim}) \ {None}
    BY <1>0, <1>1, <1>2, <1>3, <1>5, <2>1, Zenon
  <2>4. QED
    BY <1>1, <1>3, <1>5, <2>1, <2>2, <2>3, Zenon
<1>6. QED
  BY <1>4, <1>5, Zenon

\* Every gc_header gains pages.
LEMMA GcEndGains ==
  ASSUME IInv, GcEnd
  PROVE  Remain' > before
<1>0. /\ BmType /\ SegInv /\ MoveInv /\ CtlType /\ pc = "gc" /\ todo = {} /\ TrimVictim
      /\ active' = active
  BY Zenon DEF IInv, GcEnd
<1>1. /\ victim # active /\ active \in Row /\ Len(free) \in Nat
      /\ Len(free') = Len(free) + (IF reserve = None THEN 0 ELSE 1)
  BY GcEndSegments, Zenon
<1>2. /\ PPS \in Nat /\ now[active] \in 0 .. PPS /\ Remain \in Nat
      /\ Remain = Len(free) * PPS + PPS - now[active] /\ Len(free) * PPS \in Nat
  BY <1>0, <1>1, RemainValue, Zenon
<1>3. now'[active] = now[active]
  BY <1>0, <1>1, Zenon DEF TrimVictim, BmType
<1>4. Remain + (IF reserve = None THEN 0 ELSE PPS) > before /\ before \in Int
  BY <1>0, <1>2, FS_EmptySet DEF MoveInv, CtlType
<1>5. Remain' = Len(free') * PPS + PPS - now[active]
  BY <1>0, <1>3, Zenon DEF Remain
<1>6. CASE reserve = None
  <2>1. Len(free') = Len(free)
    BY <1>1, <1>6
  <2>2. QED
    BY <1>2, <1>4, <1>5, <1>6, <2>1
<1>7. CASE reserve # None
  <2>1. Len(free') = Len(free) + 1
    BY <1>1, <1>7, Zenon
  <2>2. Len(free') * PPS = Len(free) * PPS + PPS
    BY <1>1, <1>2, <2>1
  <2>3. Remain' = Remain + PPS
    BY <1>2, <1>5, <2>2
  <2>4. QED
    BY <1>2, <1>4, <1>7, <2>3, Zenon
<1>8. QED
  BY <1>6, <1>7, Zenon

\* The end of gc_header keeps the invariant.
LEMMA GcEndInv ==
  ASSUME IInv, GcEnd
  PROVE  IInv'
<1>0. /\ BmType /\ RunType /\ CtlType /\ SegInv /\ PageInv /\ OwnInv /\ MoveInv /\ AskInv
      /\ pc = "gc" /\ halt = "no" /\ todo = {} /\ TrimVictim /\ pc' = caller
      /\ UNCHANGED <<active, pbn, comp, caller, need, left, victim, todo, before, halt>>
      /\ None \notin Row /\ PPS \in Nat
  BY HeaderAssumption, Zenon DEF IInv, GcEnd, runVars, gcVars
<1>1. /\ free' \in Seq(Row) /\ NoRepeat(free') /\ reserve' \in Row
      /\ RowsOf(free') \cup {reserve'} = (FreeRows \cup {reserve, victim}) \ {None}
      /\ reserve' \notin RowsOf(free') /\ victim \in Row
      /\ victim \notin FreeRows \cup {reserve, active} /\ active \in Row
      /\ active \notin FreeRows \cup {reserve} /\ Len(free') \in Nat
  BY GcEndSegments
<1>2. /\ now' = [now EXCEPT ![victim] = 0] /\ inv' = [inv EXCEPT ![victim] = 0]
      /\ valid' = {p \in valid : p[1] # victim}
  BY SMTT(30), <1>0 DEF TrimVictim
<1>3. /\ now'[victim] = 0 /\ inv'[victim] = 0
      /\ \A r \in Row : r # victim => now'[r] = now[r] /\ inv'[r] = inv[r]
  BY <1>0, <1>1, <1>2, Zenon DEF BmType
<1>4. BmType'
  <2>1. now' \in [Row -> 0 .. PPS] /\ inv' \in [Row -> Nat]
    <3>1. 0 \in 0 .. PPS /\ 0 \in Nat
      BY <1>0
    <3>2. now \in [Row -> 0 .. PPS] /\ inv \in [Row -> Nat]
      BY <1>0, Zenon DEF BmType
    <3>3. QED
      BY <1>2, <3>1, <3>2, Zenon
  <2>2. valid' \subseteq Ppa
    BY <1>0, <1>2, Zenon DEF BmType
  <2>3. QED
    BY <1>0, <1>1, <2>1, <2>2, Zenon DEF BmType
<1>5. RunType' /\ CtlType'
  BY <1>0, Zenon DEF RunType, CtlType
<1>6. SegInv'
  <2>1. FreeRows' = RowsOf(free') /\ RowsOf(free') \subseteq Row
    BY <1>1, RowCount, Zenon DEF FreeRows
  <2>2. \A r \in FreeRows' \cup {reserve'} : now'[r] = 0
    <3>1. ASSUME NEW r \in FreeRows' \cup {reserve'} PROVE now'[r] = 0
      <4>1. r \in Row /\ (r \in FreeRows \/ r = reserve \/ r = victim)
        BY <1>1, <2>1, Zenon
      <4>2. r # victim => now[r] = 0
        BY <1>0, <4>1, Zenon DEF SegInv
      <4>3. QED
        BY <1>3, <4>1, <4>2, Zenon
    <3>2. QED
      BY <3>1, Zenon
  <2>3. \A r \in Row \ (FreeRows' \cup {reserve', active'}) : now'[r] = PPS
    <3>1. ASSUME NEW r \in Row, r \notin FreeRows' \cup {reserve', active'} PROVE now'[r] = PPS
      <4>1. r \notin FreeRows \cup {reserve, active} /\ r # victim
        BY <1>0, <1>1, <2>1, <3>1, Zenon
      <4>2. QED
        BY <1>0, <1>3, <4>1, Zenon DEF SegInv
    <3>2. QED
      BY <3>1, Zenon
  <2>4. active' \in Row /\ active' \notin FreeRows' /\ active' # reserve' /\ active' # None
    BY <1>0, <1>1, <2>1, Zenon
  <2>5. pc' # "gc"
    BY <1>0, Zenon DEF CtlType
  <2>6. NoRepeat(free)'
    BY <1>1, Zenon DEF NoRepeat
  <2>7. QED
    BY <1>1, <2>1, <2>2, <2>3, <2>4, <2>5, <2>6, Zenon DEF SegInv
<1>7. PageInv'
  <2>1. \A p \in valid' : p[2] < now'[p[1]]
    BY <1>0, <1>2, <1>3, PpaParts, Zenon DEF PageInv, BmType
  <2>2. ASSUME NEW r \in Row PROVE inv'[r] + Cardinality(ValidIn(r)') = now'[r]
    <3>1. CASE r = victim
      <4>1. ValidIn(r)' = {}
        BY <1>2, <3>1, Zenon DEF ValidIn
      <4>2. QED
        BY <1>3, <3>1, <4>1, FS_EmptySet
    <3>2. CASE r # victim
      <4>1. ValidIn(r)' = ValidIn(r)
        BY <1>2, <3>2, Zenon DEF ValidIn
      <4>2. inv[r] + Cardinality(ValidIn(r)) = now[r]
        BY <1>0, Zenon DEF PageInv, InvalidExact
      <4>3. QED
        BY <1>3, <3>2, <4>1, <4>2, Zenon
    <3>3. QED
      BY <3>1, <3>2, Zenon
  <2>3. QED
    BY <2>1, <2>2, Zenon DEF PageInv, InvalidExact
<1>8. OwnInv'
  <2>1. /\ Live' = Live /\ RunsIn({"invbygc"})' = RunsIn({"invbygc"}) /\ pc' # "gc"
        /\ pbn' = pbn
    BY <1>0, Zenon DEF Live, RunsIn, CtlType
  <2>2. \A i \in Live : pbn[i] \in valid'
    BY <1>0, <1>2, Zenon DEF OwnInv
  <2>3. \A p \in valid' : \E i \in Live : pbn[i] = p
    BY <1>0, <1>2, Zenon DEF OwnInv
  <2>4. \A i \in RunsIn({"invbygc"}) : pbn[i] \in Ppa /\ inv'[pbn[i][1]] = 0
    BY <1>0, <1>3, PpaParts, Zenon DEF OwnInv
  <2>5. QED
    <3>1. \A i, j \in Live : pbn[i] = pbn[j] => i = j
      BY <1>0, Zenon DEF OwnInv
    <3>2. QED
      BY SMTT(30), <2>1, <2>2, <2>3, <2>4, <3>1 DEF OwnInv
<1>9. pc' # "gc" /\ MoveInv'
  BY <1>0, Zenon DEF MoveInv, CtlType
<1>10. AskInv' /\ FullMeansFull'
  <2>1. RunsIn({"new"})' = RunsIn({"new"})
    BY <1>0, Zenon DEF RunsIn
  <2>2. Len(free') * PPS \in Nat /\ now'[active] \in 0 .. PPS
    BY <1>0, <1>1, <1>4 DEF BmType
  <2>3. Remain' \in Nat
    <3>1. Remain' = Len(free') * PPS + PPS - now'[active]
      BY <1>0, Zenon DEF Remain
    <3>2. QED
      BY <1>0, <2>2, <3>1
  <2>4. Cardinality(RunsIn({"new"})) \in Nat
    BY RunSets, RunsFinite, Zenon
  <2>5. CASE caller = "write"
    <3>1. Cardinality(RunsIn({"new"})) >= need /\ need \in Nat
      BY <1>0, <2>5, Zenon DEF AskInv, ReservationHolds, CtlType
    <3>2. Remain' + Cardinality(RunsIn({"new"})') >= need'
      BY <1>0, <2>1, <2>3, <2>4, <3>1
    <3>3. QED
      BY <1>0, <2>5, <3>2, Zenon DEF AskInv, ReservationHolds, FullMeansFull
  <2>6. CASE caller = "check"
    BY <1>0, <2>1, <2>6, Zenon DEF AskInv, ReservationHolds, FullMeansFull
  <2>7. QED
    BY <1>0, <2>5, <2>6, Zenon DEF CtlType
<1>11. QED
  BY <1>4, <1>5, <1>6, <1>7, <1>8, <1>9, <1>10, Zenon DEF IInv

\* Segments that are full of valid pages hold PPS pages each, and the part of the
\* active segment that is written holds as many as its write point says.
LEMMA PackedCount ==
  ASSUME NEW F, F \subseteq Row, NEW a \in Row, a \notin F, NEW k \in 0 .. PPS,
         NEW P, P = (F \X (0 .. PPS - 1)) \cup ({a} \X (0 .. k - 1))
  PROVE  /\ IsFiniteSet(F) /\ Cardinality(F) \in Nat
         /\ Cardinality(P) = Cardinality(F) * PPS + k
<1>1. PPS \in Nat /\ k \in Nat /\ IsFiniteSet(Row)
  BY HeaderAssumption, FS_Interval DEF Row
<1>2. IsFiniteSet(F) /\ Cardinality(F) \in Nat
  BY <1>1, FS_Subset, FS_CardinalityType, Zenon
<1>3. IsFiniteSet(0 .. PPS - 1) /\ Cardinality(0 .. PPS - 1) = PPS
  BY <1>1, FS_Interval
<1>4. IsFiniteSet(0 .. k - 1) /\ Cardinality(0 .. k - 1) = k
  BY <1>1, FS_Interval
<1>5. IsFiniteSet({a}) /\ Cardinality({a}) = 1
  BY FS_Singleton, Zenon
<1> DEFINE A == F \X (0 .. PPS - 1)
           B == {a} \X (0 .. k - 1)
<1>6. IsFiniteSet(A) /\ Cardinality(A) = Cardinality(F) * PPS
  BY <1>2, <1>3, FS_Product, Zenon
<1>7. IsFiniteSet(B) /\ Cardinality(B) = 1 * k
  BY <1>4, <1>5, FS_Product
<1>8. A \cap B = {}
  OBVIOUS
<1>9. P = A \cup B
  OBVIOUS
<1> HIDE DEF A, B
<1>10. Cardinality(P) = Cardinality(A) + Cardinality(B) - Cardinality(A \cap B)
  BY <1>6, <1>7, <1>9, FS_Union, Zenon
<1>11. Cardinality(A \cap B) = 0
  BY <1>8, FS_EmptySet, Zenon
<1>12. Cardinality(F) * PPS \in Nat
  BY <1>1, <1>2
<1>13. QED
  BY <1>1, <1>2, <1>6, <1>7, <1>10, <1>11, <1>12

\* A segment without invalid pages has the pages below its write point valid.
LEMMA PackedRow ==
  ASSUME BmType, PageInv, NEW r \in Row, inv[r] = 0
  PROVE  ValidIn(r) = {r} \X (0 .. now[r] - 1)
<1> DEFINE B == {r} \X (0 .. now[r] - 1)
<1>1. now[r] \in Nat /\ Cardinality(ValidIn(r)) = now[r]
  <2>1. inv[r] + Cardinality(ValidIn(r)) = now[r] /\ now[r] \in Nat
    BY HeaderAssumption DEF PageInv, InvalidExact, BmType
  <2>2. Cardinality(ValidIn(r)) \in Nat
    BY ValidFinite, Zenon DEF BmType
  <2>3. QED
    BY <2>1, <2>2
<1>2. ValidIn(r) \subseteq B
  <2>1. ASSUME NEW p \in ValidIn(r) PROVE p \in B
    <3>1. p \in Ppa /\ p[1] = r /\ p[2] < now[r]
      BY Zenon DEF ValidIn, PageInv, BmType
    <3>2. p[2] \in 0 .. now[r] - 1 /\ p = <<p[1], p[2]>>
      BY <1>1, <3>1, PpaParts
    <3>3. QED
      BY <3>1, <3>2, Zenon
  <2>2. QED
    BY <2>1, Zenon
<1>3. IsFiniteSet(B) /\ Cardinality(B) = now[r]
  <2>1. IsFiniteSet({r}) /\ Cardinality({r}) = 1
    BY FS_Singleton, Zenon
  <2>2. IsFiniteSet(0 .. now[r] - 1) /\ Cardinality(0 .. now[r] - 1) = now[r]
    BY SMTT(30), <1>1, FS_Interval
  <2>3. IsFiniteSet(B) /\ Cardinality(B) = 1 * now[r]
    BY ZenonT(60), <2>1, <2>2, FS_Product
  <2>4. QED
    BY <1>1, <2>3
<1> HIDE DEF B
<1>4. ValidIn(r) = B
  BY <1>1, <1>2, <1>3, FS_Subset, Zenon
<1>5. QED
  BY <1>4, Zenon DEF B

\* Without invalid pages, all segments but the free ones, the reserve and the active
\* one are full of valid pages: the runs use up what is not free.
LEMMA AllPacked ==
  ASSUME IInv, pc # "gc", active \in Row, \A r \in Row : inv[r] = 0
  PROVE  Cardinality(Live) = (SEGS - 1) * PPS - Remain
<1> DEFINE F == Row \ (FreeRows \cup {reserve, active})
<1>0. BmType /\ SegInv /\ PageInv /\ OwnInv
  BY Zenon DEF IInv
<1>1. /\ free \in Seq(Row) /\ NoRepeat(free) /\ reserve \in Row /\ active # reserve
      /\ reserve \notin FreeRows /\ active \notin FreeRows /\ now \in [Row -> 0 .. PPS]
      /\ valid \subseteq Ppa /\ SEGS \in Nat /\ PPS \in Nat
  BY <1>0, HeaderAssumption, Zenon DEF SegInv, BmType
<1>2. valid = (F \X (0 .. PPS - 1)) \cup ({active} \X (0 .. now[active] - 1))
  <2>1. ASSUME NEW p \in valid
        PROVE  p \in (F \X (0 .. PPS - 1)) \cup ({active} \X (0 .. now[active] - 1))
    <3>1. /\ p[1] \in Row /\ p[2] \in Nat /\ p[2] < now[p[1]] /\ p = <<p[1], p[2]>>
          /\ p[2] < PPS
      BY <1>0, <1>1, PpaParts, Zenon DEF PageInv
    <3>2. p[1] \notin FreeRows \cup {reserve}
      BY <1>0, <1>1, <3>1 DEF SegInv
    <3>3. CASE p[1] = active
      BY <1>1, <3>1, <3>3
    <3>4. CASE p[1] # active
      BY <1>1, <3>1, <3>2, <3>4
    <3>5. QED
      BY <3>3, <3>4, Zenon
  <2>2. ASSUME NEW r \in Row, NEW k \in 0 .. now[r] - 1 PROVE <<r, k>> \in valid
    <3>1. ValidIn(r) = {r} \X (0 .. now[r] - 1)
      BY <1>0, PackedRow, Zenon
    <3>2. QED
      BY <3>1, Zenon DEF ValidIn
  <2>3. \A r \in F : now[r] = PPS
    BY <1>0, Zenon DEF SegInv
  <2>4. QED
    BY <2>1, <2>2, <2>3
<1>3. /\ IsFiniteSet(F) /\ Cardinality(F) \in Nat
      /\ Cardinality(valid) = Cardinality(F) * PPS + now[active]
  BY ZenonT(60), <1>1, <1>2, PackedCount
<1>4. Cardinality(F) = SEGS - 2 - Len(free)
  <2>1. IsFiniteSet(Row) /\ Cardinality(Row) = SEGS
    BY <1>1, FS_Interval DEF Row
  <2>2. IsFiniteSet(FreeRows) /\ Cardinality(FreeRows) = Len(free) /\ FreeRows \subseteq Row
    BY <1>1, RowCount, Zenon DEF FreeRows
  <2> DEFINE G == FreeRows \cup {reserve}
             H == G \cup {active}
  <2>3. IsFiniteSet(G) /\ Cardinality(G) = Len(free) + 1
    BY <1>1, <2>2, FS_AddElement, Zenon
  <2>4. active \notin G
    BY <1>1, Zenon
  <2>5. H \subseteq Row /\ F = Row \ H
    BY <1>1, <2>2, Zenon
  <2> HIDE DEF G
  <2>6. IsFiniteSet(H) /\ Cardinality(H) = Len(free) + 1 + 1
    BY <2>3, <2>4, FS_AddElement, Zenon
  <2> HIDE DEF H, F
  <2>7. Cardinality(F) = Cardinality(Row) - Cardinality(Row \cap H)
    BY <2>1, <2>5, FS_Difference, Zenon
  <2>8. Row \cap H = H
    BY <2>5, Zenon
  <2>9. Len(free) \in Nat
    BY <1>1
  <2>10. Cardinality(F) = SEGS - (Len(free) + 1 + 1)
    BY <2>1, <2>6, <2>7, <2>8, Zenon
  <2>11. QED
    BY <1>1, <2>9, <2>10
<1> HIDE DEF F
<1>5. Cardinality(Live) = Cardinality(valid)
  <2>1. {pbn[i] : i \in Live} = valid
    BY <1>0 DEF OwnInv
  <2>2. QED
    BY <1>0, <2>1, PagesOfRuns, Zenon
<1>6. Remain = Len(free) * PPS + PPS - now[active] /\ Len(free) \in Nat /\ now[active] \in Nat
      /\ Len(free) * PPS \in Nat
  BY <1>0, RemainValue
<1>7. (SEGS - 2 - Len(free)) * PPS = (SEGS - 1) * PPS - PPS - Len(free) * PPS
  BY <1>1, <1>6
<1>8. (SEGS - 1) * PPS \in Int
  BY <1>1
<1>9. QED
  BY <1>1, <1>3, <1>4, <1>5, <1>6, <1>7, <1>8

\* gc_header finds no segment with an invalid page.
LEMMA GcFull ==
  ASSUME IInv, GcStart, inv[MostInvalid] = 0
  PROVE  IInv'
<1>0. /\ BmType /\ RunType /\ CtlType /\ SegInv /\ PageInv /\ OwnInv /\ MoveInv /\ AskInv
      /\ halt = "no" /\ halt' = "full" /\ pc # "gc" /\ PPS \in Nat /\ SEGS \in Nat
      /\ \/ pc = "check" /\ Remain < need
         \/ pc = "write" /\ left > 0 /\ ActiveFull /\ free = << >>
      /\ UNCHANGED <<free, now, inv, valid, active, reserve, pbn, comp, pc, caller, need,
                     left, victim, todo, before>>
  BY HeaderAssumption, Zenon DEF IInv, GcStart, bmVars, runVars, gcVars
<1>1. active \in Row
  BY <1>0, Zenon DEF SegInv, BmType
<1>2. \A r \in Row : inv[r] = 0
  <2>1. \A r \in Row : inv[r] <= now[r] /\ inv[r] \in Nat
    BY <1>0, InvBound, Zenon
  <2>2. \A r \in Row : inv[r] <= inv[MostInvalid]
    BY <1>0, <2>1, MostInvalidIsOne, Zenon DEF BmType
  <2>3. QED
    BY SMTT(30), <2>1, <2>2
<1>3. Cardinality(Live) = (SEGS - 1) * PPS - Remain
  BY <1>0, <1>1, <1>2, AllPacked, Zenon
<1>4. /\ Remain \in Nat /\ Remain = Len(free) * PPS + PPS - now[active]
      /\ (free = << >> <=> Len(free) = 0) /\ (SEGS - 1) * PPS \in Int
      /\ need \in Nat /\ left \in Nat
  BY <1>0, <1>1, RemainValue DEF CtlType
<1>5. Cardinality(Live) + (IF pc = "check" THEN need ELSE left) > (SEGS - 1) * PPS
  <2>1. CASE pc = "check" /\ Remain < need
    BY <1>3, <1>4, <2>1
  <2>2. CASE pc = "write" /\ left > 0 /\ ActiveFull /\ free = << >>
    <3>1. now[active] = PPS /\ Len(free) = 0
      BY <1>4, <2>2, Zenon DEF ActiveFull
    <3>2. Remain = 0
      BY <1>0, <1>4, <3>1
    <3>3. QED
      BY <1>3, <1>4, <2>2, <3>2
  <2>3. QED
    BY <1>0, <2>1, <2>2, Zenon
<1>6. Live' = Live /\ RunsIn({"new"})' = RunsIn({"new"}) /\ Remain' = Remain
      /\ RunsIn({"invbygc"})' = RunsIn({"invbygc"}) /\ FreeRows' = FreeRows
  BY <1>0, Zenon DEF Live, RunsIn, Remain, FreeRows
<1>7. FullMeansFull'
  BY <1>0, <1>5, <1>6, Zenon DEF FullMeansFull
<1>8. BmType' /\ RunType' /\ CtlType'
  BY ZenonT(60), <1>0 DEF BmType, RunType, CtlType
<1>9. SegInv' /\ PageInv'
  BY <1>0, <1>6, Zenon DEF SegInv, PageInv, InvalidExact, ValidIn, NoRepeat
<1>10. OwnInv' /\ MoveInv' /\ AskInv'
  BY <1>0, <1>6, Zenon DEF OwnInv, MoveInv, AskInv, ReservationHolds
<1>11. QED
  BY <1>7, <1>8, <1>9, <1>10, Zenon DEF IInv

-----------------------------------------------------------------------------
(* The theorems.                                                           *)

\* pm_init establishes the invariant.
LEMMA InitInv ==
  ASSUME Init
  PROVE  IInv
<1>0. /\ SEGS \in Nat /\ SEGS >= 2 /\ PPS \in Nat /\ PPS # 0 /\ None \notin Row
      /\ None \notin Ppa /\ Row = 0 .. SEGS - 1
  BY HeaderAssumption, Zenon DEF Row
<1>1. /\ free = [j \in 1 .. SEGS - 1 |-> j]
      /\ now = [r \in Row |-> 0] /\ inv = [r \in Row |-> 0] /\ valid = {}
      /\ active = None /\ reserve = 0
      /\ pbn = [i \in Runs |-> None] /\ comp = [i \in Runs |-> "none"]
      /\ pc = "idle" /\ caller = "check" /\ need = 0 /\ left = 0
      /\ victim = None /\ todo = {} /\ before = 0 /\ halt = "no"
  BY Zenon DEF Init
<1>2. free \in Seq(Row) /\ DOMAIN free = 1 .. SEGS - 1 /\ free # << >>
  <2>1. \A j \in 1 .. SEGS - 1 : j \in Row
    BY <1>0
  <2>2. SEGS - 1 \in Nat /\ free \in [1 .. SEGS - 1 -> Row]
    BY <1>0, <1>1, <2>1
  <2>3. DOMAIN free = 1 .. SEGS - 1 /\ 1 \in DOMAIN free
    BY <1>0, <1>1
  <2>4. free \in Seq(Row)
    BY <2>2
  <2>5. DOMAIN << >> = {}
    OBVIOUS
  <2>6. free # << >>
    BY <2>3, <2>5, Zenon
  <2>7. QED
    BY <2>3, <2>4, <2>6, Zenon
<1>3. NoRepeat(free)
  BY <1>1, <1>2, Zenon DEF NoRepeat
<1>4. FreeRows = 1 .. SEGS - 1
  BY <1>1, <1>2, Zenon DEF FreeRows, RowsOf
<1>5. BmType
  BY <1>0, <1>1, <1>2 DEF BmType
<1>6. RunType /\ CtlType
  BY <1>0, <1>1 DEF RunType, CtlType
<1>7. SegInv
  <2>1. reserve \in Row /\ active \notin Row /\ FreeRows \subseteq Row
    BY <1>0, <1>1, <1>4
  <2>2. \A r \in Row : now[r] = 0
    BY <1>1, Zenon
  <2>3. Row \ (FreeRows \cup {reserve, active}) = {}
    BY <1>0, <1>1, <1>4
  <2>4. reserve \notin FreeRows /\ active \notin FreeRows
    BY <1>0, <1>1, <1>4, <2>1
  <2>5. QED
    BY <1>1, <1>2, <1>3, <2>1, <2>2, <2>3, <2>4, Zenon DEF SegInv
<1>8. PageInv
  <2>1. ASSUME NEW r \in Row PROVE inv[r] + Cardinality(ValidIn(r)) = now[r]
    <3>1. ValidIn(r) = {}
      BY <1>1, Zenon DEF ValidIn
    <3>2. QED
      BY <1>1, <3>1, FS_EmptySet
  <2>2. QED
    BY <1>1, <2>1, Zenon DEF PageInv, InvalidExact
<1>9. Live = {} /\ RunsIn({"invbygc"}) = {} /\ RunsIn({"new"}) = {}
  BY <1>1, Zenon DEF Live, RunsIn
<1>10. OwnInv /\ MoveInv /\ AskInv /\ FullMeansFull
  BY <1>1, <1>9, Zenon DEF OwnInv, MoveInv, AskInv, ReservationHolds, FullMeansFull
<1>11. QED
  BY <1>5, <1>6, <1>7, <1>8, <1>10, Zenon DEF IInv

\* Steps that change nothing.
LEMMA StutterInv ==
  ASSUME IInv, UNCHANGED vars
  PROVE  IInv'
<1>1. UNCHANGED <<free, now, inv, valid, active, reserve, pbn, comp, pc, caller, need, left,
                  victim, todo, before, halt>>
  BY Zenon DEF vars, bmVars, runVars, gcVars
<1>2. Live' = Live /\ RunsIn({"new"})' = RunsIn({"new"}) /\ Remain' = Remain
      /\ RunsIn({"invbygc"})' = RunsIn({"invbygc"}) /\ FreeRows' = FreeRows
  BY <1>1, Zenon DEF Live, RunsIn, Remain, FreeRows
<1>3. BmType' /\ RunType' /\ CtlType'
  BY SMTT(30), <1>1 DEF IInv, BmType, RunType, CtlType
<1>4. SegInv' /\ PageInv'
  BY SMTT(30), <1>1, <1>2 DEF IInv, SegInv, PageInv, InvalidExact, ValidIn, NoRepeat
<1>5. OwnInv' /\ MoveInv'
  BY <1>1, <1>2 DEF IInv, OwnInv, MoveInv, ValidIn
<1>6. AskInv' /\ FullMeansFull'
  BY <1>1, <1>2, Zenon DEF IInv, AskInv, ReservationHolds, FullMeansFull
<1>7. QED
  BY <1>3, <1>4, <1>5, <1>6, Zenon DEF IInv

\* Every step keeps the invariant.
LEMMA StepInv ==
  ASSUME IInv, [Next]_vars
  PROVE  IInv'
<1>1. ASSUME NEW S \in SUBSET RunsIn({"disk"}), NEW up \in 0 .. MAXUP, Leveling(S, up)
      PROVE  IInv'
  BY <1>1, LevelingInv, Zenon
<1>2. CASE CheckDone
  BY <1>2, CheckDoneInv, Zenon
<1>3. ASSUME NEW i \in Runs, WriteHeader(i) PROVE IInv'
  BY <1>3, WriteHeaderInv, Zenon
<1>4. CASE LevelChange
  BY <1>4, LevelChangeInv, Zenon
<1>5. CASE GcStart
  <2>1. CASE inv[MostInvalid] = 0
    BY <1>5, <2>1, GcFull, Zenon
  <2>2. CASE inv[MostInvalid] # 0
    BY <1>5, <2>2, GcBegins, Zenon
  <2>3. QED
    BY <2>1, <2>2, Zenon
<1>6. CASE GcMove
  BY <1>6, GcMoveInv, Zenon
<1>7. CASE GcEnd
  BY <1>7, GcEndInv, Zenon
<1>8. CASE Dead
  BY <1>8, StutterInv, Zenon DEF Dead
<1>9. CASE UNCHANGED vars
  BY <1>9, StutterInv, Zenon
<1>10. QED
  BY <1>1, <1>2, <1>3, <1>4, <1>5, <1>6, <1>7, <1>8, <1>9, Zenon DEF Next

\* The invariant holds through any number of compactions and garbage collections.
THEOREM Inductive == Spec => []IInv
<1>1. Init => IInv
  BY InitInv, Zenon
<1>2. IInv /\ [Next]_vars => IInv'
  BY StepInv, Zenon
<1>3. QED
  BY <1>1, <1>2, PTL DEF Spec

\* The write point of a MAP segment stays within the segment, and map_m hands out
\* pages of the MAP partition only.
THEOREM Types == Spec => []TypeOK
<1>1. IInv => TypeOK
  BY SMTT(30) DEF IInv, BmType, RunType, CtlType, TypeOK
<1>2. QED
  BY <1>1, Inductive, PTL

\* Every run that is needed has a valid page of its own, and gc_header never meets the
\* valid page of no run, on which it prints error! and aborts.
THEOREM HeadersKept == Spec => []RunsOwnPages
<1>1. IInv => RunsOwnPages
  BY Zenon DEF IInv, CtlType, OwnInv, RunsOwnPages
<1>2. QED
  BY <1>1, Inductive, PTL

\* invalid_number, by which gc_header chooses, is exact.
THEOREM CountExact == Spec => []InvalidExact
<1>1. IInv => InvalidExact
  BY Zenon DEF IInv, PageInv
<1>2. QED
  BY <1>1, Inductive, PTL

\* Every segment is free, the reserve, active, full, or the victim, and in one of
\* these places only.
THEOREM OneOwner == Spec => []SegmentsOwnedOnce
<1>1. ASSUME IInv PROVE SegmentsOwnedOnce
  <2>0. BmType /\ SegInv /\ None \notin Row
    BY <1>1, HeaderAssumption, Zenon DEF IInv
  <2>1. free \in Seq(Row) /\ DOMAIN free = 1 .. Len(free)
    BY <2>0 DEF BmType
  <2>2. FreeRows = {free[k] : k \in 1 .. Len(free)}
    BY <2>1, Zenon DEF FreeRows, RowsOf
  <2>3. Cardinality(FreeRows) = Len(free)
    BY <2>0, <2>1, RowCount, Zenon DEF SegInv, FreeRows
  <2>4. /\ reserve \notin FreeRows /\ active \notin FreeRows
        /\ active # None => active # reserve
        /\ \A r \in FreeRows \cup ({reserve} \ {None}) : now[r] = 0
        /\ \A r \in Row \ (FreeRows \cup {reserve, active}) :
              now[r] = PPS \/ (pc = "gc" /\ r = victim)
        /\ pc # "gc" => reserve # None
    BY <2>0, Zenon DEF SegInv, BmType
  <2>5. QED
    BY <2>2, <2>3, <2>4, Zenon DEF SegmentsOwnedOnce
<1>2. QED
  BY <1>1, Inductive, PTL

\* page_check_available keeps its word: getPPA collects garbage only after as many
\* headers as leveling asked for.
THEOREM WordKept == Spec => []ReservationHolds
<1>1. IInv => ReservationHolds
  BY Zenon DEF IInv, AskInv
<1>2. QED
  BY <1>1, Inductive, PTL

\* device full! is said only when the headers do not fit.
THEOREM FullIsTrue == Spec => []FullMeansFull
<1>1. IInv => FullMeansFull
  BY Zenon DEF IInv
<1>2. QED
  BY <1>1, Inductive, PTL

\* Every gc_header leaves more pages to write than it found.
THEOREM EveryGcGains == Spec => GcGains
<1>1. ASSUME IInv, [Next]_vars
      PROVE  [pc = "gc" /\ pc' # "gc" => Remain' > before]_vars
  <2>1. ASSUME pc = "gc", pc' # "gc" PROVE GcEnd
    <3>1. pc' # pc
      BY <2>1, Zenon
    <3>2. ~UNCHANGED vars
      BY SMTT(30), <3>1 DEF vars
    <3>3. ~CheckDone /\ ~LevelChange /\ ~GcStart /\ ~Dead /\ ~GcMove
      BY ZenonT(60), <2>1, <3>2 DEF CheckDone, LevelChange, GcStart, Dead, GcMove
    <3>4. /\ \A S \in SUBSET RunsIn({"disk"}), up \in 0 .. MAXUP : ~Leveling(S, up)
          /\ \A i \in Runs : ~WriteHeader(i)
      BY <2>1, Zenon DEF Leveling, WriteHeader
    <3>5. QED
      BY <1>1, <3>2, <3>3, <3>4, Zenon DEF Next
  <2>2. QED
    BY <1>1, <2>1, GcEndGains, Zenon
<1>2. QED
  BY <1>1, Inductive, PTL DEF Spec, GcGains

=============================================================================
