--------------------------- MODULE LsmTree_proofs ---------------------------
(***************************************************************************)
(* Proofs about module LsmTree: over any number of flushes and data        *)
(* collections, with any number of segments, every DATA segment is in      *)
(* exactly one place.                                                      *)
(***************************************************************************)
EXTENDS LsmTree, TLAPS, FiniteSetTheorems

\* Segment s is in queue q, and q lists no segment twice.
Has(q, s) == \E i \in 1 .. Len(q) : q[i] = s
Distinct(q) == \A i, j \in 1 .. Len(q) : q[i] = q[j] => i = j

-----------------------------------------------------------------------------
(* Queues.                                                                 *)

\* Taking the head off a queue without repetitions (q_dequeue of the free
\* queue, mh_get_max of the candidates).
LEMMA TailLemma ==
  ASSUME NEW S, NEW q \in Seq(S), q # <<>>, Distinct(q)
  PROVE  /\ Head(q) \in S /\ Has(q, Head(q))
         /\ Tail(q) \in Seq(S) /\ Distinct(Tail(q))
         /\ \A s : Has(Tail(q), s) <=> Has(q, s) /\ s # Head(q)
         /\ Len(q) > 1 => /\ Tail(q) # <<>>
                          /\ Tail(q)[Len(Tail(q))] = q[Len(q)]
                          /\ q[Len(q)] # Head(q)
<1>1. /\ Len(q) \in Nat /\ Len(q) > 0
      /\ Head(q) = q[1] /\ Head(q) \in S
      /\ Tail(q) \in Seq(S) /\ Len(Tail(q)) = Len(q) - 1
      /\ \A i \in 1 .. Len(q) - 1 : Tail(q)[i] = q[i + 1]
  OBVIOUS
<1>2. Has(q, Head(q))
  BY <1>1 DEF Has
<1>3. Distinct(Tail(q))
  BY <1>1 DEF Distinct
<1>4. ASSUME NEW s PROVE Has(Tail(q), s) <=> Has(q, s) /\ s # Head(q)
  <2>1. ASSUME Has(Tail(q), s) PROVE Has(q, s) /\ s # Head(q)
    <3>1. PICK i \in 1 .. Len(q) - 1 : q[i + 1] = s
      BY <2>1, <1>1 DEF Has
    <3>2. i + 1 \in 1 .. Len(q) /\ 1 \in 1 .. Len(q) /\ i + 1 # 1
      BY <1>1
    <3>3. QED
      BY <3>1, <3>2, <1>1 DEF Has, Distinct
  <2>2. ASSUME Has(q, s), s # Head(q) PROVE Has(Tail(q), s)
    <3>1. PICK i \in 1 .. Len(q) : q[i] = s
      BY <2>2 DEF Has
    <3>2. i - 1 \in 1 .. Len(Tail(q)) /\ Tail(q)[i - 1] = s
      BY <3>1, <2>2, <1>1
    <3>3. QED
      BY <3>2 DEF Has
  <2>3. QED
    BY <2>1, <2>2
<1>5. ASSUME Len(q) > 1
      PROVE  /\ Tail(q) # <<>> /\ Tail(q)[Len(Tail(q))] = q[Len(q)]
             /\ q[Len(q)] # Head(q)
  <2>1. Len(Tail(q)) \in 1 .. Len(q) - 1 /\ Len(Tail(q)) + 1 = Len(q)
    BY <1>1, <1>5
  <2>2. Tail(q)[Len(Tail(q))] = q[Len(q)]
    BY <1>1, <2>1
  <2>3. 1 \in 1 .. Len(q) /\ Len(q) \in 1 .. Len(q) /\ 1 # Len(q)
    BY <1>1, <1>5
  <2>4. q[Len(q)] # q[1]
    BY <2>3 DEF Distinct
  <2>5. Tail(q) # <<>>
    <3>1. Len(<<>>) = 0 /\ Len(Tail(q)) # 0
      BY <1>1, <1>5
    <3>2. QED
      BY <3>1, Zenon
  <2>6. QED
    BY <1>1, <2>2, <2>4, <2>5
<1>6. QED
  BY <1>1, <1>2, <1>3, <1>4, <1>5

\* Appending an element that a queue without repetitions does not have.
LEMMA AppendLemma ==
  ASSUME NEW S, NEW q \in Seq(S), NEW e \in S, Distinct(q), ~Has(q, e)
  PROVE  /\ Append(q, e) \in Seq(S) /\ Distinct(Append(q, e))
         /\ \A s : Has(Append(q, e), s) <=> Has(q, s) \/ s = e
         /\ Append(q, e) # <<>> /\ Append(q, e)[Len(Append(q, e))] = e
<1>1. /\ Len(q) \in Nat /\ Append(q, e) \in Seq(S)
      /\ Len(Append(q, e)) = Len(q) + 1
      /\ \A i \in 1 .. Len(q) : Append(q, e)[i] = q[i]
      /\ Append(q, e)[Len(q) + 1] = e
  OBVIOUS
<1>2. Distinct(Append(q, e))
  BY <1>1 DEF Distinct, Has
<1>3. ASSUME NEW s PROVE Has(Append(q, e), s) <=> Has(q, s) \/ s = e
  <2>1. ASSUME Has(Append(q, e), s), s # e PROVE Has(q, s)
    <3>1. PICK i \in 1 .. Len(q) + 1 : Append(q, e)[i] = s
      BY <2>1, <1>1 DEF Has
    <3>2. i \in 1 .. Len(q)
      BY <3>1, <2>1, <1>1
    <3>3. QED
      BY <3>1, <3>2, <1>1 DEF Has
  <2>2. ASSUME Has(q, s) PROVE Has(Append(q, e), s)
    <3>1. PICK i \in 1 .. Len(q) : q[i] = s
      BY <2>2 DEF Has
    <3>2. i \in 1 .. Len(Append(q, e)) /\ Append(q, e)[i] = s
      BY <3>1, <1>1
    <3>3. QED
      BY <3>2 DEF Has
  <2>3. ASSUME s = e PROVE Has(Append(q, e), s)
    BY <2>3, <1>1 DEF Has
  <2>4. QED
    BY <2>1, <2>2, <2>3
<1>4. QED
  BY <1>1, <1>2, <1>3

\* How often a queue without repetitions has an element.
LEMMA CountLemma ==
  ASSUME NEW S, NEW q \in Seq(S), Distinct(q), NEW s
  PROVE  Cardinality({i \in 1 .. Len(q) : q[i] = s}) = IF Has(q, s) THEN 1 ELSE 0
<1>1. CASE Has(q, s)
  <2>1. PICK i \in 1 .. Len(q) : q[i] = s
    BY <1>1 DEF Has
  <2>2. {j \in 1 .. Len(q) : q[j] = s} = {i}
    BY <2>1 DEF Distinct
  <2>3. QED
    BY <1>1, <2>2, FS_Singleton
<1>2. CASE ~Has(q, s)
  <2>1. {j \in 1 .. Len(q) : q[j] = s} = {}
    BY <1>2 DEF Has
  <2>2. QED
    BY <1>2, <2>1, FS_EmptySet
<1>3. QED
  BY <1>1, <1>2

-----------------------------------------------------------------------------
(* The invariant.  The active segment is the one that entered the          *)
(* candidates last, so that a collection, which takes the first, never     *)
(* takes the active one; and a collection has a victim.                    *)

OwnInv ==
  /\ free \in Seq(Seg) /\ heap \in Seq(Seg)
  /\ reserve \in Seg /\ victim \in Seg \cup {0} /\ active \in Seg \cup {0}
  /\ comp = "gc" <=> victim # 0
  /\ Distinct(free) /\ Distinct(heap)
  /\ \A s \in Seg : /\ Has(free, s) => ~Has(heap, s) /\ s # reserve /\ s # victim
                    /\ Has(heap, s) => s # reserve /\ s # victim
                    /\ Has(free, s) \/ Has(heap, s) \/ s = reserve \/ s = victim
  /\ reserve # victim
  /\ active # 0 => heap # <<>> /\ heap[Len(heap)] = active

\* Of a queue that is not empty, the last element is in it.
LEMMA LastLemma ==
  ASSUME NEW S, NEW q \in Seq(S), q # <<>>
  PROVE  Has(q, q[Len(q)])
<1>1. Len(q) \in 1 .. Len(q)
  OBVIOUS
<1>2. QED
  BY <1>1 DEF Has

\* The partition starts with one reserve segment and all others free.
LEMMA InitOwn == Init => OwnInv
<1>1. SUFFICES ASSUME Init PROVE OwnInv
  OBVIOUS
<1>2. /\ SEGS \in Nat /\ SEGS >= 3 /\ 1 \in Seg
  BY SizeAssumption DEF Seg
<1>3. /\ free = [i \in 1 .. SEGS - 1 |-> i + 1] /\ heap = <<>> /\ reserve = 1
      /\ victim = 0 /\ active = 0 /\ comp = "top"
  BY <1>1 DEF Init
<1>4. free \in Seq(Seg) /\ Len(free) = SEGS - 1
  BY <1>2, <1>3 DEF Seg
<1>5. heap \in Seq(Seg) /\ Distinct(heap) /\ \A s : ~Has(heap, s)
  BY <1>3 DEF Distinct, Has
<1>6. Distinct(free)
  BY <1>2, <1>3, <1>4 DEF Distinct
<1>7. ASSUME NEW s \in Seg PROVE Has(free, s) <=> s # 1
  <2>1. ASSUME s # 1 PROVE Has(free, s)
    <3>1. s - 1 \in 1 .. Len(free) /\ free[s - 1] = s
      BY <2>1, <1>2, <1>3, <1>4 DEF Seg
    <3>2. QED
      BY <3>1 DEF Has
  <2>2. ASSUME Has(free, s) PROVE s # 1
    BY <2>2, <1>2, <1>3, <1>4 DEF Has
  <2>3. QED
    BY <2>1, <2>2
<1>8. QED
  BY <1>2, <1>3, <1>4, <1>5, <1>6, <1>7 DEF OwnInv, Seg

\* PlacePage: getBlock takes a segment off the free queue, or stays in the
\* active one.
LEMMA PlacePageOwn == OwnInv /\ PlacePage => OwnInv'
<1>1. SUFFICES ASSUME OwnInv, PlacePage PROVE OwnInv'
  OBVIOUS
<1>2. comp' = comp /\ reserve' = reserve /\ victim' = victim /\ comp = "data"
  BY <1>1 DEF PlacePage, gvars
<1>3. victim = 0
  BY <1>1, <1>2 DEF OwnInv
<1>4. CASE ~NeedSegment
  <2>1. active' = active /\ free' = free /\ heap' = heap
    BY <1>1, <1>4 DEF PlacePage
  <2>2. QED
    BY <1>1, <1>2, <2>1 DEF OwnInv
<1>5. CASE NeedSegment
  <2>1. /\ free # <<>> /\ active' = Head(free) /\ free' = Tail(free)
        /\ heap' = Append(heap, Head(free))
    BY <1>1, <1>5 DEF PlacePage
  <2>2. free \in Seq(Seg) /\ heap \in Seq(Seg) /\ Distinct(free) /\ Distinct(heap)
    BY <1>1 DEF OwnInv
  <2>3. /\ Head(free) \in Seg /\ Has(free, Head(free))
        /\ free' \in Seq(Seg) /\ Distinct(free')
        /\ \A s : Has(free', s) <=> Has(free, s) /\ s # Head(free)
    BY <2>1, <2>2, TailLemma
  <2>4. ~Has(heap, Head(free)) /\ Head(free) # reserve
    BY <1>1, <2>3 DEF OwnInv
  <2>5. /\ heap' \in Seq(Seg) /\ Distinct(heap')
        /\ \A s : Has(heap', s) <=> Has(heap, s) \/ s = Head(free)
        /\ heap' # <<>> /\ heap'[Len(heap')] = active'
    BY <2>1, <2>2, <2>3, <2>4, AppendLemma
  <2>6. \A s \in Seg :
          /\ Has(free', s) => ~Has(heap', s) /\ s # reserve' /\ s # victim'
          /\ Has(heap', s) => s # reserve' /\ s # victim'
          /\ Has(free', s) \/ Has(heap', s) \/ s = reserve' \/ s = victim'
    <3>1. 0 \notin Seg
      BY DEF Seg
    <3>2. QED
      BY <1>1, <1>2, <1>3, <2>3, <2>4, <2>5, <3>1 DEF OwnInv
  <2>7. QED
    BY <1>1, <1>2, <2>1, <2>3, <2>5, <2>6 DEF OwnInv
<1>6. QED
  BY <1>4, <1>5

\* GcStart: the oldest candidate becomes the victim.  With no free segment all
\* but the reserve are candidates, two at least, so it is not the active one.
LEMMA GcStartOwn == OwnInv /\ GcStart => OwnInv'
<1>1. SUFFICES ASSUME OwnInv, GcStart PROVE OwnInv'
  OBVIOUS
<1>2. /\ comp = "data" /\ comp' = "gc" /\ free = <<>> /\ free' = free
      /\ victim' = Head(heap) /\ heap' = Tail(heap)
      /\ active' = active /\ reserve' = reserve
  BY <1>1 DEF GcStart
<1>3. victim = 0 /\ 0 \notin Seg
  BY <1>1, <1>2 DEF OwnInv, Seg
<1>4. \A s : ~Has(free, s)
  BY <1>2 DEF Has
<1>5. \A s \in Seg : s # reserve => Has(heap, s)
  BY <1>1, <1>3, <1>4 DEF OwnInv
<1>6. heap \in Seq(Seg) /\ Distinct(heap) /\ reserve \in Seg
  BY <1>1 DEF OwnInv
<1>7. Len(heap) > 1 /\ heap # <<>>
  <2>1. PICK a \in Seg, b \in Seg : a # b /\ a # reserve /\ b # reserve
    <3>1. 1 \in Seg /\ 2 \in Seg /\ 3 \in Seg
      BY SizeAssumption DEF Seg
    <3>2. QED
      BY <3>1
  <2>2. PICK i \in 1 .. Len(heap) : heap[i] = a
    BY <2>1, <1>5 DEF Has
  <2>3. PICK j \in 1 .. Len(heap) : heap[j] = b
    BY <2>1, <1>5 DEF Has
  <2>4. i # j
    BY <2>1, <2>2, <2>3
  <2>5. QED
    BY <2>4, <1>6
<1>8. /\ victim' \in Seg /\ Has(heap, victim')
      /\ heap' \in Seq(Seg) /\ Distinct(heap')
      /\ \A s : Has(heap', s) <=> Has(heap, s) /\ s # victim'
      /\ heap' # <<>> /\ heap'[Len(heap')] = heap[Len(heap)]
  BY <1>2, <1>6, <1>7, TailLemma
<1>9. victim' # reserve
  BY <1>1, <1>8 DEF OwnInv
<1>10. QED
  BY <1>1, <1>2, <1>3, <1>4, <1>8, <1>9 DEF OwnInv

\* GcEnd: the victim is freed, the reserve becomes the active segment and a
\* candidate, and the first free segment the reserve.
LEMMA GcEndOwn == OwnInv /\ GcEnd => OwnInv'
<1>1. SUFFICES ASSUME OwnInv, GcEnd PROVE OwnInv'
  OBVIOUS
<1> DEFINE f == Append(free, victim)
<1>2. /\ comp = "gc" /\ comp' = "data" /\ victim' = 0
      /\ reserve' = Head(f) /\ free' = Tail(f)
      /\ active' = reserve /\ heap' = Append(heap, reserve)
  BY <1>1 DEF GcEnd
<1>3. /\ victim \in Seg /\ 0 \notin Seg /\ reserve \in Seg
      /\ free \in Seq(Seg) /\ heap \in Seq(Seg) /\ Distinct(free) /\ Distinct(heap)
      /\ ~Has(free, victim) /\ ~Has(heap, reserve)
  BY <1>1, <1>2 DEF OwnInv, Seg
<1>4. /\ f \in Seq(Seg) /\ Distinct(f) /\ f # <<>>
      /\ \A s : Has(f, s) <=> Has(free, s) \/ s = victim
  BY <1>3, AppendLemma
<1>5. /\ heap' \in Seq(Seg) /\ Distinct(heap')
      /\ \A s : Has(heap', s) <=> Has(heap, s) \/ s = reserve
      /\ heap' # <<>> /\ heap'[Len(heap')] = reserve
  BY <1>2, <1>3, AppendLemma
<1> HIDE DEF f
<1>6. /\ reserve' \in Seg /\ Has(f, reserve')
      /\ free' \in Seq(Seg) /\ Distinct(free')
      /\ \A s : Has(free', s) <=> Has(f, s) /\ s # reserve'
  BY <1>2, <1>4, TailLemma
<1>7. \A s \in Seg :
        /\ Has(free', s) => ~Has(heap', s) /\ s # reserve' /\ s # victim'
        /\ Has(heap', s) => s # reserve' /\ s # victim'
        /\ Has(free', s) \/ Has(heap', s) \/ s = reserve' \/ s = victim'
  BY <1>1, <1>2, <1>3, <1>4, <1>5, <1>6 DEF OwnInv
<1>8. QED
  BY <1>2, <1>3, <1>5, <1>6, <1>7 DEF OwnInv

\* Every other action leaves the segments where they are, and starts or ends
\* no collection.
LEMMA OthersOwn ==
  ASSUME OwnInv, [Next]_vars, ~PlacePage, ~GcStart, ~GcEnd
  PROVE  OwnInv'
<1>1. /\ UNCHANGED <<active, reserve, free, heap, victim>>
      /\ comp' = "gc" <=> comp = "gc"
  <2>1. CASE UNCHANGED vars
    BY <2>1 DEF vars, bvars, gvars
  <2>2. CASE Main
    BY <2>2 DEF Main, Assign, Resume, Set, StartFlush, Enqueue, bvars, gvars
  <2>3. CASE Sleep \/ Pick \/ Leveling \/ Cascade \/ GcAdd \/ Release \/ Dequeue
    BY <2>3 DEF Sleep, Pick, Leveling, Cascade, GcAdd, Release, Dequeue, bvars, gvars
  <2>4. CASE GcCheck \/ GcWrite
    BY <2>4 DEF GcCheck, GcWrite, bvars
  <2>5. QED
    BY <2>1, <2>2, <2>3, <2>4 DEF Next, Compaction
<1>2. QED
  BY <1>1 DEF OwnInv

\* What the invariant says about one segment is that it is counted once.
LEMMA OwnImplies == OwnInv => SegmentsOwnedOnce
<1>1. SUFFICES ASSUME OwnInv PROVE SegmentsOwnedOnce
  OBVIOUS
<1>2. ASSUME active # 0 PROVE \E i \in 1 .. Len(heap) : heap[i] = active
  BY <1>1, <1>2, LastLemma DEF OwnInv, Has
<1>3. ASSUME NEW s \in Seg
      PROVE  Cardinality({i \in 1 .. Len(free) : free[i] = s})
               + Cardinality({i \in 1 .. Len(heap) : heap[i] = s})
               + (IF reserve = s THEN 1 ELSE 0)
               + (IF victim = s THEN 1 ELSE 0) = 1
  <2>1. /\ Cardinality({i \in 1 .. Len(free) : free[i] = s})
             = IF Has(free, s) THEN 1 ELSE 0
        /\ Cardinality({i \in 1 .. Len(heap) : heap[i] = s})
             = IF Has(heap, s) THEN 1 ELSE 0
    BY <1>1, CountLemma DEF OwnInv
  <2>2. /\ Has(free, s) => ~Has(heap, s) /\ s # reserve /\ s # victim
        /\ Has(heap, s) => s # reserve /\ s # victim
        /\ Has(free, s) \/ Has(heap, s) \/ s = reserve \/ s = victim
        /\ reserve # victim
    BY <1>1 DEF OwnInv
  <2>3. QED
    BY <2>1, <2>2
<1>4. QED
  BY <1>2, <1>3 DEF SegmentsOwnedOnce

\* Over any sequence of flushes, cascades and data collections, every DATA
\* segment is free, the reserve, a candidate for collection or the segment
\* under collection, and exactly one of these; the active one is a candidate.
THEOREM SegmentsOwnedOnceHolds == Spec => []SegmentsOwnedOnce
<1>1. OwnInv /\ [Next]_vars => OwnInv'
  BY PlacePageOwn, GcStartOwn, GcEndOwn, OthersOwn
<1>2. QED
  BY InitOwn, OwnImplies, <1>1, PTL DEF Spec

=============================================================================
