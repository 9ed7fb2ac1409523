-------------------------- MODULE DemandMap_proofs --------------------------
(***************************************************************************)
(* Proofs about module DemandMap: for any table, cache and buffer, any     *)
(* number of keys and requests, and a lower layer of either kind,          *)
(*  - requests and buffer entries keep to their queues, and the cache to   *)
(*    its size (TypeOK),                                                   *)
(*  - a page that is being read has one who brings it (FlightsHaveLoaders),*)
(*  - a key that was written is found (ProbingFindsKeys),                  *)
(*  - a flush leaves nothing behind (NoFault),                             *)
(*  - written entries stay readable when the lower layer answers in the    *)
(*    caller (EntriesReachableSync).                                       *)
(* The invariant and most of its proof are in DemandMap_steps.             *)
(***************************************************************************)
EXTENDS DemandMap_steps, FiniteSetTheorems

-----------------------------------------------------------------------------
(* The write buffer.                                                       *)

\* The skip list in order: every key of a finite set, once.
LEMMA AscendingElems ==
  ASSUME NEW S \in SUBSET Keys
  PROVE  /\ Ascending(S) \in Seq(Keys) /\ Distinct(Ascending(S))
         /\ Elems(Ascending(S)) = S
<1> DEFINE n == Cardinality(S)
           Order(q) == \A i, j \in 1 .. n : i < j => q[i] < q[j]
<1>1. IsFiniteSet(S) /\ n \in Nat /\ S \subseteq Nat
  BY DemandAssumption, FS_Subset, FS_CardinalityType
<1>2. IsFiniteSet(1 .. n) /\ Cardinality(1 .. n) = n
  BY <1>1, FS_Interval
<1>3. \E q \in [1 .. n -> S] : Order(q)
  <2> DEFINE Below(k) == {j \in S : j <= k}
             r == [k \in S |-> Cardinality(Below(k))]
  <2>1. ASSUME NEW k \in S
        PROVE  IsFiniteSet(Below(k)) /\ Cardinality(Below(k)) \in 1 .. n
    <3>1. IsFiniteSet(Below(k)) /\ Cardinality(Below(k)) <= n
      BY <1>1, FS_Subset, Zenon
    <3>2. Cardinality(Below(k)) \in Nat
      BY <3>1, FS_CardinalityType
    <3>3. k \in Below(k)
      BY <1>1
    <3>4. Cardinality(Below(k)) # 0
      BY <3>1, <3>3, FS_EmptySet
    <3>5. QED
      BY <1>1, <3>1, <3>2, <3>4
  <2>2. ASSUME NEW k \in S, NEW m \in S, k < m
        PROVE  Cardinality(Below(k)) < Cardinality(Below(m))
    <3>0. k \in Nat /\ m \in Nat /\ \A j \in S : j \in Nat
      BY <1>1, Zenon
    <3>1. Below(k) \subseteq Below(m) /\ m \in Below(m) /\ m \notin Below(k)
      <4>1. ASSUME NEW j \in Below(k) PROVE j \in Below(m)
        BY <2>2, <3>0
      <4>2. m \in Below(m) /\ m \notin Below(k)
        BY <2>2, <3>0
      <4> HIDE DEF Below
      <4>3. QED
        BY <4>1, <4>2, Zenon
    <3>2. Below(k) # Below(m)
      BY <3>1, Zenon
    <3>3. IsFiniteSet(Below(m)) /\ IsFiniteSet(Below(k))
      BY <2>1, Zenon
    <3>4. /\ Cardinality(Below(k)) <= Cardinality(Below(m))
          /\ Cardinality(Below(k)) = Cardinality(Below(m)) => Below(k) = Below(m)
      <4> HIDE DEF Below
      <4>1. QED
        BY <3>1, <3>3, FS_Subset
    <3>5. Cardinality(Below(k)) \in Nat /\ Cardinality(Below(m)) \in Nat
      BY <2>1
    <3>6. QED
      BY <3>2, <3>4, <3>5
  <2>3. r \in [S -> 1 .. n]
    BY <2>1, Zenon
  <2>4. \A k, m \in S : k < m => r[k] < r[m]
    BY <2>2, Zenon
  <2> HIDE DEF r
  <2>5. \A k, m \in S : r[k] = r[m] => k = m
    BY <1>1, <2>3, <2>4
  <2>6. r \in Injection(S, 1 .. n)
    BY <2>3, <2>5, Zenon DEF Injection, IsInjective
  <2>7. r \in Surjection(S, 1 .. n)
    BY <1>1, <1>2, <2>6, FS_Injection
  <2>8. \A i \in 1 .. n : \E k \in S : r[k] = i
    BY <2>7, Zenon DEF Surjection
  <2> DEFINE q == [i \in 1 .. n |-> CHOOSE k \in S : r[k] = i]
  <2>9. q \in [1 .. n -> S] /\ \A i \in 1 .. n : r[q[i]] = i
    BY <2>8, Zenon
  <2> HIDE DEF q
  <2>10. ASSUME NEW i \in 1 .. n, NEW j \in 1 .. n, i < j PROVE q[i] < q[j]
    <3>1. q[i] \in S /\ q[j] \in S /\ r[q[i]] = i /\ r[q[j]] = j
      BY <2>9, Zenon
    <3>2. q[i] # q[j] /\ ~(q[j] < q[i])
      BY <2>4, <2>10, <3>1
    <3>3. q[i] \in Nat /\ q[j] \in Nat
      BY <1>1, <3>1, Zenon
    <3>4. QED
      BY <3>2, <3>3
  <2>11. QED
    BY <2>9, <2>10, Zenon
<1> DEFINE q == Ascending(S)
<1>4. q \in [1 .. n -> S] /\ Order(q)
  BY <1>3, Zenon DEF Ascending
<1> HIDE DEF q, n
<1>5. q \in [1 .. n -> Keys]
  BY <1>4
<1>5a. q \in Seq(Keys) /\ Len(q) = n
  BY <1>1, <1>5
<1>6. \A i, j \in 1 .. n : q[i] = q[j] => i = j
  <2>1. \A i \in 1 .. n : q[i] \in Nat
    BY <1>1, <1>4, Zenon
  <2>2. QED
    BY <1>1, <1>4, <2>1
<1>7. q \in Injection(1 .. n, S)
  BY <1>4, <1>6, Zenon DEF Injection, IsInjective
<1>8. q \in Surjection(1 .. n, S)
  BY <1>1, <1>2, <1>7, FS_Injection, Zenon DEF n
<1>9. \A k \in S : \E i \in 1 .. n : q[i] = k
  BY <1>8, Zenon DEF Surjection
<1>10. Elems(q) = S
  BY <1>4, <1>5a, <1>9, Zenon DEF Elems
<1>11. QED
  BY <1>5a, <1>6, <1>10 DEF Distinct, q

\* The buffer is finite.
LEMMA BufferFinite ==
  ASSUME FlushType
  PROVE  IsFiniteSet(wb) /\ Cardinality(wb) \in Nat
<1>1. wb \subseteq Keys
  BY Zenon DEF FlushType
<1>2. IsFiniteSet(wb)
  BY <1>1, DemandAssumption, FS_Subset
<1>3. QED
  BY <1>2, FS_CardinalityType, Zenon

\* A write with room in the buffer.
LEMMA WriteKeeps ==
  ASSUME IInv, After, NEW k \in Keys, Write(k)
  PROVE  IInv'
<1>0. /\ Types /\ PlaceInv /\ JumpInv /\ LowerInv /\ FlightInv /\ FlushInv /\ TableInv
      /\ SyncInv /\ NoFault
  BY Zenon DEF IInv
<1>1. /\ pm = "idle" /\ Cardinality(wb) < WBSIZE /\ wb' = wb \cup {k}
      /\ cnt' = [cnt EXCEPT ![k] = 0]
      /\ UNCHANGED <<table, pm, req, hand, master, wbretry, htable, updated, max_try>>
      /\ UNCHANGED <<want, retry, jump, cache, lq, fault>>
      /\ known' = known \cup wb' /\ lasync' = lasync
  BY Zenon DEF Write, rvars, After
<1>2. cnt' = cnt
  <2>1. cnt \in [Actor -> Nat] /\ cnt[k] = 0 /\ k \in Actor
    BY <1>0, <1>1, Zenon DEF Types, ActorType, FlushInv, Actor
  <2>2. QED
    BY <1>1, <2>1, Zenon
<1>3. Types'
  <2>1. FlushType'
    BY <1>0, <1>1, Zenon DEF Types, FlushType
  <2>2. QED
    BY <1>0, <1>1, <1>2, <2>1, Zenon DEF Types, QueueType, ActorType, CacheType
<1>4. /\ \A u : IsHit(u)' <=> IsHit(u)
      /\ \A b : Waits(b)' <=> Waits(b)
      /\ \A b : PageOf(b)' = PageOf(b)
      /\ \A b : AtRest(b)' <=> AtRest(b)
  <2>1. \A b : AtRest(b)' <=> AtRest(b)
    BY <1>1, Zenon DEF AtRest
  <2>2. QED
    BY <1>1, <1>2, <2>1 DEF IsHit, Waits, PageOf
<1>5. \A b \in Actor : Stays(b)
  BY <1>1, <1>2, <1>4, Zenon DEF Stays
<1>6. PlaceInv' /\ JumpInv'
  <2>1. QueueType' /\ max_try' \in Nat /\ max_try' >= max_try
    BY <1>0, <1>1, <1>3 DEF Types, FlushType
  <2>2. /\ Distinct(wbretry)' /\ Distinct(master)' /\ DistinctWho(lq)' /\ Distinct(retry)'
        /\ \A u \in Tpage : Distinct(cache.retry_q[u])'
    BY <1>0, <1>1, Zenon DEF PlaceInv
  <2>3. QED
    BY <1>0, <1>5, <2>1, <2>2, SomeMove
<1>7. LowerInv'
  BY <1>0, <1>1, <1>2, <1>3, LowerSame DEF Types
<1>8. FlightInv'
  BY <1>0, <1>1, <1>4, FlightSame
<1>9. FlushInv'
  <2>1. Done' = {} /\ Done = {}
    BY <1>0, <1>1, Zenon DEF Done, FlushInv
  <2>2. Cardinality(wb') <= WBSIZE
    <3>1. IsFiniteSet(wb) /\ Cardinality(wb) \in Nat /\ WBSIZE \in Nat
      BY <1>0, BufferFinite, DemandAssumption, Zenon DEF Types
    <3>2. CASE k \in wb
      <4>1. wb' = wb
        BY <1>1, <3>2, Zenon
      <4>2. QED
        BY <1>1, <3>1, <4>1
    <3>3. CASE k \notin wb
      <4>1. Cardinality(wb') = Cardinality(wb) + 1
        BY SMTT(30), <1>1, <3>1, <3>3, FS_AddElement
      <4>2. QED
        BY <1>1, <3>1, <4>1
    <3>4. QED
      BY <3>2, <3>3, Zenon
  <2>3. QED
    BY <1>0, <1>1, <1>2, <2>1, <2>2 DEF FlushInv
<1>10. TableInv'
  <2>1. /\ \A j \in Keys : HasEntry(j)' <=> HasEntry(j)
        /\ \A j, c : Passed(j, c)' <=> Passed(j, c)
    BY <1>1, Zenon DEF HasEntry, Passed
  <2>2. /\ \A l, m \in Lpa : table'[l] = table'[m] /\ table'[l] # None => l = m
        /\ \A j \in Keys : HasEntry(j)' =>
             \E c \in 0 .. max_try' : table'[GetLpa(j, c)] = j /\ Passed(j, c)'
    BY <1>0, <1>1, <2>1, Zenon DEF TableInv
  <2>3. \A j \in Keys : AtRest(j)'
    BY <1>0, <1>1, <1>4, KeysAtRest, Zenon
  <2>4. \A j \in Keys : jump'[j] = "update" => table'[GetLpa(j, cnt'[j])] = j
    BY <1>0, <1>1, <1>2, Zenon DEF TableInv
  <2>5. \A j \in known' : j \in wb' \/ HasEntry(j)'
    <3>1. known \subseteq Keys
      BY <1>0, Zenon DEF Types, FlushType
    <3>2. QED
      BY <1>0, <1>1, <2>1, <3>1, Zenon DEF TableInv
  <2>6. QED
    BY <2>2, <2>3, <2>4, <2>5 DEF TableInv
<1>11. SyncInv'
  <2>1. PICK a : a \notin Actor
    BY DemandAssumption, Zenon
  <2>2. a \notin Readers /\ a \notin Keys
    BY <2>1, Zenon DEF Actor
  <2>3. QED
    BY <1>0, <1>1, <1>4, <1>5, <2>1, <2>2, SyncSame
<1>12. QED
  BY <1>0, <1>1, <1>3, <1>6, <1>7, <1>8, <1>9, <1>10, <1>11 DEF IInv, NoFault

\* A write that finds the buffer full starts the flush.
LEMMA StartFlushKeeps ==
  ASSUME IInv, After, lasync \/ lq = <<>>, NEW k \in Keys, StartFlush(k)
  PROVE  IInv'
<1>0. /\ Types /\ PlaceInv /\ JumpInv /\ LowerInv /\ FlightInv /\ FlushInv /\ TableInv
      /\ SyncInv /\ NoFault
  BY Zenon DEF IInv
<1>1. /\ pm = "idle" /\ retry = <<>> /\ Cardinality(wb) = WBSIZE
      /\ pm' = "flush" /\ req' = k /\ master' = Ascending(wb)
      /\ UNCHANGED <<table, wb, hand, wbretry, htable, updated, max_try>>
      /\ UNCHANGED <<want, retry, cnt, jump, cache, lq, fault>>
  BY Zenon DEF StartFlush, rvars
<1>2. UNCHANGED <<known, lasync>>
  BY <1>0, <1>1, KnownSame
<1>3. wb \subseteq Keys /\ wb \in SUBSET Keys
  BY <1>0, Zenon DEF Types, FlushType
<1>4. master' \in Seq(Keys) /\ Distinct(master)' /\ Elems(master') = wb
  BY <1>1, <1>3, AscendingElems, Zenon
<1>5. Types'
  <2>1. FlushType'
    BY <1>0, <1>1, <1>2, Zenon DEF Types, FlushType
  <2>2. QED
    BY <1>0, <1>1, <1>4, <2>1, Zenon DEF Types, QueueType, ActorType, CacheType
<1>6. /\ \A u : IsHit(u)' <=> IsHit(u)
      /\ \A b : Waits(b)' <=> Waits(b)
      /\ \A b : PageOf(b)' = PageOf(b)
  BY <1>1, Zenon DEF IsHit, Waits, PageOf
<1>7. Done = {} /\ Done' = {}
  BY <1>0, <1>1, Zenon DEF Done, FlushInv
<1>8. /\ \A b \in Actor : b \notin wb => (AtRest(b)' <=> AtRest(b))
      /\ \A b \in wb : AtRest(b) /\ ~AtRest(b)' /\ b \in Actor /\ b \notin Readers
  <2>1. \A b \in wb : b \in Actor /\ b \notin Readers
    BY <1>3, NobodyIsNone, Zenon DEF Actor
  <2>2. QED
    BY <1>1, <1>7, <2>1, Zenon DEF AtRest
<1>9. ASSUME NEW b \in Actor, b \notin wb PROVE Stays(b)
  <2>1. b \notin Elems(master)
    <3>1. CASE b \in Keys
      <4>1. AtRest(b)
        BY <1>0, <1>1, <3>1, KeysAtRest, Zenon
      <4>2. QED
        BY <1>0, <4>1, Exclusive, Zenon
    <3>2. CASE b \notin Keys
      BY <1>0, <3>2 DEF Types, QueueType, Elems
    <3>3. QED
      BY <3>1, <3>2, Zenon
  <2>2. QED
    BY <1>1, <1>4, <1>6, <1>8, <1>9, <2>1 DEF Stays
<1>10. ASSUME NEW b \in wb PROVE Spots(b)' = 1 /\ JumpOk(b)'
  <2>1. /\ b \notin Elems(retry) /\ b \notin Elems(wbretry) /\ b # hand
        /\ b \notin Who(lq) /\ ~Waits(b) /\ jump[b] = "none"
    BY <1>0, <1>8, Exclusive, Zenon DEF JumpInv
  <2>2. Spots(b)' = 1
    BY <1>1, <1>4, <1>6, <1>8, <2>1 DEF Spots, Truth
  <2>3. JumpOk(b)'
    BY <1>1, <1>8, <2>1 DEF JumpOk
  <2>4. QED
    BY <2>2, <2>3, Zenon
<1>11. PlaceInv' /\ JumpInv'
  <2>1. QueueType' /\ max_try' \in Nat /\ max_try' >= max_try
    BY <1>0, <1>1, <1>5 DEF Types, FlushType
  <2>2. /\ Distinct(wbretry)' /\ Distinct(master)' /\ DistinctWho(lq)' /\ Distinct(retry)'
        /\ \A u \in Tpage : Distinct(cache.retry_q[u])'
    BY <1>0, <1>1, <1>4, Zenon DEF PlaceInv
  <2>3. \A b \in Actor : Stays(b) \/ (Spots(b)' = 1 /\ JumpOk(b)')
    BY <1>9, <1>10, Zenon
  <2>4. QED
    BY SMTT(30), <1>0, <2>1, <2>2, <2>3, SomeMove
<1>12. LowerInv'
  BY <1>0, <1>1, <1>5, LowerSame, Zenon DEF Types
<1>13. FlightInv'
  BY <1>0, <1>1, <1>6, FlightSame, Zenon
<1>14. FlushInv'
  BY <1>0, <1>1, <1>2, <1>7, Zenon DEF FlushInv
<1>15. TableInv'
  <2>1. /\ \A j \in Keys : HasEntry(j)' <=> HasEntry(j)
        /\ \A j, c : Passed(j, c)' <=> Passed(j, c)
    BY <1>1, Zenon DEF HasEntry, Passed
  <2>2. /\ \A l, m \in Lpa : table'[l] = table'[m] /\ table'[l] # None => l = m
        /\ \A j \in Keys : HasEntry(j)' =>
             \E c \in 0 .. max_try' : table'[GetLpa(j, c)] = j /\ Passed(j, c)'
    BY <1>0, <1>1, <2>1, Zenon DEF TableInv
  <2>3. ASSUME NEW j \in Keys PROVE Passed(j, cnt[j])'
    <3>1. cnt'[j] = 0
      BY <1>0, <1>1, Zenon DEF FlushInv
    <3>2. 0 .. 0 - 1 = {}
      OBVIOUS
    <3>3. QED
      BY <3>1, <3>2, Zenon DEF Passed
  <2>4. \A j \in Keys : jump'[j] = "update" => table'[GetLpa(j, cnt'[j])] = j
    BY <1>0, <1>1, Zenon DEF TableInv
  <2>5. \A j \in known' : j \in wb' \/ HasEntry(j)'
    <3>1. known \subseteq Keys
      BY <1>0, Zenon DEF Types, FlushType
    <3>2. QED
      BY <1>0, <1>1, <1>2, <2>1, <3>1 DEF TableInv
  <2>6. QED
    BY <2>2, <2>3, <2>4, <2>5, Zenon DEF TableInv
<1>16. SyncInv'
  <2>1. SUFFICES ASSUME ~lasync
        PROVE  /\ \A b, c \in Actor : Active(b)' /\ Active(c)' => b = c
               /\ pm' # "idle" => \A r \in Readers : AtRest(r)'
               /\ \A j \in Keys : Listed(j)'
               /\ \A l \in Lpa : table'[l] # None =>
                    \/ cache'.t_ppa[IDX(l)]
                    \/ IsHit(IDX(l))' /\ cache'.dirty[IDX(l)]
    BY <1>2, Zenon DEF SyncInv, Listed
  <2>2. \A b \in Actor : AtRest(b)
    BY <1>1, <2>1, AllAtRest, Zenon
  <2>3. \A b \in Actor : ~Active(b)'
    BY <1>4, <1>8, <2>2, Zenon DEF Active
  <2>4. \A r \in Readers : AtRest(r)'
    <3>1. \A r \in Readers : r \in Actor /\ r \notin wb
      BY <1>3, NobodyIsNone, Zenon DEF Actor
    <3>2. QED
      BY <1>8, <2>2, <3>1, Zenon
  <2>5. \A j \in Keys : Listed(j)'
    <3>1. \A j \in Keys : j \in Actor /\ jump[j] = "none" /\ j \notin Who(lq)
      BY <1>0, <2>2, Exclusive, Zenon DEF JumpInv, Actor
    <3>2. QED
      BY <1>1, <3>1, Zenon DEF Listed
  <2>6. \A l \in Lpa : table'[l] # None =>
                    \/ cache'.t_ppa[IDX(l)]
                    \/ IsHit(IDX(l))' /\ cache'.dirty[IDX(l)]
    BY <1>0, <1>1, <1>6, <2>1, Zenon DEF SyncInv
  <2>7. QED
    BY <2>3, <2>4, <2>5, <2>6
<1>17. QED
  BY <1>0, <1>1, <1>5, <1>11, <1>12, <1>13, <1>14, <1>15, <1>16 DEF IInv, NoFault

\* As many entries were written as keys of the buffer have one.
LEMMA DoneCount ==
  ASSUME NEW tab \in [Lpa -> Keys \cup {None}], NEW H \in SUBSET Lpa, NEW W \in SUBSET Keys,
         \A l, m \in Lpa : tab[l] = tab[m] /\ tab[l] # None => l = m,
         \A l \in H : tab[l] \in W
  PROVE  /\ IsFiniteSet(H) /\ Cardinality(H) \in Nat /\ Cardinality(W) \in Nat
         /\ Cardinality(H) <= Cardinality(W)
         /\ Cardinality(H) = Cardinality(W) => W \subseteq {tab[l] : l \in H}
<1> DEFINE f == [l \in H |-> tab[l]]
<1>1. IsFiniteSet(W)
  BY DemandAssumption, FS_Subset, Zenon
<1>2. \A w \in W : w # None
  BY NobodyIsNone, Zenon DEF Actor
<1>3. f \in [H -> W] /\ \A l, m \in H : f[l] = f[m] => l = m
  BY <1>2, Zenon
<1>4. f \in Injection(H, W)
  BY <1>3, Zenon DEF Injection, IsInjective
<1>5. \A l \in H : f[l] = tab[l]
  OBVIOUS
<1> HIDE DEF f
<1>6. /\ IsFiniteSet(H) /\ Cardinality(H) <= Cardinality(W)
      /\ Cardinality(H) = Cardinality(W) => f \in Surjection(H, W)
  BY <1>1, <1>4, FS_Injection, Zenon
<1>7. Cardinality(H) \in Nat /\ Cardinality(W) \in Nat
  BY <1>1, <1>6, FS_CardinalityType, Zenon
<1>8. ASSUME Cardinality(H) = Cardinality(W) PROVE W \subseteq {tab[l] : l \in H}
  <2>1. f \in Surjection(H, W)
    BY <1>6, <1>8, Zenon
  <2>2. \A w \in W : \E l \in H : f[l] = w
    BY <2>1, Zenon DEF Surjection
  <2>3. QED
    BY <1>5, <2>2, Zenon
<1>9. QED
  BY <1>6, <1>7, <1>8, Zenon

\* wb_update, wb_direct_update.
LEMMA FlushUpdateKeeps ==
  ASSUME IInv, After, NEW k \in Keys, FlushUpdate(k)
  PROVE  IInv'
<1>0. /\ Types /\ PlaceInv /\ JumpInv /\ LowerInv /\ FlightInv /\ FlushInv /\ TableInv
      /\ SyncInv /\ NoFault
  BY Zenon DEF IInv
<1>1. PICK l \in Lpa :
        /\ InHand(k, l, "update") \/ (InHand(k, l, "complete") /\ table[l] = None)
        /\ table' = [table EXCEPT ![l] = k]
        /\ cache' = Updated(IDX(l))
        /\ htable' = htable \cup {l} /\ updated' = updated + 1
        /\ max_try' = MaxTry(cnt[k]) /\ hand' = None
        /\ jump' = [jump EXCEPT ![k] = "none"]
        /\ FlushSame
        /\ UNCHANGED <<master, cnt, lq>>
  BY Zenon DEF FlushUpdate
<1>2. PICK t \in Tpage : t = IDX(l)
  BY PageRange, Zenon
<1>3. /\ pm = "flush" /\ hand = k /\ jump[k] \in {"complete", "update"}
      /\ l = GetLpa(k, cnt[k]) /\ cache' = Updated(t)
      /\ UNCHANGED <<wb, pm, req, want, retry, master, wbretry, cnt, lq, fault>>
  BY <1>1, <1>2, Zenon DEF InHand, FlushSame, rvars
<1>4. /\ k \in Actor /\ k \notin Readers /\ k # None /\ ~AtRest(k) /\ Active(k)
      /\ k \notin Elems(retry) /\ k \notin Elems(wbretry) /\ k \notin Elems(master)
      /\ k \notin Who(lq) /\ ~Waits(k)
  BY <1>3, HandFacts, Zenon
<1>5. PageOf(k) = t /\ \A b : PageOf(b)' = PageOf(b)
  BY <1>2, <1>3, <1>4, Zenon DEF PageOf
<1>6. k \in wb /\ k \notin Done
  BY <1>4, Zenon DEF AtRest
<1>7. table[l] = None \/ table[l] = k
  <2>1. CASE InHand(k, l, "update")
    BY <1>0, <1>3, <2>1, Zenon DEF TableInv, InHand
  <2>2. QED
    BY <1>1, <2>1, Zenon
<1>8. /\ table \in [Lpa -> Keys \cup {None}] /\ None \notin Keys /\ wb \subseteq Keys
      /\ htable \subseteq Lpa
      /\ table' \in [Lpa -> Keys \cup {None}] /\ table'[l] = k
      /\ \A m \in Lpa : m # l => table'[m] = table[m]
  BY <1>0, <1>1, NobodyIsNone, Zenon DEF Types, FlushType, Actor
<1>9. l \notin htable
  <2>1. SUFFICES ASSUME l \in htable PROVE FALSE
    OBVIOUS
  <2>2. table[l] \in Done
    BY <2>1, Zenon DEF Done
  <2>3. QED
    BY <1>0, <1>6, <1>7, <1>8, <2>2 DEF FlushInv
<1>10. Done' = Done \cup {k}
  BY <1>1, <1>8, <1>9 DEF Done
<1>11. /\ AtRest(k)' /\ \A b \in Actor \ {k} : AtRest(b)' <=> AtRest(b)
  BY <1>3, <1>4, <1>6, <1>10, Zenon DEF AtRest
<1>12. /\ jump'[k] = "none" /\ \A b \in Actor \ {k} : jump'[b] = jump[b]
       /\ ActorType'
  BY <1>0, <1>1, <1>3, <1>4, Zenon DEF Types, ActorType
<1>13. known' = known /\ lasync' = lasync
  BY <1>0, <1>3, KnownSame, Zenon
<1>14. TableInv'
  <2>1. Passed(k, cnt[k])
    BY <1>0, <1>4, Zenon DEF TableInv
  <2>2. \A j \in Keys : j # k => (AtRest(j)' <=> AtRest(j)) /\ jump'[j] = jump[j]
    BY <1>11, <1>12, Zenon DEF Actor
  <2>3. QED
    BY <1>0, <1>1, <1>3, <1>7, <1>11, <1>12, <1>13, <2>1, <2>2, TableUpdate
<1>15. /\ updated' = Cardinality(htable') /\ updated' <= WBSIZE /\ updated' \in Nat
  <2>0. \A x, y \in Lpa : table'[x] = table'[y] /\ table'[x] # None => x = y
    BY <1>14, Zenon DEF TableInv
  <2>1. \A m \in htable' : table'[m] \in wb
    BY <1>0, <1>1, <1>6, <1>10 DEF FlushInv, Done
  <2>2. htable' \in SUBSET Lpa /\ wb \in SUBSET Keys
    BY <1>1, <1>8, Zenon
  <2>3. /\ IsFiniteSet(htable') /\ Cardinality(htable') \in Nat /\ Cardinality(wb) \in Nat
        /\ Cardinality(htable') <= Cardinality(wb)
    BY <1>8, <2>0, <2>1, <2>2, DoneCount
  <2>4. IsFiniteSet(htable)
    BY <1>1, <2>3, FS_Subset, Zenon
  <2>5. Cardinality(htable') = Cardinality(htable) + 1
    BY <1>1, <1>9, <2>4, FS_AddElement
  <2>6. updated' = Cardinality(htable')
    BY <1>0, <1>1, <2>5, Zenon DEF FlushInv
  <2>7. Cardinality(wb) <= WBSIZE /\ WBSIZE \in Nat
    BY <1>0, DemandAssumption, Zenon DEF FlushInv
  <2>8. QED
    BY <2>3, <2>6, <2>7
<1>16. max_try' \in Nat /\ max_try' >= max_try
  BY <1>0, <1>1, <1>4 DEF MaxTry, Types, FlushType, ActorType
<1>17. FlushType'
  <2>1. updated' \in 0 .. WBSIZE
    BY <1>15, DemandAssumption
  <2>2. QED
    BY <1>0, <1>1, <1>3, <1>8, <1>13, <1>16, <2>1, Zenon DEF Types, FlushType
<1>18. FlushInv'
  BY <1>0, <1>3, <1>6, <1>10, <1>13, <1>15, Zenon DEF FlushInv
<1>19. /\ CacheType' /\ \A u : IsHit(u)' <=> IsHit(u)
       /\ cache'.t_ppa = cache.t_ppa
       /\ \A u \in Tpage : cache.dirty[u] => cache'.dirty[u]
       /\ IsHit(t) => cache'.dirty[t]
       /\ cache'.flying = cache.flying /\ cache'.retry_q = cache.retry_q
  BY <1>0, <1>3, UpdatedCache, Zenon DEF Types
<1>20. \A b : Waits(b)' <=> Waits(b)
  BY <1>19, ZenonT(40) DEF Waits
<1>21. ASSUME NEW b \in Actor \ {k} PROVE Stays(b)
  <2>1. (b = hand)' <=> b = hand
    BY <1>1, <1>3, NobodyIsNone, Zenon
  <2>2. QED
    BY <1>3, <1>5, <1>11, <1>12, <1>20, <2>1 DEF Stays
<1>22. Spots(k)' = 1 /\ JumpOk(k)'
  <2>0. /\ k \notin Elems(retry') /\ k \notin Elems(wbretry') /\ k \notin Elems(master')
        /\ ~Waits(k)' /\ k # hand' /\ k \notin Who(lq')
    BY <1>1, <1>3, <1>4, <1>20
  <2>1. Spots(k)' = 1
    BY <1>11, <2>0 DEF Spots, Truth
  <2>2. JumpOk(k)'
    BY <1>4, <1>12, <2>0, ZenonT(40) DEF JumpOk
  <2>3. QED
    BY <2>1, <2>2, Zenon
<1>23. Types' /\ PlaceInv' /\ JumpInv' /\ LowerInv'
  <2>1. /\ Distinct(wbretry)' /\ Distinct(master)' /\ DistinctWho(lq)' /\ Distinct(retry)'
        /\ \A u \in Tpage : Distinct(cache.retry_q[u])'
    BY <1>0, <1>3, <1>19, ZenonT(40) DEF PlaceInv
  <2>2. QueueType' /\ CacheType' /\ lq' = lq /\ \A m \in Lpa : table[m] # None => table'[m] = table[m]
    BY <1>0, <1>3, <1>7, <1>8, <1>19 DEF Types, QueueType
  <2>3. QED
    BY <1>4, <1>12, <1>16, <1>17, <1>21, <1>22, <2>1, <2>2, OneMoves
<1>24. FlightInv'
  <2>1. \A a \in Actor : /\ jump'[a] = "list" <=> jump[a] = "list"
                         /\ jump[a] = "list" /\ a = hand => a = hand'
    BY <1>3, <1>12, ZenonT(40)
  <2>2. QED
    BY <1>0, <1>5, <1>19, <2>1, FlightSame
<1>25. SyncInv'
  <2>1. SUFFICES ASSUME ~lasync
        PROVE  /\ \A b, c \in Actor : Active(b)' /\ Active(c)' => b = c
               /\ pm' # "idle" => \A r \in Readers : AtRest(r)'
               /\ \A j \in Keys : Listed(j)'
               /\ \A m \in Lpa : table'[m] # None =>
                    \/ cache'.t_ppa[IDX(m)]
                    \/ IsHit(IDX(m))' /\ cache'.dirty[IDX(m)]
    BY <1>13, Zenon DEF SyncInv, Listed
  <2>2. /\ \A b, c \in Actor : Active(b) /\ Active(c) => b = c
        /\ \A r \in Readers : AtRest(r)
        /\ \A j \in Keys : Listed(j)
        /\ \A m \in Lpa : table[m] # None =>
             \/ cache.t_ppa[IDX(m)]
             \/ IsHit(IDX(m)) /\ cache.dirty[IDX(m)]
    BY <1>0, <1>3, <2>1, Zenon DEF SyncInv, Listed
  <2>3. \A b \in Actor : Active(b)' => Active(b)
    BY <1>3, <1>4, <1>11, Zenon DEF Active
  <2>4. \A r \in Readers : AtRest(r)'
    BY <1>4, <1>11, <2>2, Zenon DEF Actor
  <2>5. ASSUME NEW j \in Keys PROVE Listed(j)'
    <3>1. CASE j = k
      BY <1>3, <1>4, <1>12, <3>1, Zenon DEF Listed
    <3>2. CASE j # k
      <4>1. Listed(j) /\ jump'[j] = jump[j]
        BY <1>12, <2>2, <3>2, Zenon DEF Actor
      <4>2. QED
        BY <1>3, <1>5, <1>19, <4>1 DEF Listed
    <3>3. QED
      BY <3>1, <3>2, Zenon
  <2>6. ASSUME NEW m \in Lpa, table'[m] # None
        PROVE  cache'.t_ppa[IDX(m)] \/ (IsHit(IDX(m))' /\ cache'.dirty[IDX(m)])
    <3>1. CASE m = l
      <4>1. IsHit(t)
        BY <1>3, <1>5, <2>2, Zenon DEF Listed
      <4>2. QED
        BY <1>2, <1>19, <3>1, <4>1, Zenon
    <3>2. CASE m # l
      <4>1. table[m] # None /\ IDX(m) \in Tpage
        BY <1>8, <2>6, <3>2, PageRange
      <4>2. QED
        BY <1>19, <2>2, <4>1, Zenon
    <3>3. QED
      BY <3>1, <3>2, Zenon
  <2>7. QED
    BY <2>2, <2>3, <2>4, <2>5, <2>6
<1>26. QED
  BY <1>0, <1>3, <1>14, <1>18, <1>23, <1>24, <1>25 DEF IInv, NoFault

\* When as many entries were written as the buffer has, every key of it has one, and no
\* queue holds an entry.
LEMMA AllDone ==
  ASSUME IInv, pm = "flush", hand = None, updated = WBSIZE
  PROVE  /\ Done = wb /\ master = <<>> /\ wbretry = <<>>
         /\ \A k \in Keys : AtRest(k)
<1>0. Types /\ PlaceInv /\ FlushInv /\ TableInv
  BY Zenon DEF IInv
<1>1. /\ table \in [Lpa -> Keys \cup {None}] /\ htable \in SUBSET Lpa /\ wb \in SUBSET Keys
      /\ \A l, m \in Lpa : table[l] = table[m] /\ table[l] # None => l = m
      /\ \A l \in htable : table[l] \in wb
  BY <1>0, Zenon DEF Types, FlushType, TableInv, FlushInv, Done
<1>2. Cardinality(htable) = Cardinality(wb)
  BY <1>0, Zenon DEF FlushInv
<1>3. wb \subseteq {table[l] : l \in htable}
  BY <1>1, <1>2, DoneCount, Zenon
<1>4. Done = wb
  BY <1>0, <1>3, Zenon DEF Done, FlushInv
<1>5. \A k \in Keys : AtRest(k) /\ k \in Actor
  BY <1>4, NobodyIsNone, Zenon DEF AtRest, Actor
<1>6. \A k \in Keys : k \notin Elems(master) /\ k \notin Elems(wbretry)
  BY <1>0, <1>5, Exclusive, Zenon
<1>7. master \in Seq(Keys) /\ wbretry \in Seq(Keys)
  BY <1>0, Zenon DEF Types, QueueType
<1>8. Elems(master) = {} /\ Elems(wbretry) = {}
  BY <1>6, <1>7 DEF Elems
<1>9. QED
  BY <1>4, <1>5, <1>7, <1>8, NoElems

\* The pages of the flush are written; nothing is left in a queue.
LEMMA FlushDoneKeeps ==
  ASSUME IInv, After, FlushDone
  PROVE  IInv'
<1>0. /\ Types /\ PlaceInv /\ JumpInv /\ LowerInv /\ FlightInv /\ FlushInv /\ TableInv
      /\ SyncInv /\ NoFault
  BY Zenon DEF IInv
<1>1. pm = "flush" /\ hand = None /\ updated = WBSIZE
  BY Zenon DEF FlushDone
<1>2. /\ Done = wb /\ master = <<>> /\ wbretry = <<>> /\ \A k \in Keys : AtRest(k)
  BY <1>1, AllDone, Zenon
<1>3. /\ pm' = "drain" /\ fault' = fault /\ lq' = Append(lq, Op("dataw", None, None))
      /\ UNCHANGED <<table, wb, req, hand, master, wbretry, htable, updated, max_try>>
      /\ UNCHANGED <<want, retry, cnt, jump, cache>>
  BY <1>2, Zenon DEF FlushDone, rvars
<1>4. known' = known /\ lasync' = lasync
  BY <1>0, <1>3, KnownSame, Zenon
<1>5. PICK o \in LowerOp : o = Op("dataw", None, None)
  BY Zenon DEF Op, LowerOp
<1>6. o.who = None /\ o.type = "dataw" /\ lq' = Append(lq, o)
  BY <1>3, <1>5, Zenon DEF Op
<1>7. /\ lq' \in Seq(LowerOp) /\ DistinctWho(lq')
      /\ Elems(lq') = Elems(lq) \cup {o} /\ Who(lq') = Who(lq) \cup {None}
  BY <1>0, <1>6, AppendWho, Zenon DEF Types, QueueType, PlaceInv
<1>8. OpOk(o)'
  BY <1>6, Zenon DEF OpOk
<1>9. FlushType' /\ QueueType' /\ Types'
  <2>1. FlushType'
    BY <1>0, <1>3, <1>4, Zenon DEF Types, FlushType
  <2>2. QED
    BY <1>0, <1>3, <1>7, <2>1, Zenon DEF Types, QueueType, ActorType, CacheType
<1>10. /\ \A u : IsHit(u)' <=> IsHit(u)
       /\ \A b : Waits(b)' <=> Waits(b)
       /\ \A b : PageOf(b)' = PageOf(b)
       /\ Done' = Done
  BY <1>3, Zenon DEF IsHit, Waits, PageOf, Done
<1>11. ASSUME NEW b \in Actor PROVE AtRest(b)' <=> AtRest(b)
  <2>1. CASE b \in Readers
    BY <1>3, <2>1, Zenon DEF AtRest
  <2>2. CASE b \in Keys
    BY <1>2, <1>3, <2>2, NobodyIsNone DEF AtRest
  <2>3. QED
    BY <2>1, <2>2, Zenon DEF Actor
<1>12. ASSUME NEW b \in Actor PROVE Stays(b)
  <2>1. b \in Who(lq') <=> b \in Who(lq)
    BY <1>7, NobodyIsNone, Zenon
  <2>2. QED
    BY <1>3, <1>10, <1>11, <2>1, Zenon DEF Stays
<1>13. PlaceInv' /\ JumpInv'
  <2>1. max_try' \in Nat /\ max_try' >= max_try
    BY <1>0, <1>3 DEF Types, FlushType
  <2>2. /\ Distinct(wbretry)' /\ Distinct(master)' /\ DistinctWho(lq)' /\ Distinct(retry)'
        /\ \A u \in Tpage : Distinct(cache.retry_q[u])'
    BY <1>0, <1>3, <1>7, Zenon DEF PlaceInv
  <2>3. QED
    BY <1>0, <1>9, <1>12, <2>1, <2>2, SomeMove
<1>14. LowerInv'
  <2>1. \A p \in Elems(lq') : p \in Elems(lq) \/ OpOk(p)'
    BY <1>7, <1>8, Zenon
  <2>2. QED
    BY <1>0, <1>3, <1>9, <2>1, LowerSame
<1>15. FlightInv'
  BY <1>0, <1>3, <1>10, FlightSame, Zenon
<1>16. FlushInv'
  BY <1>0, <1>1, <1>2, <1>3, <1>4, <1>10 DEF FlushInv
<1>17. TableInv'
  <2>1. \A k \in Keys : AtRest(k)'
    BY <1>2, <1>11, Zenon DEF Actor
  <2>2. QED
    BY <1>0, <1>3, <1>4, <2>1, TableSame, Zenon
<1>18. SyncInv'
  <2>1. PICK a : a \notin Actor
    BY DemandAssumption, Zenon
  <2>2. a \notin Readers /\ a \notin Keys
    BY <2>1, Zenon DEF Actor
  <2>3. pm # "idle"
    BY <1>1, Zenon
  <2>4. QED
    BY <1>0, <1>3, <1>4, <1>10, <1>12, <2>1, <2>2, <2>3, SyncSame
<1>19. QED
  BY <1>0, <1>3, <1>9, <1>13, <1>14, <1>15, <1>16, <1>17, <1>18, Zenon DEF IInv, NoFault

\* The write that started the flush is inserted in the empty buffer.
LEMMA DrainKeeps ==
  ASSUME IInv, After, Drain
  PROVE  IInv'
<1>0. /\ Types /\ PlaceInv /\ JumpInv /\ LowerInv /\ FlightInv /\ FlushInv /\ TableInv
      /\ SyncInv /\ NoFault
  BY Zenon DEF IInv
<1>1. /\ pm = "drain" /\ lq = <<>> /\ pm' = "idle" /\ req' = None
      /\ wb' = {req} /\ htable' = {} /\ updated' = 0
      /\ cnt' = [a \in Actor |-> IF a \in Keys THEN 0 ELSE cnt[a]]
      /\ UNCHANGED <<table, hand, master, wbretry, max_try>>
      /\ UNCHANGED <<want, retry, jump, cache, lq, fault>>
      /\ known' = known \cup wb' /\ lasync' = lasync
  BY Zenon DEF Drain, rvars, After
<1>2. req \in Keys /\ Done = wb
  BY <1>0, <1>1, Zenon DEF FlushInv
<1>3. \A k \in Keys : AtRest(k) /\ AtRest(k)' /\ jump[k] = "none" /\ ~Waits(k) /\ cnt'[k] = 0
  <2>1. \A k \in Keys : AtRest(k) /\ jump[k] = "none" /\ k \in Actor
    BY <1>0, <1>1, KeysAtRest, Zenon DEF Actor
  <2>2. \A k \in Keys : AtRest(k)'
    BY <1>1, <2>1, NobodyIsNone, Zenon DEF AtRest
  <2>3. QED
    BY <1>0, <1>1, <2>1, <2>2, Exclusive, Zenon
<1>4. /\ \A u : IsHit(u)' <=> IsHit(u)
      /\ \A b : Waits(b)' <=> Waits(b)
      /\ Done' = {}
  BY <1>1, Zenon DEF IsHit, Waits, Done
<1>5. Types'
  <2>1. FlushType'
    BY <1>0, <1>1, <1>2, DemandAssumption DEF Types, FlushType
  <2>2. ActorType'
    BY <1>0, <1>1, Zenon DEF Types, ActorType
  <2>3. QED
    BY <1>0, <1>1, <2>1, <2>2, Zenon DEF Types, QueueType, CacheType
<1>6. ASSUME NEW r \in Readers
      PROVE  r \in Actor /\ (AtRest(r)' <=> AtRest(r)) /\ cnt'[r] = cnt[r] /\ PageOf(r)' = PageOf(r)
  <2>1. r \in Actor /\ r \notin Keys
    BY NobodyIsNone, Zenon DEF Actor
  <2>2. cnt'[r] = cnt[r]
    BY <1>1, <2>1, Zenon
  <2>3. QED
    BY <1>1, <2>1, <2>2, Zenon DEF AtRest, PageOf
<1>7. ASSUME NEW b \in Actor PROVE Stays(b)
  <2>1. /\ AtRest(b)' <=> AtRest(b)
        /\ ~AtRest(b) => cnt'[b] = cnt[b] /\ PageOf(b)' = PageOf(b)
    BY <1>3, <1>6, Zenon DEF Actor
  <2>2. QED
    BY <1>1, <1>4, <2>1, Zenon DEF Stays
<1>8. PlaceInv' /\ JumpInv'
  <2>1. QueueType' /\ max_try' \in Nat /\ max_try' >= max_try
    BY <1>1, <1>5 DEF Types, FlushType
  <2>2. /\ Distinct(wbretry)' /\ Distinct(master)' /\ DistinctWho(lq)' /\ Distinct(retry)'
        /\ \A u \in Tpage : Distinct(cache.retry_q[u])'
    BY <1>0, <1>1, Zenon DEF PlaceInv
  <2>3. QED
    BY SMTT(30), <1>0, <1>7, <2>1, <2>2, SomeMove
<1>9. LowerInv'
  BY <1>1, EmptyElems, ZenonT(40) DEF LowerInv
<1>10. FlightInv'
  <2>1. \A a \in Actor : jump[a] = "list" \/ Waits(a) => PageOf(a)' = PageOf(a)
    BY <1>3, <1>6, Zenon DEF Actor
  <2>2. QED
    BY <1>0, <1>1, <1>4, <2>1, FlightSame
<1>11. FlushInv'
  <2>1. Cardinality(htable') = 0
    BY <1>1, FS_EmptySet, Zenon
  <2>2. Cardinality(wb') = 1
    BY <1>1, FS_Singleton, Zenon
  <2>3. 1 <= WBSIZE
    BY DemandAssumption
  <2>4. QED
    BY <1>1, <1>3, <1>4, <2>1, <2>2, <2>3 DEF FlushInv
<1>12. TableInv'
  <2>1. /\ \A j \in Keys : HasEntry(j)' <=> HasEntry(j)
        /\ \A j, c : Passed(j, c)' <=> Passed(j, c)
    BY <1>1, Zenon DEF HasEntry, Passed
  <2>2. /\ \A l, m \in Lpa : table'[l] = table'[m] /\ table'[l] # None => l = m
        /\ \A j \in Keys : HasEntry(j)' =>
             \E c \in 0 .. max_try' : table'[GetLpa(j, c)] = j /\ Passed(j, c)'
    BY <1>0, <1>1, <2>1, ZenonT(40) DEF TableInv
  <2>3. \A j \in known' : j \in wb' \/ HasEntry(j)'
    <3>1. known \subseteq Keys /\ wb \subseteq Keys /\ htable \subseteq Lpa
      BY <1>0, Zenon DEF Types, FlushType
    <3>2. \A j \in wb : HasEntry(j)
      BY <1>2, <3>1, Zenon DEF HasEntry, Done
    <3>3. QED
      BY <1>0, <1>1, <2>1, <3>1, <3>2 DEF TableInv
  <2>4. QED
    BY <1>1, <1>3, <2>2, <2>3, Zenon DEF TableInv
<1>13. SyncInv'
  <2>1. PICK a : a \notin Actor
    BY DemandAssumption, Zenon
  <2>2. a \notin Readers /\ a \notin Keys
    BY <2>1, Zenon DEF Actor
  <2>3. QED
    BY <1>0, <1>1, <1>4, <1>7, <2>1, <2>2, SyncSame
<1>14. QED
  BY <1>0, <1>1, <1>5, <1>8, <1>9, <1>10, <1>11, <1>12, <1>13 DEF IInv, NoFault

-----------------------------------------------------------------------------
(* The invariant holds.                                                    *)

\* The empty table, cache and buffer.
LEMMA InitIInv ==
  ASSUME Init
  PROVE  IInv
<1> DEFINE e == <<>>
<1>1. /\ table = [l \in Lpa |-> None] /\ wb = {} /\ pm = "idle" /\ req = None /\ hand = None
      /\ master = e /\ wbretry = e /\ retry = e /\ lq = e /\ htable = {} /\ updated = 0
      /\ max_try = 0 /\ want = [r \in Readers |-> None]
      /\ cnt = [a \in Actor |-> 0] /\ jump = [a \in Actor |-> "none"]
      /\ cache = [lru |-> e, t_ppa |-> [t \in Tpage |-> FALSE],
                  dirty |-> [t \in Tpage |-> FALSE], flying |-> [t \in Tpage |-> FALSE],
                  retry_q |-> [t \in Tpage |-> e]]
      /\ lasync \in BOOLEAN /\ known = {} /\ fault = "no"
  BY Zenon DEF Init
<1>2. /\ e \in Seq(Keys) /\ e \in Seq(Readers) /\ e \in Seq(LowerOp) /\ e \in Seq(Tpage)
      /\ e \in Seq(Actor) /\ Len(e) = 0
  OBVIOUS
<1>3. Elems(e) = {} /\ Distinct(e) /\ Who(e) = {} /\ DistinctWho(e)
  BY EmptyElems, Zenon
<1> HIDE DEF e
<1>4. Keys \subseteq Actor /\ Readers \subseteq Actor /\ {EPP, MAXC, WBSIZE} \subseteq Nat \ {0}
  BY DemandAssumption, Zenon DEF Actor
<1>5. Types
  <2>1. FlushType
    BY <1>1, <1>4 DEF FlushType
  <2>2. QueueType
    BY <1>1, <1>2, Zenon DEF QueueType
  <2>3. ActorType
    BY <1>1, Zenon DEF ActorType
  <2>4. CacheType
    BY <1>1, <1>2, <1>4 DEF CacheType, Cache
  <2>5. QED
    BY <2>1, <2>2, <2>3, <2>4 DEF Types
<1>6. /\ \A t \in Tpage : cache.retry_q[t] = e /\ ~cache.flying[t]
      /\ \A a \in Actor : ~Waits(a) /\ jump[a] = "none" /\ cnt[a] = 0
      /\ \A l \in Lpa : table[l] = None
  BY <1>1, <1>3, Zenon DEF Waits
<1>7. \A a \in Actor : AtRest(a)
  BY <1>1, Zenon DEF AtRest
<1>8. PlaceInv
  <2>1. ASSUME NEW a \in Actor PROVE Spots(a) = 1
    <3>1. a # hand
      BY <1>1, NobodyIsNone, Zenon
    <3>2. QED
      BY <1>1, <1>3, <1>6, <1>7, <3>1 DEF Spots, Truth
  <2>2. QED
    BY <1>1, <1>3, <1>6, <2>1 DEF PlaceInv
<1>9. JumpInv
  BY <1>1, <1>3, <1>4, <1>6 DEF JumpInv
<1>10. LowerInv
  BY <1>1, <1>3, Zenon DEF LowerInv
<1>11. FlightInv
  <2>1. \A t \in Tpage : Loaders(t) = {}
    BY <1>6, Zenon DEF Loaders
  <2>2. QED
    BY <1>3, <1>6, <2>1, Zenon DEF FlightInv, e
<1>12. FlushInv
  <2>1. Done = {} /\ Cardinality({}) = 0
    BY <1>1, FS_EmptySet, Zenon DEF Done
  <2>2. QED
    BY <1>1, <1>4, <1>6, <2>1 DEF FlushInv
<1>13. TableInv
  <2>1. \A k \in Keys : ~HasEntry(k)
    BY <1>6, NobodyIsNone, Zenon DEF HasEntry, Actor
  <2>2. QED
    BY <1>1, <1>4, <1>6, <1>7, <2>1 DEF TableInv
<1>14. SyncInv
  <2>1. \A a \in Actor : ~Active(a)
    BY <1>7, Zenon DEF Active
  <2>2. QED
    BY <1>1, <1>3, <1>4, <1>6, <1>7, <2>1 DEF SyncInv
<1>15. QED
  BY <1>1, <1>5, <1>8, <1>9, <1>10, <1>11, <1>12, <1>13, <1>14 DEF IInv, NoFault

\* Every step keeps the invariant.
LEMMA NextIInv ==
  ASSUME IInv, [Next]_vars
  PROVE  IInv'
<1>1. CASE UNCHANGED vars
  BY <1>1, SameKeeps
<1>2. CASE Next
  <2>1. After /\ (PMain \/ Lower)
    BY <1>2, Zenon DEF Next
  <2>2. CASE Lower
    BY <2>1, <2>2, AnswerMapKeeps, AnswerReadKeeps, AnswerCheckKeeps DEF Lower
  <2>3. CASE PMain
    <3>1. (lasync \/ lq = <<>>) /\ (Requests \/ Read \/ Flush)
      BY <2>3, Zenon DEF PMain
    <3>2. CASE Requests
      <4>1. PICK k \in Keys : Write(k) \/ StartFlush(k) \/ \E r \in Readers : NewRead(r, k)
        BY <3>2, Zenon DEF Requests
      <4>2. QED
        BY <2>1, <3>1, <4>1, WriteKeeps, StartFlushKeeps, NewReadKeeps
    <3>3. CASE Read
      <4>1. PICK r \in Readers : ReadEnds(r) \/ ReadData(r) \/ ReadMiss(r) \/ ReadList(r)
        BY <3>3, Zenon DEF Read
      <4>2. QED
        BY <2>1, <4>1, ReadEndsKeeps, ReadDataKeeps, ReadMissKeeps, ReadListKeeps
    <3>4. CASE Flush
      <4>1. CASE FlushTake \/ FlushSpin \/ FlushDone \/ Drain
        BY <2>1, <3>1, <4>1, FlushTakeKeeps, FlushSpinKeeps, FlushDoneKeeps, DrainKeeps
      <4>2. CASE \E k \in Keys : FlushHit(k) \/ FlushMiss(k) \/ FlushList(k)
                                 \/ FlushCheck(k) \/ FlushUpdate(k)
        <5>1. PICK k \in Keys : FlushHit(k) \/ FlushMiss(k) \/ FlushList(k)
                                \/ FlushCheck(k) \/ FlushUpdate(k)
          BY <4>2, Zenon
        <5>2. QED
          BY <2>1, <5>1, FlushHitKeeps, FlushMissKeeps, FlushListKeeps, FlushCheckKeeps,
             FlushUpdateKeeps
      <4>3. QED
        BY <3>4, <4>1, <4>2, Zenon DEF Flush
    <3>5. QED
      BY <3>1, <3>2, <3>3, <3>4
  <2>4. QED
    BY <2>1, <2>2, <2>3, Zenon
<1>3. QED
  BY <1>1, <1>2, Zenon

\* The invariant of the table, the cache, the flush, the requests and the lower layer.
THEOREM Invariant == Spec => []IInv
<1>1. Init => IInv
  BY InitIInv, Zenon
<1>2. IInv /\ [Next]_vars => IInv'
  BY NextIInv, Zenon
<1>3. QED
  BY <1>1, <1>2, PTL DEF Spec

-----------------------------------------------------------------------------
(* What it says.                                                           *)

\* Requests keep to the interface's queue and buffer entries to those of the flush,
\* although both wait in one retry_q, and the cache never grows beyond its size.
THEOREM TypeCorrect == Spec => []TypeOK
<1>1. IInv => TypeOK
  BY Zenon DEF IInv, Types, FlushType, QueueType, ActorType, CacheType, LowerOp, TypeOK
<1>2. QED
  BY <1>1, Invariant, PTL

\* A page is marked as being read exactly while one request or entry is on its way to
\* list it: nobody waits in retry_q for a page that nobody brings.
THEOREM FlightsCorrect == Spec => []FlightsHaveLoaders
<1>1. ASSUME IInv PROVE FlightsHaveLoaders
  <2>0. Types /\ PlaceInv /\ JumpInv /\ FlightInv
    BY <1>1, Zenon DEF IInv
  <2> DEFINE coming == Elems(retry) \cup Elems(wbretry) \cup {hand}
                         \cup {lq[i].who : i \in 1 .. Len(lq)}
  <2>1. ASSUME NEW a \in Actor, jump[a] = "list" PROVE a \in coming
    <3>1. ~AtRest(a) /\ a \notin Elems(master) /\ ~Waits(a)
      BY <2>0, <2>1, Zenon DEF JumpInv
    <3>2. a \in Elems(retry) \/ a \in Elems(wbretry) \/ a = hand \/ a \in Who(lq)
      BY <2>0, <3>1, Exclusive, Zenon
    <3>3. QED
      BY <3>2, Zenon DEF Who
  <2>2. ASSUME NEW t \in Tpage
        PROVE  IF cache.flying[t]
               THEN /\ Cardinality(Loaders(t)) = 1 /\ Loaders(t) \subseteq coming
                    /\ cache.t_ppa[t] /\ ~IsHit(t)
               ELSE Loaders(t) \subseteq {hand} /\ cache.retry_q[t] = <<>>
    <3>1. Loaders(t) \subseteq coming
      BY <2>1, Zenon DEF Loaders
    <3>2. CASE cache.flying[t]
      <4>1. PICK a \in Actor : Loaders(t) = {a}
        BY <2>0, <3>2, Zenon DEF FlightInv
      <4>2. Cardinality(Loaders(t)) = 1
        BY <4>1, FS_Singleton, Zenon
      <4>3. cache.t_ppa[t] /\ ~IsHit(t)
        BY <2>0, <3>2, Zenon DEF FlightInv
      <4>4. QED
        BY <3>1, <3>2, <4>2, <4>3, Zenon
    <3>3. CASE ~cache.flying[t]
      BY <2>0, <3>3 DEF FlightInv
    <3>4. QED
      BY <3>2, <3>3, Zenon
  <2>3. QED
    BY <2>2, Zenon DEF FlightsHaveLoaders, Loaders
<1>2. QED
  BY <1>1, Invariant, PTL

\* A key that was written and is no longer in the buffer has exactly one entry, and no
\* try before it meets an empty entry: a read that follows its tries finds it.
THEOREM ProbingCorrect == Spec => []ProbingFindsKeys
<1>1. ASSUME IInv PROVE ProbingFindsKeys
  <2>0. Types /\ TableInv
    BY <1>1, Zenon DEF IInv
  <2>1. ASSUME NEW k \in known \ wb
        PROVE  /\ Cardinality({l \in Lpa : table[l] = k}) = 1
               /\ \E c \in 0 .. max_try :
                    /\ table[GetLpa(k, c)] = k
                    /\ \A d \in 0 .. c - 1 : table[GetLpa(k, d)] \notin {None, k}
    <3>1. k \in Keys /\ k # None /\ HasEntry(k)
      BY <2>0, NobodyIsNone, Zenon DEF Types, FlushType, TableInv, Actor
    <3>2. PICK m \in Lpa : table[m] = k
      BY <3>1, Zenon DEF HasEntry
    <3>3. {l \in Lpa : table[l] = k} = {m}
      BY <2>0, <3>1, <3>2, Zenon DEF TableInv
    <3>4. Cardinality({l \in Lpa : table[l] = k}) = 1
      BY <3>3, FS_Singleton, ZenonT(40)
    <3>5. \E c \in 0 .. max_try : table[GetLpa(k, c)] = k /\ Passed(k, c)
      BY <2>0, <3>1 DEF TableInv
    <3>6. QED
      BY <3>4, <3>5, Zenon DEF Passed
  <2>2. QED
    BY <2>1, Zenon DEF ProbingFindsKeys
<1>2. QED
  BY <1>1, Invariant, PTL

\* The flush leaves no entry in a queue, and no data page is read before it is written.
THEOREM FaultFree == Spec => []NoFault
<1>1. IInv => NoFault
  BY Zenon DEF IInv
<1>2. QED
  BY <1>1, Invariant, PTL

\* With a lower layer that answers in the caller, a written entry is in a page of the
\* cache or on flash, over all evictions.
THEOREM ReachableCorrect == Spec => []EntriesReachableSync
<1>1. IInv => EntriesReachableSync
  BY Zenon DEF IInv, SyncInv, EntriesReachableSync, EntriesReachable
<1>2. QED
  BY <1>1, Invariant, PTL

=============================================================================
