-------------------------- MODULE DemandMap_steps ---------------------------
(***************************************************************************)
(* The inductive invariant of module DemandMap, and that it is kept by the *)
(* steps of reads, of the lower layer and of the flush that do not change  *)
(* how many entries the write buffer and the hash table have.              *)
(* DemandMap_proofs has the other steps and the theorems.                  *)
(***************************************************************************)
EXTENDS DemandMap, TLAPS

\* No one is in a queue twice.
Distinct(q) == \A i, j \in 1 .. Len(q) : q[i] = q[j] => i = j

Truth(p) == IF p THEN 1 ELSE 0

\* For whom the lower layer works; nobody waits for the flushed pages.
Who(q) == {q[i].who : i \in 1 .. Len(q)}
DistinctWho(q) == \A i, j \in 1 .. Len(q) : q[i].who = q[j].who /\ q[i].who # None => i = j

\* The keys whose entries this flush has written.
Done == {table[l] : l \in htable}

\* Where a request or a buffer entry can be.
Waits(a) == \E t \in Tpage : a \in Elems(cache.retry_q[t])
AtRest(a) ==
  IF a \in Readers THEN want[a] = None ELSE pm # "flush" \/ a \notin wb \/ a \in Done

Spots(a) ==
  Truth(AtRest(a)) + Truth(a \in Elems(retry)) + Truth(a \in Elems(wbretry))
  + Truth(a \in Elems(master)) + Truth(a = hand) + Truth(a \in Who(lq)) + Truth(Waits(a))

-----------------------------------------------------------------------------
(* The invariant.                                                          *)

LowerOp == [type : {"mapr", "mapw", "datar", "dataw"},
            who : Actor \cup {None}, key : Keys \cup {None}]

FlushType ==
  /\ table \in [Lpa -> Keys \cup {None}] /\ wb \subseteq Keys
  /\ pm \in {"idle", "flush", "drain"}
  /\ req \in Keys \cup {None} /\ hand \in Keys \cup {None}
  /\ htable \subseteq Lpa /\ updated \in 0 .. WBSIZE /\ max_try \in Nat
  /\ known \subseteq Keys /\ lasync \in BOOLEAN

QueueType ==
  /\ master \in Seq(Keys) /\ wbretry \in Seq(Keys) /\ retry \in Seq(Readers)
  /\ lq \in Seq(LowerOp)

ActorType ==
  /\ want \in [Readers -> Keys \cup {None}]
  /\ cnt \in [Actor -> Nat]
  /\ jump \in [Actor -> {"none", "list", "complete", "update"}]

CacheType == cache \in Cache /\ Len(cache.lru) <= MAXC

\* A request or entry that is on its way is in one place, and there once.
PlaceInv ==
  /\ \A a \in Actor : Spots(a) = 1
  /\ Distinct(retry) /\ Distinct(wbretry) /\ Distinct(master) /\ DistinctWho(lq)
  /\ \A t \in Tpage : Distinct(cache.retry_q[t])

\* Where each of them goes on.
JumpInv ==
  /\ \A a \in Actor : AtRest(a) \/ a \in Elems(master) \/ Waits(a) => jump[a] = "none"
  /\ \A r \in Readers : jump[r] # "update"
  /\ \A r \in Readers : jump[r] # "none" \/ Waits(r) => cnt[r] <= max_try
  /\ \A a \in Elems(wbretry) : jump[a] # "none"

\* What the lower layer is asked.
OpOk(o) ==
  /\ o.type = "mapr" => o.who \in Actor /\ jump[o.who] = "list"
  /\ o.type = "mapw" => o.who \in Actor /\ jump[o.who] = "complete"
  /\ o.type = "dataw" => o.who = None
  /\ o.type = "datar" =>
       /\ o.who \in Actor /\ jump[o.who] = "none" /\ o.key # None
       /\ o.who \in Keys => o.key = table[GetLpa(o.who, cnt[o.who])]

LowerInv == \A o \in Elems(lq) : OpOk(o)

Loaders(t) == {a \in Actor : jump[a] = "list" /\ PageOf(a) = t}

\* Who waits for a page, and who brings it: requests never wait for a buffer entry.
FlightInv ==
  \A t \in Tpage :
    /\ \A a \in Elems(cache.retry_q[t]) : PageOf(a) = t
    /\ cache.flying[t] => /\ \E a \in Actor : Loaders(t) = {a}
                          /\ cache.t_ppa[t] /\ ~IsHit(t)
    /\ ~cache.flying[t] => Loaders(t) \subseteq {hand} /\ cache.retry_q[t] = <<>>
    /\ \A a \in Elems(cache.retry_q[t]), b \in Loaders(t) : a \in Readers => b \in Readers

\* The flush: what it has done, and when it is over.
FlushInv ==
  /\ Done \subseteq wb /\ updated = Cardinality(htable)
  /\ pm = "idle" => htable = {} /\ \A k \in Keys : cnt[k] = 0
  /\ pm # "idle" => Cardinality(wb) = WBSIZE /\ req \in Keys
  /\ pm = "drain" => Done = wb
  /\ wb \subseteq known /\ Cardinality(wb) <= WBSIZE

HasEntry(k) == \E l \in Lpa : table[l] = k

\* The tries before the c-th one meet other keys.
Passed(k, c) == \A d \in 0 .. c - 1 : table[GetLpa(k, d)] \notin {None, k}

\* The table: a key has one entry, at its first try that does not meet another key.
TableInv ==
  /\ \A l, m \in Lpa : table[l] = table[m] /\ table[l] # None => l = m
  /\ \A k \in Keys : HasEntry(k) =>
       \E c \in 0 .. max_try : table[GetLpa(k, c)] = k /\ Passed(k, c)
  /\ \A k \in Keys : ~AtRest(k) => Passed(k, cnt[k])
  /\ \A k \in Keys : jump[k] = "update" => table[GetLpa(k, cnt[k])] = k
  /\ \A k \in known : k \in wb \/ HasEntry(k)

\* On its way, and not only queued for the flush to begin with it.
Active(a) == ~AtRest(a) /\ a \notin Elems(master)

\* A lower layer that answers in the caller: one request or entry is on its way at a
\* time, so that a page stays in the cache from the time it is listed until the entry
\* in it is updated.
SyncInv ==
  ~lasync =>
    /\ \A a, b \in Actor : Active(a) /\ Active(b) => a = b
    /\ pm # "idle" => \A r \in Readers : AtRest(r)
    /\ \A k \in Keys : jump[k] \in {"complete", "update"} \/ (jump[k] = "none" /\ k \in Who(lq))
                         => IsHit(PageOf(k))
    /\ \A l \in Lpa : table[l] # None =>
         \/ cache.t_ppa[IDX(l)]
         \/ IsHit(IDX(l)) /\ cache.dirty[IDX(l)]

Types == FlushType /\ QueueType /\ ActorType /\ CacheType

IInv ==
  /\ Types /\ PlaceInv /\ JumpInv /\ LowerInv /\ FlightInv /\ FlushInv /\ TableInv
  /\ SyncInv /\ NoFault

-----------------------------------------------------------------------------
(* Operators.                                                              *)

\* get_lpa stays within the table, but for entry 0.
LEMMA LpaRange ==
  ASSUME NEW k \in Keys, NEW c \in Nat
  PROVE  GetLpa(k, c) \in Lpa
<1>1. k \in Nat /\ NENT - 1 \in Nat /\ NENT - 1 > 0 /\ c * c \in Nat
  BY DemandAssumption
<1> DEFINE n == k + c + c * c
           m == NENT - 1
<1>2. n \in Nat /\ m \in Nat /\ m > 0
  BY <1>1
<1> HIDE DEF n
<1>3. n % m \in 0 .. m - 1
  BY <1>2
<1>4. (n % m) + 1 \in 1 .. NENT - 1
  BY <1>1, <1>3
<1>5. QED
  BY <1>4, Zenon DEF GetLpa, Lpa, n

\* An entry is in a translation page.
LEMMA PageRange ==
  ASSUME NEW l \in Lpa
  PROVE  IDX(l) \in Tpage
<1>1. l \in Nat /\ l <= NENT - 1 /\ NENT - 1 \in Nat /\ EPP \in Nat /\ EPP > 0
  BY DemandAssumption DEF Lpa
<1> DEFINE q == l \div EPP
           z == (NENT - 1) \div EPP
<1>2. /\ q \in Nat /\ z \in Nat
      /\ q * EPP <= l /\ l < q * EPP + EPP
      /\ z * EPP <= NENT - 1 /\ NENT - 1 < z * EPP + EPP
  BY <1>1
<1> HIDE DEF q, z
<1>3. q <= z
  <2>1. SUFFICES ASSUME q > z PROVE FALSE
    BY <1>2
  <2>2. q >= z + 1
    BY <1>2, <2>1
  <2>3. q * EPP >= (z + 1) * EPP
    BY <1>1, <1>2, <2>2
  <2>4. (z + 1) * EPP = z * EPP + EPP
    BY <1>1, <1>2
  <2>5. QED
    BY <1>1, <1>2, <2>3, <2>4
<1>4. QED
  BY <1>2, <1>3 DEF IDX, Tpage, q, z

\* q_dequeue.
LEMMA TailElems ==
  ASSUME NEW S, NEW q \in Seq(S), q # <<>>, Distinct(q)
  PROVE  /\ Head(q) \in S /\ Head(q) \in Elems(q) /\ Tail(q) \in Seq(S)
         /\ Distinct(Tail(q)) /\ Elems(Tail(q)) = Elems(q) \ {Head(q)}
<1>1. /\ Len(q) \in Nat /\ Len(q) > 0 /\ Head(q) = q[1] /\ Head(q) \in S
      /\ Tail(q) \in Seq(S) /\ Len(Tail(q)) = Len(q) - 1
      /\ \A i \in 1 .. Len(q) - 1 : Tail(q)[i] = q[i + 1]
  OBVIOUS
<1>2. Head(q) \in Elems(q)
  BY <1>1 DEF Elems
<1>3. Distinct(Tail(q))
  BY <1>1 DEF Distinct
<1>4. ASSUME NEW x \in Elems(Tail(q)) PROVE x \in Elems(q) /\ x # Head(q)
  <2>1. PICK i \in 1 .. Len(q) - 1 : x = q[i + 1]
    BY <1>1, Zenon DEF Elems
  <2>2. i + 1 \in 1 .. Len(q) /\ 1 \in 1 .. Len(q) /\ i + 1 # 1
    BY <1>1
  <2>3. QED
    BY <1>1, <2>1, <2>2, Zenon DEF Elems, Distinct
<1>5. ASSUME NEW x \in Elems(q), x # Head(q) PROVE x \in Elems(Tail(q))
  <2>1. PICK i \in 1 .. Len(q) : x = q[i]
    BY Zenon DEF Elems
  <2>2. i - 1 \in 1 .. Len(q) - 1 /\ Tail(q)[i - 1] = x
    BY <1>1, <1>5, <2>1
  <2>3. QED
    BY <1>1, <2>2, Zenon DEF Elems
<1>6. QED
  BY <1>1, <1>2, <1>3, <1>4, <1>5, Zenon

\* q_enqueue.
LEMMA AppendElems ==
  ASSUME NEW S, NEW q \in Seq(S), NEW e \in S
  PROVE  /\ Append(q, e) \in Seq(S) /\ Append(q, e) # <<>>
         /\ Elems(Append(q, e)) = Elems(q) \cup {e}
         /\ Distinct(q) /\ e \notin Elems(q) => Distinct(Append(q, e))
<1>1. /\ Len(q) \in Nat /\ Append(q, e) \in Seq(S) /\ Len(Append(q, e)) = Len(q) + 1
      /\ \A i \in 1 .. Len(q) : Append(q, e)[i] = q[i]
      /\ Append(q, e)[Len(q) + 1] = e
  OBVIOUS
<1>2. 1 .. Len(q) + 1 = (1 .. Len(q)) \cup {Len(q) + 1}
  BY <1>1
<1>3. Elems(Append(q, e)) = Elems(q) \cup {e}
  BY <1>1, <1>2 DEF Elems
<1>4. ASSUME Distinct(q), e \notin Elems(q) PROVE Distinct(Append(q, e))
  BY <1>1, <1>2, <1>4 DEF Distinct, Elems
<1>5. QED
  BY <1>1, <1>3, <1>4

\* One queue behind another.
LEMMA ConcatFacts ==
  ASSUME NEW S, NEW p \in Seq(S), NEW q \in Seq(S)
  PROVE  /\ Len(p) \in Nat /\ Len(q) \in Nat /\ p \o q \in Seq(S)
         /\ Len(p \o q) = Len(p) + Len(q)
         /\ \A i \in 1 .. Len(p) + Len(q) :
               (p \o q)[i] = IF i <= Len(p) THEN p[i] ELSE q[i - Len(p)]
OBVIOUS

\* The beginning of a queue.
LEMMA PrefixFacts ==
  ASSUME NEW S, NEW s \in Seq(S), NEW m \in Nat, m <= Len(s)
  PROVE  /\ SubSeq(s, 1, m) \in Seq(S) /\ Len(SubSeq(s, 1, m)) = m
         /\ \A i \in 1 .. m : SubSeq(s, 1, m)[i] = s[i]
OBVIOUS

\* What is in a queue behind another one.
LEMMA ConcatElems ==
  ASSUME NEW S, NEW p \in Seq(S), NEW q \in Seq(S)
  PROVE  /\ p \o q \in Seq(S) /\ Elems(p \o q) = Elems(p) \cup Elems(q)
         /\ Distinct(p) /\ Distinct(q) /\ Elems(p) \cap Elems(q) = {} => Distinct(p \o q)
<1>1. /\ Len(p) \in Nat /\ Len(q) \in Nat /\ p \o q \in Seq(S)
      /\ Len(p \o q) = Len(p) + Len(q)
      /\ \A i \in 1 .. Len(p) + Len(q) :
            (p \o q)[i] = IF i <= Len(p) THEN p[i] ELSE q[i - Len(p)]
  BY ConcatFacts, Zenon
<1>2. ASSUME NEW x \in Elems(p \o q) PROVE x \in Elems(p) \cup Elems(q)
  <2>1. PICK i \in 1 .. Len(p) + Len(q) : x = (p \o q)[i]
    BY <1>1, Zenon DEF Elems
  <2>2. CASE i <= Len(p)
    <3>1. i \in 1 .. Len(p) /\ x = p[i]
      BY <1>1, <2>1, <2>2
    <3>2. QED
      BY <3>1, Zenon DEF Elems
  <2>3. CASE ~(i <= Len(p))
    <3>1. i - Len(p) \in 1 .. Len(q) /\ x = q[i - Len(p)]
      BY <1>1, <2>1, <2>3
    <3>2. QED
      BY <3>1, Zenon DEF Elems
  <2>4. QED
    BY <2>2, <2>3, Zenon
<1>3. ASSUME NEW x \in Elems(p) PROVE x \in Elems(p \o q)
  <2>1. PICK i \in 1 .. Len(p) : x = p[i]
    BY Zenon DEF Elems
  <2>2. i \in 1 .. Len(p \o q) /\ x = (p \o q)[i]
    BY <1>1, <2>1
  <2>3. QED
    BY <2>2, Zenon DEF Elems
<1>4. ASSUME NEW x \in Elems(q) PROVE x \in Elems(p \o q)
  <2>1. PICK i \in 1 .. Len(q) : x = q[i]
    BY Zenon DEF Elems
  <2>2. Len(p) + i \in 1 .. Len(p \o q) /\ x = (p \o q)[Len(p) + i]
    BY <1>1, <2>1
  <2>3. QED
    BY <2>2, Zenon DEF Elems
<1>5. ASSUME Distinct(p), Distinct(q), Elems(p) \cap Elems(q) = {},
             NEW i \in 1 .. Len(p \o q), NEW j \in 1 .. Len(p \o q), (p \o q)[i] = (p \o q)[j]
      PROVE  i = j
  <2>1. ASSUME NEW m \in 1 .. Len(p) + Len(q), ~(m <= Len(p))
        PROVE  m - Len(p) \in 1 .. Len(q) /\ (p \o q)[m] = q[m - Len(p)]
               /\ (p \o q)[m] \in Elems(q)
    BY <1>1, <2>1 DEF Elems
  <2>2. ASSUME NEW m \in 1 .. Len(p) + Len(q), m <= Len(p)
        PROVE  m \in 1 .. Len(p) /\ (p \o q)[m] = p[m] /\ (p \o q)[m] \in Elems(p)
    BY <1>1, <2>2 DEF Elems
  <2>3. i \in 1 .. Len(p) + Len(q) /\ j \in 1 .. Len(p) + Len(q)
    BY <1>1, Zenon
  <2>4. CASE i <= Len(p) /\ j <= Len(p)
    BY <1>5, <2>2, <2>3, <2>4, Zenon DEF Distinct
  <2>5. CASE ~(i <= Len(p)) /\ ~(j <= Len(p))
    <3>1. i - Len(p) = j - Len(p)
      BY <1>5, <2>1, <2>3, <2>5, Zenon DEF Distinct
    <3>2. QED
      BY <1>1, <2>3, <3>1
  <2>6. CASE i <= Len(p) /\ ~(j <= Len(p))
    BY <1>5, <2>1, <2>2, <2>3, <2>6, Zenon
  <2>7. CASE ~(i <= Len(p)) /\ j <= Len(p)
    BY <1>5, <2>1, <2>2, <2>3, <2>7, Zenon
  <2>8. QED
    BY <2>4, <2>5, <2>6, <2>7, Zenon
<1>6. QED
  BY <1>1, <1>2, <1>3, <1>4, <1>5, Zenon DEF Distinct

\* The empty queue.
LEMMA EmptyElems == Elems(<<>>) = {} /\ Distinct(<<>>) /\ Who(<<>>) = {} /\ DistinctWho(<<>>)
BY DEF Elems, Distinct, Who, DistinctWho

\* The lower layer answers the first operation.
LEMMA TailWho ==
  ASSUME NEW q \in Seq(LowerOp), q # <<>>, DistinctWho(q)
  PROVE  /\ Head(q) \in LowerOp /\ Head(q) \in Elems(q) /\ Tail(q) \in Seq(LowerOp)
         /\ Elems(Tail(q)) \subseteq Elems(q) /\ DistinctWho(Tail(q))
         /\ Head(q).who \in Who(q)
         /\ \A a : a # None => (a \in Who(Tail(q)) <=> a \in Who(q) /\ a # Head(q).who)
<1>1. /\ Len(q) \in Nat /\ Len(q) > 0 /\ Head(q) = q[1] /\ Head(q) \in LowerOp
      /\ Tail(q) \in Seq(LowerOp) /\ Len(Tail(q)) = Len(q) - 1
      /\ \A i \in 1 .. Len(q) - 1 : Tail(q)[i] = q[i + 1]
  OBVIOUS
<1>2. Head(q) \in Elems(q) /\ Head(q).who \in Who(q)
  BY <1>1 DEF Elems, Who
<1>3. DistinctWho(Tail(q))
  BY <1>1 DEF DistinctWho
<1>4. ASSUME NEW x \in Elems(Tail(q)) PROVE x \in Elems(q)
  <2>1. PICK i \in 1 .. Len(q) - 1 : x = q[i + 1]
    BY <1>1, Zenon DEF Elems
  <2>2. i + 1 \in 1 .. Len(q)
    BY <1>1
  <2>3. QED
    BY <2>1, <2>2, Zenon DEF Elems
<1>5. ASSUME NEW a, a # None, a \in Who(Tail(q)) PROVE a \in Who(q) /\ a # Head(q).who
  <2>1. PICK i \in 1 .. Len(q) - 1 : a = q[i + 1].who
    BY <1>1, <1>5, Zenon DEF Who
  <2>2. i + 1 \in 1 .. Len(q) /\ 1 \in 1 .. Len(q) /\ i + 1 # 1
    BY <1>1
  <2>3. QED
    BY <1>1, <1>5, <2>1, <2>2, Zenon DEF Who, DistinctWho
<1>6. ASSUME NEW a \in Who(q), a # Head(q).who PROVE a \in Who(Tail(q))
  <2>1. PICK i \in 1 .. Len(q) : a = q[i].who
    BY Zenon DEF Who
  <2>2. i - 1 \in 1 .. Len(q) - 1 /\ Tail(q)[i - 1] = q[i]
    BY <1>1, <1>6, <2>1
  <2>3. QED
    BY <1>1, <2>1, <2>2, Zenon DEF Who
<1>7. QED
  BY <1>1, <1>2, <1>3, <1>4, <1>5, <1>6, Zenon

\* The lower layer is given an operation.
LEMMA AppendWho ==
  ASSUME NEW q \in Seq(LowerOp), DistinctWho(q), NEW o \in LowerOp,
         o.who = None \/ o.who \notin Who(q)
  PROVE  /\ Append(q, o) \in Seq(LowerOp) /\ DistinctWho(Append(q, o))
         /\ Elems(Append(q, o)) = Elems(q) \cup {o}
         /\ Who(Append(q, o)) = Who(q) \cup {o.who}
<1>1. /\ Len(q) \in Nat /\ Append(q, o) \in Seq(LowerOp) /\ Len(Append(q, o)) = Len(q) + 1
      /\ \A i \in 1 .. Len(q) : Append(q, o)[i] = q[i]
      /\ Append(q, o)[Len(q) + 1] = o
  OBVIOUS
<1>2. 1 .. Len(q) + 1 = (1 .. Len(q)) \cup {Len(q) + 1}
  BY <1>1
<1>3. Elems(Append(q, o)) = Elems(q) \cup {o}
  BY <1>1, <1>2, Zenon DEF Elems
<1>4. Who(Append(q, o)) = Who(q) \cup {o.who}
  BY <1>1, <1>2 DEF Who
<1>5. DistinctWho(Append(q, o))
  BY <1>1, <1>2 DEF DistinctWho, Who
<1>6. QED
  BY <1>1, <1>3, <1>4, <1>5, Zenon

\* lru_update keeps the pages in the cache.
LEMMA TouchedElems ==
  ASSUME NEW s \in Seq(Tpage), NEW t \in Elems(s)
  PROVE  /\ Touched(s, t) \in Seq(Tpage) /\ Len(Touched(s, t)) = Len(s)
         /\ Elems(Touched(s, t)) = Elems(s)
<1> DEFINE at == CHOOSE i \in 1 .. Len(s) : s[i] = t
           n == Len(s)
           u == [i \in 1 .. n |-> IF i = 1 THEN t ELSE IF i <= at THEN s[i - 1] ELSE s[i]]
<1>1. n \in Nat /\ at \in 1 .. n /\ s[at] = t /\ t \in Tpage /\ \A i \in 1 .. n : s[i] \in Tpage
  BY DEF Elems
<1>2. Touched(s, t) = u
  BY Zenon DEF Touched
<1> HIDE DEF at, n
<1>3. u \in [1 .. n -> Tpage]
  BY <1>1
<1>4. u \in Seq(Tpage) /\ Len(u) = n
  BY <1>1, <1>3
<1>5. ASSUME NEW x \in Elems(u) PROVE x \in Elems(s)
  <2>1. PICK i \in 1 .. n : x = u[i]
    BY <1>4, Zenon DEF Elems
  <2>2. \E j \in 1 .. n : x = s[j]
    <3>1. CASE i = 1
      BY <1>1, <2>1, <3>1, Zenon
    <3>2. CASE i # 1 /\ i <= at
      <4>1. x = s[i - 1] /\ i - 1 \in 1 .. n
        BY <1>1, <2>1, <3>2
      <4>2. QED
        BY <4>1, Zenon
    <3>3. CASE i # 1 /\ ~(i <= at)
      BY <1>1, <2>1, <3>3, Zenon
    <3>4. QED
      BY <3>1, <3>2, <3>3, Zenon
  <2>3. QED
    BY <2>2, Zenon DEF Elems, n
<1>6. ASSUME NEW x \in Elems(s) PROVE x \in Elems(u)
  <2>1. PICK j \in 1 .. n : x = s[j]
    BY Zenon DEF Elems, n
  <2>2. \E i \in 1 .. n : x = u[i]
    <3>1. CASE j = at
      <4>1. 1 \in 1 .. n /\ u[1] = x
        BY <1>1, <2>1, <3>1
      <4>2. QED
        BY <4>1, Zenon
    <3>2. CASE j < at
      <4>1. j + 1 \in 1 .. n /\ j + 1 # 1 /\ j + 1 <= at /\ (j + 1) - 1 = j
        BY <1>1, <3>2
      <4>2. u[j + 1] = x
        BY <2>1, <4>1, Zenon
      <4>3. QED
        BY <4>1, <4>2, Zenon
    <3>3. CASE j > at
      <4>1. j # 1 /\ ~(j <= at)
        BY <1>1, <3>3
      <4>2. QED
        BY <2>1, <4>1, Zenon
    <3>4. QED
      BY <1>1, <3>1, <3>2, <3>3
  <2>3. QED
    BY <1>4, <2>2, Zenon DEF Elems
<1>7. QED
  BY <1>2, <1>4, <1>5, <1>6, Zenon DEF n

-----------------------------------------------------------------------------
(* The cache.                                                              *)

\* lru_update of a page in the cache.
LEMMA TouchCache ==
  ASSUME CacheType, NEW t \in Tpage, IsHit(t), cache' = Touch(t)
  PROVE  /\ CacheType' /\ \A u : IsHit(u)' <=> IsHit(u)
         /\ cache'.t_ppa = cache.t_ppa /\ cache'.dirty = cache.dirty
         /\ cache'.flying = cache.flying /\ cache'.retry_q = cache.retry_q
<1> DEFINE s == Touched(cache.lru, t)
<1>1. cache.lru \in Seq(Tpage) /\ t \in Elems(cache.lru) /\ Len(cache.lru) <= MAXC
  BY Zenon DEF CacheType, Cache, IsHit
<1>2. s \in Seq(Tpage) /\ Len(s) = Len(cache.lru) /\ Elems(s) = Elems(cache.lru)
  BY <1>1, TouchedElems, Zenon
<1>3. cache' = [cache EXCEPT !.lru = s]
  BY Zenon DEF Touch
<1> HIDE DEF s
<1>4. QED
  BY <1>1, <1>2, <1>3, Zenon DEF CacheType, Cache, IsHit

\* cg_load.
LEMMA LoadedCache ==
  ASSUME CacheType, NEW t \in Tpage, cache' = Loaded(t)
  PROVE  /\ CacheType' /\ \A u : IsHit(u)' <=> IsHit(u)
         /\ cache'.t_ppa = cache.t_ppa /\ cache'.dirty = cache.dirty
         /\ cache'.retry_q = cache.retry_q
         /\ \A u \in Tpage : cache'.flying[u] <=> u = t \/ cache.flying[u]
BY Zenon DEF CacheType, Cache, IsHit, Loaded

\* cg_wait_if_flying.
LEMMA WaitingCache ==
  ASSUME CacheType, NEW t \in Tpage, NEW a \in Actor, cache' = Waiting(a, t)
  PROVE  /\ CacheType' /\ \A u : IsHit(u)' <=> IsHit(u)
         /\ cache'.t_ppa = cache.t_ppa /\ cache'.dirty = cache.dirty
         /\ cache'.flying = cache.flying
         /\ cache'.retry_q[t] = Append(cache.retry_q[t], a)
         /\ \A u \in Tpage : u # t => cache'.retry_q[u] = cache.retry_q[u]
<1> DEFINE q == Append(cache.retry_q[t], a)
           f == [cache.retry_q EXCEPT ![t] = q]
<1>1. cache.retry_q \in [Tpage -> Seq(Actor)] /\ q \in Seq(Actor)
  BY DEF CacheType, Cache
<1>2. cache' = [cache EXCEPT !.retry_q = f]
  BY Zenon DEF Waiting, CacheType, Cache
<1>3. f \in [Tpage -> Seq(Actor)] /\ f[t] = q /\ \A u \in Tpage : u # t => f[u] = cache.retry_q[u]
  BY <1>1, Zenon
<1> HIDE DEF q, f
<1>4. QED
  BY <1>2, <1>3, Zenon DEF CacheType, Cache, IsHit, q

\* The pages that stay when page t is listed: all but the victim of a full cache.
LEMMA ListedLru ==
  ASSUME CacheType, NEW t \in Tpage, cache' = ListedUp(t)
  PROVE  /\ cache'.lru \in Seq(Tpage) /\ Len(cache'.lru) <= MAXC
         /\ IsHit(t)'
         /\ \A u : IsHit(u)' => u = t \/ IsHit(u)
         /\ \A u : IsHit(u) => IsHit(u)' \/ (IsFull /\ u = Victim)
<1> DEFINE lru == cache.lru
           m == IF IsFull THEN MAXC - 1 ELSE Len(lru)
           s == SubSeq(lru, 1, m)
<1>1. /\ lru \in Seq(Tpage) /\ Len(lru) \in Nat /\ Len(lru) <= MAXC /\ MAXC \in Nat /\ MAXC > 0
      /\ \A i \in 1 .. Len(lru) : lru[i] \in Tpage
  BY DemandAssumption DEF CacheType, Cache
<1>2. m \in Nat /\ m <= Len(lru) /\ m + 1 <= MAXC
  BY <1>1 DEF IsFull
<1>3. cache'.lru = <<t>> \o s
  BY Zenon DEF ListedUp
<1>4. ~IsFull => m = Len(lru)
  OBVIOUS
<1>5. IsFull => m = Len(lru) - 1 /\ Victim = lru[Len(lru)]
  BY <1>1 DEF IsFull, Victim
<1> HIDE DEF lru, m
<1>6. /\ s \in Seq(Tpage) /\ Len(s) = m
      /\ \A i \in 1 .. m : s[i] = lru[i]
  BY <1>1, <1>2, PrefixFacts, Zenon
<1> HIDE DEF s
<1> DEFINE one == <<t>>
<1>7. one \in Seq(Tpage) /\ Len(one) = 1 /\ Elems(one) = {t} /\ cache'.lru = one \o s
  <2>1. <<t>> \in Seq(Tpage) /\ Len(<<t>>) = 1 /\ <<t>>[1] = t
    OBVIOUS
  <2>2. QED
    BY <1>3, <2>1 DEF Elems
<1> HIDE DEF one
<1>8. /\ cache'.lru \in Seq(Tpage) /\ Elems(cache'.lru) = {t} \cup Elems(s)
  BY <1>6, <1>7, ConcatElems
<1>9. Len(cache'.lru) = m + 1
  <2>1. Len(one \o s) = Len(one) + Len(s)
    BY <1>6, <1>7, ConcatFacts, Zenon
  <2>2. QED
    BY <1>2, <1>6, <1>7, <2>1
<1>10. Elems(s) \subseteq Elems(lru)
  BY <1>1, <1>2, <1>6 DEF Elems
<1>11. ASSUME NEW u, IsHit(u) PROVE u \in Elems(s) \/ (IsFull /\ u = Victim)
  <2>1. PICK i \in 1 .. Len(lru) : u = lru[i]
    BY <1>11, Zenon DEF IsHit, Elems, lru
  <2>2. CASE i <= m
    <3>1. i \in 1 .. m
      BY <1>1, <1>2, <2>2
    <3>2. QED
      BY <1>6, <2>1, <3>1, Zenon DEF Elems
  <2>3. CASE ~(i <= m)
    <3>1. IsFull
      BY <1>1, <1>4, <2>3
    <3>2. i = Len(lru)
      BY <1>1, <1>5, <2>3, <3>1
    <3>3. QED
      BY <1>5, <2>1, <3>1, <3>2, Zenon
  <2>4. QED
    BY <2>2, <2>3, Zenon
<1>12. QED
  BY <1>2, <1>8, <1>9, <1>10, <1>11, Zenon DEF IsHit, lru

\* cg_list_up.
LEMMA ListedCache ==
  ASSUME CacheType, NEW t \in Tpage, cache' = ListedUp(t)
  PROVE  /\ CacheType' /\ IsHit(t)'
         /\ \A u : IsHit(u)' => u = t \/ IsHit(u)
         /\ \A u \in Tpage : IsHit(u) /\ cache.dirty[u] =>
               cache'.t_ppa[u] \/ (IsHit(u)' /\ cache'.dirty[u])
         /\ \A u \in Tpage : cache.t_ppa[u] => cache'.t_ppa[u]
         /\ \A u \in Tpage : cache'.flying[u] <=> u # t /\ cache.flying[u]
         /\ \A u \in Tpage : u # t => cache'.retry_q[u] = cache.retry_q[u]
         /\ cache'.retry_q[t] = IF cache.flying[t] THEN <<>> ELSE cache.retry_q[t]
<1>1. /\ cache'.lru \in Seq(Tpage) /\ Len(cache'.lru) <= MAXC /\ IsHit(t)'
      /\ \A u : IsHit(u)' => u = t \/ IsHit(u)
      /\ \A u : IsHit(u) => IsHit(u)' \/ (IsFull /\ u = Victim)
  BY ListedLru, Zenon
<1>2. /\ cache.t_ppa \in [Tpage -> BOOLEAN] /\ cache.dirty \in [Tpage -> BOOLEAN]
      /\ cache.flying \in [Tpage -> BOOLEAN] /\ cache.retry_q \in [Tpage -> Seq(Actor)]
  BY Zenon DEF CacheType, Cache
<1>3. /\ cache'.t_ppa = IF DirtyVictim THEN [cache.t_ppa EXCEPT ![Victim] = TRUE]
                        ELSE cache.t_ppa
      /\ cache'.dirty = IF IsFull THEN [cache.dirty EXCEPT ![Victim] = FALSE]
                        ELSE cache.dirty
      /\ cache'.flying = [cache.flying EXCEPT ![t] = FALSE]
      /\ cache'.retry_q = [cache.retry_q EXCEPT ![t] = IF cache.flying[t] THEN <<>> ELSE @]
      /\ cache' = [lru |-> cache'.lru, t_ppa |-> cache'.t_ppa, dirty |-> cache'.dirty,
                   flying |-> cache'.flying, retry_q |-> cache'.retry_q]
  BY Zenon DEF ListedUp
<1>4. /\ cache'.t_ppa \in [Tpage -> BOOLEAN] /\ cache'.dirty \in [Tpage -> BOOLEAN]
      /\ cache'.flying \in [Tpage -> BOOLEAN] /\ cache'.retry_q \in [Tpage -> Seq(Actor)]
  <2>1. cache'.t_ppa \in [Tpage -> BOOLEAN]
    <3>1. cache'.t_ppa = cache.t_ppa \/ cache'.t_ppa = [cache.t_ppa EXCEPT ![Victim] = TRUE]
      BY <1>3, Zenon
    <3>2. [cache.t_ppa EXCEPT ![Victim] = TRUE] \in [Tpage -> BOOLEAN]
      BY <1>2, Zenon
    <3>3. QED
      BY <1>2, <3>1, <3>2, Zenon
  <2>2. cache'.dirty \in [Tpage -> BOOLEAN]
    <3>1. cache'.dirty = cache.dirty \/ cache'.dirty = [cache.dirty EXCEPT ![Victim] = FALSE]
      BY <1>3, Zenon
    <3>2. [cache.dirty EXCEPT ![Victim] = FALSE] \in [Tpage -> BOOLEAN]
      BY <1>2, Zenon
    <3>3. QED
      BY <1>2, <3>1, <3>2, Zenon
  <2>3. cache'.flying \in [Tpage -> BOOLEAN]
    BY <1>2, <1>3, Zenon
  <2>4. cache'.retry_q \in [Tpage -> Seq(Actor)]
    <3>1. <<>> \in Seq(Actor) /\ cache.retry_q[t] \in Seq(Actor)
      BY <1>2
    <3>2. QED
      BY <1>2, <1>3, <3>1
  <2>5. QED
    BY <2>1, <2>2, <2>3, <2>4, Zenon
<1>5. CacheType'
  BY <1>1, <1>3, <1>4, Zenon DEF CacheType, Cache
<1>6. \A u \in Tpage : cache.t_ppa[u] => cache'.t_ppa[u]
  BY <1>2, <1>3, Zenon
<1>7. /\ \A u \in Tpage : cache'.flying[u] <=> u # t /\ cache.flying[u]
      /\ \A u \in Tpage : u # t => cache'.retry_q[u] = cache.retry_q[u]
      /\ cache'.retry_q[t] = IF cache.flying[t] THEN <<>> ELSE cache.retry_q[t]
  BY <1>2, <1>3, Zenon
<1>8. ASSUME NEW u \in Tpage, IsFull, u = Victim, cache.dirty[u] PROVE cache'.t_ppa[u]
  BY <1>2, <1>3, <1>8, Zenon DEF DirtyVictim
<1>9. ASSUME NEW u \in Tpage, ~(IsFull /\ u = Victim), cache.dirty[u] PROVE cache'.dirty[u]
  BY <1>2, <1>3, <1>9, Zenon
<1>10. QED
  BY <1>1, <1>5, <1>6, <1>7, <1>8, <1>9, Zenon

\* cg_update.
LEMMA UpdatedCache ==
  ASSUME CacheType, NEW t \in Tpage, cache' = Updated(t)
  PROVE  /\ CacheType' /\ \A u : IsHit(u)' <=> IsHit(u)
         /\ cache'.t_ppa = cache.t_ppa
         /\ \A u \in Tpage : cache.dirty[u] => cache'.dirty[u]
         /\ IsHit(t) => cache'.dirty[t]
         /\ cache'.flying = cache.flying /\ cache'.retry_q = cache.retry_q
<1>1. CASE ~IsHit(t)
  <2>1. cache' = cache
    BY <1>1, Zenon DEF Updated
  <2>2. QED
    BY <1>1, <2>1, Zenon DEF CacheType, IsHit
<1>2. CASE IsHit(t)
  <2> DEFINE s == Touched(cache.lru, t)
             d == [cache.dirty EXCEPT ![t] = TRUE]
  <2>1. cache.lru \in Seq(Tpage) /\ t \in Elems(cache.lru) /\ Len(cache.lru) <= MAXC
    BY <1>2, Zenon DEF CacheType, Cache, IsHit
  <2>2. s \in Seq(Tpage) /\ Len(s) = Len(cache.lru) /\ Elems(s) = Elems(cache.lru)
    BY <2>1, TouchedElems, Zenon
  <2>3. cache' = [cache EXCEPT !.lru = s, !.dirty = d]
    BY <1>2, Zenon DEF Updated, Touch, CacheType, Cache
  <2>4. d \in [Tpage -> BOOLEAN] /\ d[t] /\ \A u \in Tpage : cache.dirty[u] => d[u]
    BY Zenon DEF CacheType, Cache
  <2> HIDE DEF s, d
  <2>5. QED
    BY <2>1, <2>2, <2>3, <2>4, Zenon DEF CacheType, Cache, IsHit
<1>3. QED
  BY <1>1, <1>2, Zenon

-----------------------------------------------------------------------------
(* Places.                                                                 *)

\* The one place of a request or buffer entry excludes the others.
LEMMA Exclusive ==
  ASSUME PlaceInv, NEW a \in Actor
  PROVE  /\ \/ AtRest(a) \/ a \in Elems(retry) \/ a \in Elems(wbretry)
            \/ a \in Elems(master) \/ a = hand \/ a \in Who(lq) \/ Waits(a)
         /\ AtRest(a) => ~(\/ a \in Elems(retry) \/ a \in Elems(wbretry)
                           \/ a \in Elems(master) \/ a = hand \/ a \in Who(lq) \/ Waits(a))
         /\ a \in Elems(retry) => ~(\/ a \in Elems(wbretry) \/ a \in Elems(master)
                                    \/ a = hand \/ a \in Who(lq) \/ Waits(a))
         /\ a \in Elems(wbretry) => ~(\/ a \in Elems(master) \/ a = hand
                                      \/ a \in Who(lq) \/ Waits(a))
         /\ a \in Elems(master) => ~(a = hand \/ a \in Who(lq) \/ Waits(a))
         /\ a = hand => ~(a \in Who(lq) \/ Waits(a))
         /\ a \in Who(lq) => ~Waits(a)
<1>1. Spots(a) = 1
  BY Zenon DEF PlaceInv
<1>2. QED
  BY <1>1 DEF Spots, Truth

\* None is nobody.
LEMMA NobodyIsNone ==
  ASSUME NEW a \in Actor
  PROVE  a # None /\ (a \in Readers <=> a \notin Keys)
BY DemandAssumption, Zenon DEF Actor

\* What a step leaves alone of a request or buffer entry.
Stays(b) ==
  /\ AtRest(b)' <=> AtRest(b)
  /\ (b \in Elems(retry))' <=> b \in Elems(retry)
  /\ (b \in Elems(wbretry))' <=> b \in Elems(wbretry)
  /\ (b \in Elems(master))' <=> b \in Elems(master)
  /\ (b = hand)' <=> b = hand
  /\ (b \in Who(lq))' <=> b \in Who(lq)
  /\ Waits(b)' <=> Waits(b)
  /\ jump'[b] = jump[b]
  /\ ~AtRest(b) => cnt'[b] = cnt[b] /\ PageOf(b)' = PageOf(b)

\* What JumpInv says of one of them.
JumpOk(b) ==
  /\ AtRest(b) \/ b \in Elems(master) \/ Waits(b) => jump[b] = "none"
  /\ b \in Readers => jump[b] # "update"
  /\ b \in Readers /\ (jump[b] # "none" \/ Waits(b)) => cnt[b] <= max_try
  /\ b \in Elems(wbretry) => jump[b] # "none"

\* A step that moves some of them, and each to one place.
LEMMA SomeMove ==
  ASSUME Types, PlaceInv, JumpInv, QueueType', max_try' \in Nat, max_try' >= max_try,
         \A b \in Actor : Stays(b) \/ (Spots(b)' = 1 /\ JumpOk(b)'),
         Distinct(retry)', Distinct(wbretry)', Distinct(master)', DistinctWho(lq)',
         \A t \in Tpage : Distinct(cache.retry_q[t])'
  PROVE  PlaceInv' /\ JumpInv'
<1>1. ASSUME NEW b \in Actor, Stays(b) PROVE Spots(b)' = 1
  <2>1. Stays(b) /\ Spots(b) = 1
    BY <1>1, Zenon DEF PlaceInv
  <2>2. QED
    BY <2>1 DEF Stays, Spots, Truth
<1>2. PlaceInv'
  BY <1>1, Zenon DEF PlaceInv
<1>3. ASSUME NEW b \in Actor, Stays(b) PROVE JumpOk(b)'
  <2>1. Stays(b)
    BY <1>3, Zenon
  <2>2. JumpOk(b)
    BY Zenon DEF JumpInv, JumpOk
  <2>3. AtRest(b) => jump[b] = "none" /\ ~Waits(b)
    BY Exclusive, Zenon DEF JumpInv
  <2>4. cnt[b] \in Nat /\ max_try \in Nat
    BY Zenon DEF Types, FlushType, ActorType
  <2>5. QED
    BY <2>1, <2>2, <2>3, <2>4 DEF Stays, JumpOk
<1>4. \A b \in Actor : JumpOk(b)'
  BY <1>3, Zenon
<1>5. \A b \in Elems(wbretry') : b \in Actor
  BY DEF QueueType, Elems, Actor
<1>6. Readers \subseteq Actor
  BY Zenon DEF Actor
<1>7. QED
  BY <1>2, <1>4, <1>5, <1>6, Zenon DEF JumpInv, JumpOk

\* Nobody waits when the lower layer answers in the caller: the one who waits and the
\* one who brings the page would both be on their way.
LEMMA NobodyWaits ==
  ASSUME Types, PlaceInv, JumpInv, FlightInv, SyncInv, ~lasync, NEW t \in Tpage
  PROVE  cache.retry_q[t] = <<>>
<1>1. SUFFICES ASSUME cache.retry_q[t] # <<>> PROVE FALSE
  OBVIOUS
<1>2. cache.flying[t]
  BY <1>1, Zenon DEF FlightInv
<1>3. PICK b \in Actor : jump[b] = "list"
  BY <1>2, Zenon DEF FlightInv, Loaders
<1>4. Active(b)
  BY <1>3, Zenon DEF JumpInv, Active
<1>5. cache.retry_q[t] \in Seq(Actor)
  BY Zenon DEF Types, CacheType, Cache
<1>6. PICK a \in Actor : a \in Elems(cache.retry_q[t])
  <2>1. Len(cache.retry_q[t]) \in Nat /\ Len(cache.retry_q[t]) > 0
    BY <1>1, <1>5
  <2>2. 1 \in 1 .. Len(cache.retry_q[t]) /\ cache.retry_q[t][1] \in Actor
    BY <1>5, <2>1
  <2>3. QED
    BY <2>2, Zenon DEF Elems
<1>7. Waits(a)
  BY <1>6, Zenon DEF Waits
<1>8. jump[a] = "none" /\ Active(a)
  BY <1>7, Exclusive, Zenon DEF JumpInv, Active
<1>9. a = b
  BY <1>4, <1>8, Zenon DEF SyncInv
<1>10. QED
  BY <1>3, <1>8, <1>9, Zenon

\* The page of an actor that is on its way.
LEMMA PageType ==
  ASSUME Types, NEW a \in Actor, ~AtRest(a)
  PROVE  PageOf(a) \in Tpage
<1>1. cnt[a] \in Nat
  BY Zenon DEF Types, ActorType
<1>2. CASE a \in Readers
  <2>1. want[a] \in Keys
    BY <1>2, Zenon DEF AtRest, Types, ActorType
  <2>2. GetLpa(want[a], cnt[a]) \in Lpa
    BY <1>1, <2>1, LpaRange, Zenon
  <2>3. QED
    BY <1>2, <2>2, PageRange, Zenon DEF PageOf
<1>3. CASE a \notin Readers
  <2>1. GetLpa(a, cnt[a]) \in Lpa
    BY <1>1, <1>3, LpaRange, Zenon DEF Actor
  <2>2. QED
    BY <1>3, <2>1, PageRange, Zenon DEF PageOf
<1>4. QED
  BY <1>2, <1>3, Zenon

-----------------------------------------------------------------------------
(* Steps that leave a part of the state alone.                             *)

\* The table.
LEMMA TableSame ==
  ASSUME Types, TableInv, UNCHANGED <<table, max_try, wb, known>>,
         \A k \in Keys : ~AtRest(k)' => ~AtRest(k) /\ cnt'[k] = cnt[k],
         \A k \in Keys : jump'[k] = "update" =>
            /\ jump[k] = "update" \/ table[GetLpa(k, cnt[k])] = k
            /\ cnt'[k] = cnt[k]
  PROVE  TableInv'
<1>1. /\ \A k \in Keys : HasEntry(k)' <=> HasEntry(k)
      /\ \A k, c : Passed(k, c)' <=> Passed(k, c)
  BY Zenon DEF HasEntry, Passed
<1>2. /\ \A l, m \in Lpa : table'[l] = table'[m] /\ table'[l] # None => l = m
      /\ \A k \in Keys : HasEntry(k)' =>
           \E c \in 0 .. max_try' : table'[GetLpa(k, c)] = k /\ Passed(k, c)'
  BY <1>1, Zenon DEF TableInv
<1>3. ASSUME NEW k \in Keys, ~AtRest(k)' PROVE Passed(k, cnt[k])'
  <2>1. Passed(k, cnt[k]) /\ cnt'[k] = cnt[k]
    BY <1>3, Zenon DEF TableInv
  <2>2. QED
    BY <2>1, Zenon DEF Passed
<1>4. \A k \in Keys : jump'[k] = "update" => table'[GetLpa(k, cnt'[k])] = k
  BY Zenon DEF TableInv
<1>5. known \subseteq Keys /\ \A k \in known' : k \in wb' \/ HasEntry(k)'
  BY <1>1, Zenon DEF TableInv, Types, FlushType
<1>6. QED
  BY <1>2, <1>3, <1>4, <1>5, Zenon DEF TableInv

\* The flush.
LEMMA FlushInvSame ==
  ASSUME FlushInv, UNCHANGED <<table, htable, wb, updated, pm, req, known>>,
         pm = "idle" => \A k \in Keys : cnt'[k] = cnt[k]
  PROVE  FlushInv'
<1>1. Done' = Done
  BY Zenon DEF Done
<1>2. QED
  BY <1>1, Zenon DEF FlushInv

\* The lower layer's queue: what is in it stays right, and what is new is.
LEMMA LowerSame ==
  ASSUME Types, LowerInv, QueueType',
         \A o \in Elems(lq') : o \in Elems(lq) \/ OpOk(o)',
         \A a \in Actor : a \in Who(lq) /\ a \in Who(lq') =>
            jump'[a] = jump[a] /\ cnt'[a] = cnt[a],
         \A l \in Lpa : table[l] # None => table'[l] = table[l]
  PROVE  LowerInv'
<1>1. ASSUME NEW o \in Elems(lq'), o \in Elems(lq) PROVE OpOk(o)'
  <2>1. o.who \in Who(lq) /\ o.who \in Who(lq')
    BY <1>1, Zenon DEF Elems, Who
  <2>2. OpOk(o)
    BY <1>1, Zenon DEF LowerInv
  <2>3. o.who \in Actor => jump'[o.who] = jump[o.who] /\ cnt'[o.who] = cnt[o.who]
    BY <2>1, Zenon
  <2>4. ASSUME o.type = "datar", o.who \in Keys PROVE o.key = table'[GetLpa(o.who, cnt'[o.who])]
    <3>1. o.who \in Actor
      BY <2>4, Zenon DEF Actor
    <3>2. GetLpa(o.who, cnt[o.who]) \in Lpa
      BY <2>4, <3>1, LpaRange, Zenon DEF Types, ActorType
    <3>3. QED
      BY <2>2, <2>3, <2>4, <3>1, <3>2, Zenon DEF OpOk
  <2>5. QED
    BY <2>2, <2>3, <2>4, Zenon DEF OpOk
<1>2. QED
  BY <1>1, Zenon DEF LowerInv

\* Pages that are being read.
LEMMA FlightSame ==
  ASSUME Types, PlaceInv, JumpInv, FlightInv,
         cache'.t_ppa = cache.t_ppa, cache'.flying = cache.flying,
         cache'.retry_q = cache.retry_q, \A u : IsHit(u)' <=> IsHit(u),
         \A a \in Actor : /\ jump'[a] = "list" <=> jump[a] = "list"
                          /\ jump[a] = "list" \/ Waits(a) => PageOf(a)' = PageOf(a)
                          /\ jump[a] = "list" /\ a = hand => a = hand'
  PROVE  FlightInv'
<1>1. \A t \in Tpage : Elems(cache.retry_q[t]) \subseteq Actor
  BY DEF Types, CacheType, Cache, Elems
<1>2. \A t \in Tpage : \A a \in Elems(cache.retry_q[t]) : Waits(a)
  BY Zenon DEF Waits
<1>3. \A t \in Tpage : Loaders(t)' = Loaders(t)
  BY Zenon DEF Loaders
<1>4. ASSUME NEW t \in Tpage
      PROVE  /\ \A a \in Elems(cache'.retry_q[t]) : PageOf(a)' = t
             /\ cache'.flying[t] => /\ \E a \in Actor : Loaders(t)' = {a}
                                    /\ cache'.t_ppa[t] /\ ~IsHit(t)'
             /\ ~cache'.flying[t] => Loaders(t)' \subseteq {hand'} /\ cache'.retry_q[t] = <<>>
             /\ \A a \in Elems(cache'.retry_q[t]), b \in Loaders(t)' :
                   a \in Readers => b \in Readers
  <2>1. \A a \in Elems(cache'.retry_q[t]) : PageOf(a)' = t
    BY <1>1, <1>2, Zenon DEF FlightInv
  <2>2. cache'.flying[t] => /\ \E a \in Actor : Loaders(t)' = {a}
                            /\ cache'.t_ppa[t] /\ ~IsHit(t)'
    BY <1>3, Zenon DEF FlightInv
  <2>3. ASSUME ~cache'.flying[t] PROVE Loaders(t)' \subseteq {hand'} /\ cache'.retry_q[t] = <<>>
    <3>1. Loaders(t) \subseteq {hand} /\ cache.retry_q[t] = <<>>
      BY <2>3, Zenon DEF FlightInv
    <3>2. \A a \in Loaders(t) : a \in Actor /\ jump[a] = "list"
      BY Zenon DEF Loaders
    <3>3. QED
      BY <1>3, <3>1, <3>2, Zenon
  <2>4. QED
    BY <1>3, <2>1, <2>2, <2>3, Zenon DEF FlightInv
<1>5. QED
  BY <1>4, Zenon DEF FlightInv

\* Who is at rest.
LEMMA AtRestSame ==
  ASSUME UNCHANGED <<pm, wb, table, htable>>, NEW b, b \in Readers => want'[b] = want[b]
  PROVE  AtRest(b)' <=> AtRest(b)
BY Zenon DEF AtRest, Done

\* The history, when the buffer stays.
LEMMA KnownSame ==
  ASSUME FlushInv, After, wb' = wb
  PROVE  known' = known /\ lasync' = lasync
BY Zenon DEF FlushInv, After

\* Whoever is listed or has its entry compared has its page in the cache.
Listed(k) ==
  jump[k] \in {"complete", "update"} \/ (jump[k] = "none" /\ k \in Who(lq)) => IsHit(PageOf(k))

\* A lower layer that answers in the caller, and a step of a that keeps what is cached.
LEMMA SyncSame ==
  ASSUME PlaceInv, JumpInv, SyncInv, UNCHANGED <<lasync, table>>,
         cache'.t_ppa = cache.t_ppa, cache'.dirty = cache.dirty, \A u : IsHit(u)' <=> IsHit(u),
         NEW a, \A b \in Actor \ {a} : Stays(b),
         ~lasync => /\ a \in Actor /\ Active(a)' =>
                         Active(a) \/ \A b \in Actor : ~Active(b)
                    /\ pm' # "idle" => pm # "idle" /\ (a \in Readers => AtRest(a)')
                    /\ a \in Keys => Listed(a)'
  PROVE  SyncInv'
<1>1. SUFFICES ASSUME ~lasync
      PROVE  /\ \A b, c \in Actor : Active(b)' /\ Active(c)' => b = c
             /\ pm' # "idle" => \A r \in Readers : AtRest(r)'
             /\ \A k \in Keys : Listed(k)'
             /\ \A l \in Lpa : table'[l] # None =>
                  \/ cache'.t_ppa[IDX(l)]
                  \/ IsHit(IDX(l))' /\ cache'.dirty[IDX(l)]
  BY Zenon DEF SyncInv, Listed
<1>2. /\ \A b, c \in Actor : Active(b) /\ Active(c) => b = c
      /\ pm # "idle" => \A r \in Readers : AtRest(r)
      /\ \A k \in Keys : Listed(k)
      /\ \A l \in Lpa : table[l] # None =>
           \/ cache.t_ppa[IDX(l)]
           \/ IsHit(IDX(l)) /\ cache.dirty[IDX(l)]
  BY <1>1, Zenon DEF SyncInv, Listed
<1>3. ASSUME NEW b \in Actor \ {a} PROVE (Active(b)' <=> Active(b)) /\ (AtRest(b)' <=> AtRest(b))
  <2>1. Stays(b)
    OBVIOUS
  <2>2. QED
    BY <2>1, Zenon DEF Stays, Active
<1>4. \A b, c \in Actor : Active(b)' /\ Active(c)' => b = c
  <2>1. a \in Actor /\ Active(a)' => Active(a) \/ \A b \in Actor : ~Active(b)
    BY <1>1, Zenon
  <2>2. QED
    BY <1>2, <1>3, <2>1, Zenon
<1>5. pm' # "idle" => \A r \in Readers : AtRest(r)'
  <2>1. Readers \subseteq Actor
    BY Zenon DEF Actor
  <2>2. QED
    BY <1>1, <1>2, <1>3, <2>1, Zenon
<1>6. ASSUME NEW k \in Keys PROVE Listed(k)'
  <2>1. CASE k = a
    BY <1>1, <2>1, Zenon
  <2>2. CASE k # a
    <3>1. k \in Actor /\ Stays(k) /\ Listed(k)
      BY <1>2, <2>2, Zenon DEF Actor
    <3>2. jump[k] # "none" \/ k \in Who(lq) => ~AtRest(k)
      BY <3>1, Exclusive, Zenon DEF JumpInv
    <3>3. QED
      BY <3>1, <3>2, Zenon DEF Stays, Listed
  <2>3. QED
    BY <2>1, <2>2, Zenon
<1>7. QED
  BY <1>2, <1>4, <1>5, <1>6, Zenon

\* p_main takes the head of the retry queue; h goes on, q is queued.
LEMMA ServeRetry ==
  ASSUME NEW r, NEW h, NEW q \in Seq(Readers), QueueType, Distinct(retry), Serve(r, h, q),
         h = <<>> \/ h = <<r>>, Distinct(q), Elems(q) \cap Elems(retry) = {}
  PROVE  /\ r \in Readers /\ r \in Elems(retry) /\ retry' \in Seq(Readers)
         /\ Distinct(retry')
         /\ \A b : b \in Elems(retry') <=> \/ b \in Elems(retry) /\ b # r
                                           \/ h # <<>> /\ b = r
                                           \/ b \in Elems(q)
<1>1. retry \in Seq(Readers) /\ retry # <<>> /\ r = Head(retry)
  BY Zenon DEF Serve, QueueType
<1>2. /\ r \in Readers /\ r \in Elems(retry) /\ Tail(retry) \in Seq(Readers)
      /\ Distinct(Tail(retry)) /\ Elems(Tail(retry)) = Elems(retry) \ {r}
  BY <1>1, TailElems, Zenon
<1>3. /\ h \in Seq(Readers) /\ Distinct(h) /\ Elems(h) = IF h = <<>> THEN {} ELSE {r}
  <2>1. CASE h = <<>>
    BY <2>1, EmptyElems
  <2>2. CASE h # <<>>
    <3>0. <<r>> \in Seq(Readers) /\ Len(<<r>>) = 1 /\ <<r>>[1] = r
      BY <1>2
    <3>1. h \in Seq(Readers) /\ Len(h) = 1 /\ h[1] = r
      BY <2>2, <3>0, Zenon
    <3>2. QED
      BY <2>2, <3>1 DEF Elems, Distinct
  <2>3. QED
    BY <2>1, <2>2, Zenon
<1> DEFINE p == h \o Tail(retry)
<1>4. p \in Seq(Readers) /\ Distinct(p) /\ Elems(p) = Elems(h) \cup (Elems(retry) \ {r})
  <2> DEFINE u == Tail(retry)
  <2>1. Elems(h) \cap Elems(u) = {}
    BY <1>2, <1>3, Zenon
  <2>2. u \in Seq(Readers) /\ Distinct(u) /\ Elems(u) = Elems(retry) \ {r}
    BY <1>2, Zenon
  <2> HIDE DEF u
  <2>3. /\ h \o u \in Seq(Readers) /\ Distinct(h \o u)
        /\ Elems(h \o u) = Elems(h) \cup Elems(u)
    BY <1>3, <2>1, <2>2, ConcatElems
  <2>4. QED
    BY <2>2, <2>3, Zenon DEF u
<1>5. retry' = p \o q
  BY Zenon DEF Serve
<1> HIDE DEF p
<1>6. Elems(p) \cap Elems(q) = {}
  BY <1>2, <1>3, <1>4, Zenon
<1>7. /\ retry' \in Seq(Readers) /\ Distinct(retry')
      /\ Elems(retry') = Elems(p) \cup Elems(q)
  BY <1>4, <1>5, <1>6, ConcatElems
<1>8. QED
  BY <1>2, <1>3, <1>4, <1>7, Zenon

\* A step that leaves the table and the flush alone.
LEMMA QuietFrame ==
  ASSUME IInv, After, UNCHANGED <<table, wb, pm, req, htable, updated, max_try>>,
         hand' \in Keys \cup {None},
         \A k \in Keys : cnt'[k] = cnt[k] /\ (jump'[k] = "update" => jump[k] = "update")
  PROVE  /\ FlushType' /\ TableInv' /\ FlushInv' /\ UNCHANGED <<known, lasync>>
         /\ \A b \in Keys : AtRest(b)' <=> AtRest(b)
<1>0. Types /\ FlushInv /\ TableInv
  BY Zenon DEF IInv
<1>1. known' = known /\ lasync' = lasync
  BY <1>0, KnownSame, Zenon
<1>2. FlushType'
  BY <1>0, <1>1, Zenon DEF Types, FlushType
<1>3. ASSUME NEW b \in Keys PROVE AtRest(b)' <=> AtRest(b)
  <2>1. b \notin Readers
    BY NobodyIsNone, Zenon DEF Actor
  <2>2. QED
    BY <2>1, AtRestSame, Zenon
<1>4. TableInv'
  BY <1>0, <1>1, <1>3, TableSame, Zenon
<1>5. FlushInv'
  BY <1>0, <1>1, FlushInvSame, Zenon
<1>6. QED
  BY <1>1, <1>2, <1>3, <1>4, <1>5, Zenon

\* When p_main has nothing to serve and the lower layer answers in the caller, no
\* request and no buffer entry is on its way.
LEMMA AllAtRest ==
  ASSUME IInv, ~lasync, lq = <<>>, pm = "idle", retry = <<>>, NEW b \in Actor
  PROVE  AtRest(b)
<1>0. Types /\ PlaceInv /\ JumpInv /\ FlightInv /\ SyncInv
  BY Zenon DEF IInv
<1>1. Who(lq) = {} /\ Elems(retry) = {}
  BY EmptyElems, Zenon
<1>2. \A t \in Tpage : Elems(cache.retry_q[t]) = {}
  BY <1>0, NobodyWaits, EmptyElems, Zenon
<1>3. ~Waits(b)
  BY <1>2, Zenon DEF Waits
<1>4. CASE b \in Keys
  BY <1>4, NobodyIsNone, Zenon DEF AtRest
<1>5. CASE b \in Readers
  <2>1. b \notin Elems(wbretry) /\ b \notin Elems(master) /\ b # hand
    BY <1>0, <1>5, NobodyIsNone DEF Types, QueueType, FlushType, Elems
  <2>2. QED
    BY <1>0, <1>1, <1>3, <2>1, Exclusive, Zenon
<1>6. QED
  BY <1>4, <1>5, Zenon DEF Actor

-----------------------------------------------------------------------------
(* Pages on their way.                                                     *)

\* What FlightInv says of one page.
FlightOk(t) ==
  /\ \A a \in Elems(cache.retry_q[t]) : PageOf(a) = t
  /\ cache.flying[t] => /\ \E a \in Actor : Loaders(t) = {a}
                        /\ cache.t_ppa[t] /\ ~IsHit(t)
  /\ ~cache.flying[t] => Loaders(t) \subseteq {hand} /\ cache.retry_q[t] = <<>>
  /\ \A a \in Elems(cache.retry_q[t]), b \in Loaders(t) : a \in Readers => b \in Readers

\* Requests and buffer entries wait for a page.
LEMMA WaitersAreActors ==
  ASSUME CacheType, NEW t \in Tpage
  PROVE  Elems(cache.retry_q[t]) \subseteq Actor
<1>1. cache.retry_q[t] \in Seq(Actor)
  BY Zenon DEF CacheType, Cache
<1>2. QED
  BY <1>1 DEF Elems

\* A page that a step does not touch.
LEMMA FlightKept ==
  ASSUME Types, NEW t \in Tpage, FlightOk(t),
         cache.t_ppa[t] => cache'.t_ppa[t], cache'.flying[t] <=> cache.flying[t],
         cache'.retry_q[t] = cache.retry_q[t], IsHit(t)' => IsHit(t),
         Loaders(t)' = Loaders(t), \A a \in Actor : PageOf(a)' = PageOf(a),
         \A a \in Loaders(t) : a = hand => a = hand'
  PROVE  FlightOk(t)'
<1>1. Elems(cache.retry_q[t]) \subseteq Actor
  BY WaitersAreActors, Zenon DEF Types
<1>2. \A a \in Elems(cache'.retry_q[t]) : PageOf(a)' = t
  BY <1>1, Zenon DEF FlightOk
<1>3. cache'.flying[t] => /\ \E a \in Actor : Loaders(t)' = {a}
                          /\ cache'.t_ppa[t] /\ ~IsHit(t)'
  BY Zenon DEF FlightOk
<1>4. ~cache'.flying[t] => Loaders(t)' \subseteq {hand'} /\ cache'.retry_q[t] = <<>>
  BY Zenon DEF FlightOk
<1>5. \A a \in Elems(cache'.retry_q[t]), b \in Loaders(t)' : a \in Readers => b \in Readers
  BY Zenon DEF FlightOk
<1>6. QED
  BY <1>2, <1>3, <1>4, <1>5, Zenon DEF FlightOk

\* cg_wait_if_flying: one more waits for a page that is being read.
LEMMA WaitFlight ==
  ASSUME Types, FlightInv, NEW t \in Tpage, NEW a \in Actor, cache.flying[t], PageOf(a) = t,
         cache' = Waiting(a, t), jump' = jump, jump[a] # "list",
         \A b \in Actor : PageOf(b)' = PageOf(b), hand' = hand \/ hand = a,
         a \in Readers => \A b \in Loaders(t) : b \in Readers
  PROVE  FlightInv'
<1>1. /\ \A u : IsHit(u)' <=> IsHit(u)
      /\ cache'.t_ppa = cache.t_ppa /\ cache'.flying = cache.flying
      /\ cache'.retry_q[t] = Append(cache.retry_q[t], a)
      /\ \A u \in Tpage : u # t => cache'.retry_q[u] = cache.retry_q[u]
  BY WaitingCache, Zenon DEF Types
<1>2. Elems(cache'.retry_q[t]) = Elems(cache.retry_q[t]) \cup {a}
  <2>1. cache.retry_q[t] \in Seq(Actor)
    BY Zenon DEF Types, CacheType, Cache
  <2>2. QED
    BY <1>1, <2>1, AppendElems
<1>3. \A u : Loaders(u)' = Loaders(u)
  BY Zenon DEF Loaders
<1>4. ASSUME NEW u \in Tpage PROVE FlightOk(u)'
  <2>1. FlightOk(u)
    BY Zenon DEF FlightInv, FlightOk
  <2>2. CASE u # t
    <3>1. \A b \in Loaders(u) : b = hand => b = hand'
      BY Zenon DEF Loaders
    <3>2. QED
      BY <1>1, <1>3, <2>1, <2>2, <3>1, FlightKept, Zenon
  <2>3. CASE u = t
    <3>1. Elems(cache.retry_q[t]) \subseteq Actor
      BY DEF Types, CacheType, Cache, Elems
    <3>2. \A b \in Elems(cache'.retry_q[t]) : PageOf(b)' = t
      BY <1>2, <2>1, <2>3, <3>1, Zenon DEF FlightOk
    <3>3. /\ \E b \in Actor : Loaders(t)' = {b}
          /\ cache'.t_ppa[t] /\ ~IsHit(t)' /\ cache'.flying[t]
      BY <1>1, <1>3, <2>1, <2>3, Zenon DEF FlightOk
    <3>4. \A c \in Elems(cache'.retry_q[t]), b \in Loaders(t)' : c \in Readers => b \in Readers
      BY <1>2, <1>3, <2>1, <2>3, Zenon DEF FlightOk
    <3>5. QED
      BY <2>3, <3>2, <3>3, <3>4, Zenon DEF FlightOk
  <2>4. QED
    BY <2>2, <2>3, Zenon
<1>5. QED
  BY <1>4, Zenon DEF FlightInv, FlightOk

\* cg_load: a page that is on flash is asked for.
LEMMA LoadFlight ==
  ASSUME Types, FlightInv, NEW t \in Tpage, NEW a \in Actor, ~cache.flying[t], PageOf(a) = t,
         cache.t_ppa[t], ~IsHit(t), cache' = Loaded(t),
         jump' = [jump EXCEPT ![a] = "list"], jump[a] # "list",
         \A b \in Actor : PageOf(b)' = PageOf(b), hand' = hand \/ hand = a,
         Loaders(t) = {}
  PROVE  FlightInv'
<1>1. /\ \A u : IsHit(u)' <=> IsHit(u)
      /\ cache'.t_ppa = cache.t_ppa /\ cache'.retry_q = cache.retry_q
      /\ \A u \in Tpage : cache'.flying[u] <=> u = t \/ cache.flying[u]
  BY LoadedCache, Zenon DEF Types
<1>2. jump'[a] = "list" /\ \A b \in Actor : b # a => jump'[b] = jump[b]
  BY Zenon DEF Types, ActorType
<1>3. ASSUME NEW u \in Tpage PROVE FlightOk(u)'
  <2>1. FlightOk(u)
    BY Zenon DEF FlightInv, FlightOk
  <2>2. CASE u # t
    <3>1. a \notin Loaders(u)
      BY Zenon DEF Loaders
    <3>2. Loaders(u)' = Loaders(u)
      BY <1>2, <2>2, Zenon DEF Loaders
    <3>3. \A b \in Loaders(u) : b = hand => b = hand'
      BY <3>1, Zenon
    <3>4. QED
      BY <1>1, <2>1, <2>2, <3>2, <3>3, FlightKept, Zenon
  <2>3. CASE u = t
    <3>1. Loaders(t)' = {a}
      BY <1>2 DEF Loaders
    <3>2. cache'.retry_q[t] = <<>> /\ cache'.flying[t] /\ cache'.t_ppa[t] /\ ~IsHit(t)'
      BY <1>1, <2>1, <2>3, Zenon DEF FlightOk
    <3>3. Elems(cache'.retry_q[t]) = {}
      BY <3>2, EmptyElems, Zenon
    <3>4. QED
      BY <2>3, <3>1, <3>2, <3>3, Zenon DEF FlightOk
  <2>4. QED
    BY <2>2, <2>3, Zenon
<1>4. QED
  BY <1>3, Zenon DEF FlightInv, FlightOk

\* cg_list_up: whoever brings the page lists it, and all who waited are released.
LEMMA ListFlight ==
  ASSUME Types, FlightInv, JumpInv, NEW t \in Tpage, NEW a \in Actor, jump[a] = "list",
         PageOf(a) = t, cache' = ListedUp(t), jump' = Resumed(t, a, "complete"),
         \A b \in Actor : PageOf(b)' = PageOf(b), hand' = hand \/ hand = a
  PROVE  FlightInv'
<1>1. /\ \A u : IsHit(u)' => u = t \/ IsHit(u)
      /\ \A u \in Tpage : cache.t_ppa[u] => cache'.t_ppa[u]
      /\ \A u \in Tpage : cache'.flying[u] <=> u # t /\ cache.flying[u]
      /\ \A u \in Tpage : u # t => cache'.retry_q[u] = cache.retry_q[u]
      /\ cache'.retry_q[t] = IF cache.flying[t] THEN <<>> ELSE cache.retry_q[t]
  BY ListedCache, Zenon DEF Types
<1>2. \A b \in Actor : jump'[b] = IF b \in Elems(Released(t)) THEN "complete"
                                  ELSE IF b = a THEN "complete" ELSE jump[b]
  BY Zenon DEF Resumed
<1>3. \A b \in Elems(Released(t)) : b \in Actor /\ jump[b] = "none"
  <2>1. CASE cache.flying[t]
    <3>1. Released(t) = cache.retry_q[t]
      BY <2>1, Zenon DEF Released
    <3>2. cache.retry_q[t] \in Seq(Actor)
      BY Zenon DEF Types, CacheType, Cache
    <3>3. \A b \in Elems(cache.retry_q[t]) : b \in Actor /\ Waits(b)
      BY <3>2 DEF Elems, Waits
    <3>4. QED
      BY <3>1, <3>3, Zenon DEF JumpInv
  <2>2. CASE ~cache.flying[t]
    BY <2>2, EmptyElems, Zenon DEF Released
  <2>3. QED
    BY <2>1, <2>2, Zenon
<1>4. \A b \in Actor : jump'[b] = "list" <=> jump[b] = "list" /\ b # a
  BY <1>2, <1>3, Zenon
<1>5. ASSUME NEW u \in Tpage PROVE FlightOk(u)'
  <2>1. FlightOk(u)
    BY Zenon DEF FlightInv, FlightOk
  <2>2. CASE u # t
    <3>1. a \notin Loaders(u)
      BY <2>2, Zenon DEF Loaders
    <3>2. Loaders(u)' = Loaders(u)
      BY <1>4, <2>2, Zenon DEF Loaders
    <3>3. \A b \in Loaders(u) : b = hand => b = hand'
      BY <3>1, Zenon
    <3>4. QED
      BY <1>1, <2>1, <2>2, <3>2, <3>3, FlightKept, Zenon
  <2>3. CASE u = t
    <3>1. Loaders(t) = {a}
      <4>1. a \in Loaders(t)
        BY Zenon DEF Loaders
      <4>2. CASE cache.flying[t]
        BY <2>1, <2>3, <4>1, <4>2, Zenon DEF FlightOk
      <4>3. CASE ~cache.flying[t]
        BY <2>1, <2>3, <4>1, <4>3, Zenon DEF FlightOk
      <4>4. QED
        BY <4>2, <4>3, Zenon
    <3>2. Loaders(t)' = {}
      <4>1. \A b \in Actor : b # a => ~(jump[b] = "list" /\ PageOf(b) = t)
        BY <3>1 DEF Loaders
      <4>2. QED
        BY <1>4, <4>1, Zenon DEF Loaders
    <3>3. cache'.retry_q[t] = <<>> /\ ~cache'.flying[t]
      BY <1>1, <2>1, <2>3, Zenon DEF FlightOk
    <3>4. Elems(cache'.retry_q[t]) = {}
      BY <3>3, EmptyElems, Zenon
    <3>5. QED
      BY <2>3, <3>2, <3>3, <3>4, Zenon DEF FlightOk
  <2>4. QED
    BY <2>2, <2>3, Zenon
<1>6. QED
  BY <1>5, Zenon DEF FlightInv, FlightOk

\* Those whom cg_list_up releases are the ones who wait for page t.
LEMMA ReleasedFacts ==
  ASSUME Types, FlightInv, PlaceInv, NEW t \in Tpage, cache' = ListedUp(t)
  PROVE  /\ Released(t) \in Seq(Actor) /\ Distinct(Released(t))
         /\ \A b \in Elems(Released(t)) : b \in Actor /\ Waits(b)
         /\ \A b : Waits(b)' <=> Waits(b) /\ b \notin Elems(Released(t))
         /\ \A u \in Tpage : Distinct(cache.retry_q[u])'
<1>1. /\ \A u \in Tpage : u # t => cache'.retry_q[u] = cache.retry_q[u]
      /\ cache'.retry_q[t] = IF cache.flying[t] THEN <<>> ELSE cache.retry_q[t]
  BY ListedCache, Zenon DEF Types
<1>2. /\ cache.retry_q[t] \in Seq(Actor) /\ \A u \in Tpage : Distinct(cache.retry_q[u])
      /\ \A u \in Tpage : Elems(cache.retry_q[u]) \subseteq Actor
  BY DEF Types, CacheType, Cache, PlaceInv, Elems
<1>3. \A u \in Tpage : \A a \in Elems(cache.retry_q[u]) : PageOf(a) = u
  BY Zenon DEF FlightInv
<1>4. CASE cache.flying[t]
  <2>1. Released(t) = cache.retry_q[t] /\ cache'.retry_q[t] = <<>>
    BY <1>1, <1>4, Zenon DEF Released
  <2>2. Elems(cache'.retry_q[t]) = {} /\ Distinct(cache'.retry_q[t])
    BY <2>1, EmptyElems, Zenon
  <2>3. \A b : Waits(b)' <=> \E u \in Tpage : u # t /\ b \in Elems(cache.retry_q[u])
    BY <1>1, <2>2, Zenon DEF Waits
  <2>4. \A b : Waits(b)' <=> Waits(b) /\ b \notin Elems(cache.retry_q[t])
    BY <1>3, <2>3 DEF Waits
  <2>5. \A u \in Tpage : Distinct(cache.retry_q[u])'
    BY <1>1, <1>2, <2>2, Zenon
  <2>6. QED
    BY <1>2, <2>1, <2>4, <2>5, Zenon DEF Waits
<1>5. CASE ~cache.flying[t]
  <2>1. Released(t) = <<>> /\ \A u \in Tpage : cache'.retry_q[u] = cache.retry_q[u]
    BY <1>1, <1>5, Zenon DEF Released
  <2>2. Elems(Released(t)) = {} /\ Distinct(Released(t)) /\ Released(t) \in Seq(Actor)
    BY <2>1, EmptyElems
  <2>3. \A b : Waits(b)' <=> Waits(b)
    BY <2>1, Zenon DEF Waits
  <2>4. QED
    BY <1>2, <2>1, <2>2, <2>3, Zenon
<1>6. QED
  BY <1>4, <1>5, Zenon

\* A lower layer that answers in the caller: nobody else is on its way when a lists a
\* page, and a dirty victim is on flash then.
LEMMA SyncList ==
  ASSUME Types, PlaceInv, JumpInv, FlightInv, SyncInv, UNCHANGED <<lasync, table, pm>>,
         NEW t \in Tpage, cache' = ListedUp(t),
         NEW a \in Actor, Active(a), \A b \in Actor \ {a} : b \notin Elems(Released(t)) => Stays(b),
         a \in Readers => pm = "idle",
         a \in Keys => PageOf(a)' = t
  PROVE  SyncInv'
<1>1. SUFFICES ASSUME ~lasync
      PROVE  /\ \A b, c \in Actor : Active(b)' /\ Active(c)' => b = c
             /\ pm' # "idle" => \A r \in Readers : AtRest(r)'
             /\ \A k \in Keys : Listed(k)'
             /\ \A l \in Lpa : table'[l] # None =>
                  \/ cache'.t_ppa[IDX(l)]
                  \/ IsHit(IDX(l))' /\ cache'.dirty[IDX(l)]
  BY Zenon DEF SyncInv, Listed
<1>2. /\ \A b, c \in Actor : Active(b) /\ Active(c) => b = c
      /\ pm # "idle" => \A r \in Readers : AtRest(r)
      /\ \A l \in Lpa : table[l] # None =>
           \/ cache.t_ppa[IDX(l)]
           \/ IsHit(IDX(l)) /\ cache.dirty[IDX(l)]
  BY <1>1, Zenon DEF SyncInv
<1>3. /\ IsHit(t)'
      /\ \A u \in Tpage : IsHit(u) /\ cache.dirty[u] =>
            cache'.t_ppa[u] \/ (IsHit(u)' /\ cache'.dirty[u])
      /\ \A u \in Tpage : cache.t_ppa[u] => cache'.t_ppa[u]
  BY ListedCache, Zenon DEF Types
<1>4. Elems(Released(t)) = {}
  <2>1. cache.retry_q[t] = <<>>
    BY <1>1, NobodyWaits, Zenon
  <2>2. QED
    BY <2>1, EmptyElems, Zenon DEF Released
<1>5. ASSUME NEW b \in Actor \ {a} PROVE Stays(b) /\ ~Active(b) /\ ~Active(b)'
  <2>1. Stays(b)
    BY <1>4, Zenon
  <2>2. ~Active(b)
    BY <1>2, Zenon
  <2>3. QED
    BY <2>1, <2>2, Zenon DEF Stays, Active
<1>6. \A b, c \in Actor : Active(b)' /\ Active(c)' => b = c
  BY <1>5, Zenon
<1>7. pm' # "idle" => \A r \in Readers : AtRest(r)'
  <2>1. \A r \in Readers \ {a} : AtRest(r)' <=> AtRest(r)
    BY <1>5, Zenon DEF Stays, Actor
  <2>2. QED
    BY <1>2, <2>1, Zenon
<1>8. ASSUME NEW k \in Keys PROVE Listed(k)'
  <2>1. CASE k = a
    BY <1>3, <2>1, Zenon DEF Listed
  <2>2. CASE k # a
    <3>1. k \in Actor /\ Stays(k) /\ ~Active(k)
      BY <1>5, <2>2, Zenon DEF Actor
    <3>2. jump[k] = "none" /\ k \notin Who(lq)
      BY <3>1, Exclusive, Zenon DEF JumpInv, Active
    <3>3. QED
      BY <3>1, <3>2, Zenon DEF Stays, Listed
  <2>3. QED
    BY <2>1, <2>2, Zenon
<1>9. ASSUME NEW l \in Lpa, table'[l] # None
      PROVE  \/ cache'.t_ppa[IDX(l)]
             \/ IsHit(IDX(l))' /\ cache'.dirty[IDX(l)]
  <2>1. IDX(l) \in Tpage
    BY PageRange, Zenon
  <2>2. QED
    BY <1>2, <1>3, <1>9, <2>1, Zenon
<1>10. QED
  BY <1>6, <1>7, <1>8, <1>9, Zenon

-----------------------------------------------------------------------------
(* Reads.                                                                  *)

\* A new read.
LEMMA NewReadKeeps ==
  ASSUME IInv, After, lasync \/ lq = <<>>, NEW r \in Readers, NEW k \in Keys, NewRead(r, k)
  PROVE  IInv'
<1>0. /\ Types /\ PlaceInv /\ JumpInv /\ LowerInv /\ FlightInv /\ SyncInv /\ NoFault
      /\ r \in Actor /\ r \notin Keys
  BY NobodyIsNone, Zenon DEF IInv, Actor
<1>1. /\ pm = "idle" /\ retry = <<>> /\ want[r] = None
      /\ want' = [want EXCEPT ![r] = k] /\ retry' = <<r>>
      /\ UNCHANGED <<table, wb, pm, req, hand, master, wbretry, htable, updated, max_try>>
      /\ UNCHANGED <<cnt, jump, cache, lq, fault>>
  BY Zenon DEF NewRead, fvars
<1>2. /\ FlushType' /\ TableInv' /\ FlushInv' /\ UNCHANGED <<known, lasync>>
      /\ \A b \in Keys : AtRest(b)' <=> AtRest(b)
  BY <1>0, <1>1, QuietFrame, Zenon DEF Types, FlushType
<1>3. retry' \in Seq(Readers) /\ Elems(retry') = {r} /\ Distinct(retry') /\ Elems(retry) = {}
  <2>1. <<r>> \in Seq(Readers) /\ Len(<<r>>) = 1 /\ <<r>>[1] = r
    OBVIOUS
  <2>2. QED
    BY <1>1, <2>1, EmptyElems DEF Elems, Distinct
<1>4. want' \in [Readers -> Keys \cup {None}]
  BY <1>0, <1>1, Zenon DEF Types, ActorType
<1>5. Types'
  BY <1>0, <1>1, <1>2, <1>3, <1>4, Zenon DEF Types, QueueType, ActorType, CacheType
<1>6. AtRest(r) /\ ~AtRest(r)' /\ want'[r] = k /\ \A b \in Readers : b # r => want'[b] = want[b]
  BY <1>0, <1>1, NobodyIsNone, Zenon DEF AtRest, Types, ActorType, Actor
<1>7. /\ \A u : IsHit(u)' <=> IsHit(u)
      /\ \A b : Waits(b)' <=> Waits(b)
  BY <1>1, Zenon DEF IsHit, Waits
<1>8. ASSUME NEW b \in Actor \ {r} PROVE Stays(b)
  <2>1. AtRest(b)' <=> AtRest(b)
    BY <1>1, <1>6, AtRestSame, Zenon
  <2>2. PageOf(b)' = PageOf(b)
    BY <1>1, <1>6, Zenon DEF PageOf
  <2>3. QED
    BY <1>1, <1>3, <1>7, <2>1, <2>2, Zenon DEF Stays
<1>9. jump[r] = "none" /\ ~Waits(r) /\ r \notin Elems(wbretry)
  BY <1>0, <1>6, Exclusive, Zenon DEF JumpInv
<1>10. Spots(r)' = 1
  BY <1>0, <1>1, <1>3, <1>6, <1>7, Exclusive DEF Spots, Truth
<1>11. JumpOk(r)'
  BY <1>1, <1>7, <1>9, Zenon DEF JumpOk
<1>12. PlaceInv' /\ JumpInv'
  <2>1. QueueType' /\ max_try' \in Nat /\ max_try' >= max_try
    BY <1>1, <1>5 DEF Types, FlushType
  <2>2. /\ Distinct(wbretry)' /\ Distinct(master)' /\ DistinctWho(lq)'
        /\ \A t \in Tpage : Distinct(cache.retry_q[t])'
    BY <1>0, <1>1, Zenon DEF PlaceInv
  <2>3. \A b \in Actor : Stays(b) \/ (Spots(b)' = 1 /\ JumpOk(b)')
    BY <1>8, <1>10, <1>11, Zenon
  <2>4. QED
    BY <1>0, <1>3, <2>1, <2>2, <2>3, SomeMove, Zenon
<1>13. LowerInv'
  BY <1>0, <1>1, <1>5, LowerSame, Zenon DEF Types
<1>14. FlightInv'
  <2>1. ASSUME NEW a \in Actor, jump[a] = "list" \/ Waits(a) PROVE PageOf(a)' = PageOf(a)
    <3>1. a # r
      BY <1>9, <2>1, Zenon
    <3>2. QED
      BY <1>1, <1>6, <3>1, Zenon DEF PageOf
  <2>2. QED
    BY <1>0, <1>1, <1>7, <2>1, FlightSame, Zenon
<1>15. SyncInv'
  <2>1. ASSUME ~lasync, NEW b \in Actor PROVE ~Active(b)
    BY <1>1, <2>1, AllAtRest, Zenon DEF Active
  <2>2. QED
    BY <1>0, <1>1, <1>2, <1>7, <1>8, <2>1, SyncSame, Zenon
<1>16. QED
  BY <1>0, <1>1, <1>2, <1>5, <1>12, <1>13, <1>14, <1>15, Zenon DEF IInv, NoFault

\* p_main serves request r, which goes to one other place.
LEMMA ServeFrame ==
  ASSUME IInv, After, NEW r, Serve(r, <<>>, <<>>),
         \A b \in Actor \ {r} :
           /\ jump'[b] = jump[b] /\ cnt'[b] = cnt[b] /\ (b \in Readers => want'[b] = want[b])
           /\ (b \in Who(lq))' <=> b \in Who(lq)
           /\ Waits(b)' <=> Waits(b)
  PROVE  /\ r \in Readers /\ r \in Actor /\ r \notin Keys /\ r \in Elems(retry)
         /\ pm = "idle" /\ retry' \in Seq(Readers) /\ Distinct(retry)' /\ r \notin Elems(retry')
         /\ ~AtRest(r) /\ ~Waits(r) /\ r \notin Who(lq) /\ r \notin Elems(wbretry)
         /\ r \notin Elems(master) /\ r # hand
         /\ UNCHANGED <<table, wb, pm, req, hand, master, wbretry, htable, updated, max_try>>
         /\ fault' = fault /\ UNCHANGED <<known, lasync>>
         /\ FlushType' /\ TableInv' /\ FlushInv'
         /\ \A b \in Actor \ {r} : Stays(b)
<1>0. Types /\ PlaceInv /\ JumpInv
  BY Zenon DEF IInv
<1>1. /\ pm = "idle" /\ fault' = fault
      /\ UNCHANGED <<table, wb, pm, req, hand, master, wbretry, htable, updated, max_try>>
  BY Zenon DEF Serve, fvars
<1>2. /\ r \in Readers /\ r \in Elems(retry) /\ retry' \in Seq(Readers) /\ Distinct(retry')
      /\ \A b : b \in Elems(retry') <=> b \in Elems(retry) /\ b # r
  <2> DEFINE e == <<>>
  <2>1. /\ e \in Seq(Readers) /\ Distinct(e) /\ Elems(e) = {} /\ e = <<>>
        /\ Serve(r, e, e) /\ Elems(e) \cap Elems(retry) = {}
    BY EmptyElems
  <2> HIDE DEF e
  <2>2. /\ r \in Readers /\ r \in Elems(retry) /\ retry' \in Seq(Readers) /\ Distinct(retry')
        /\ \A b : b \in Elems(retry') <=> \/ b \in Elems(retry) /\ b # r
                                          \/ e # <<>> /\ b = r
                                          \/ b \in Elems(e)
    <3>1. QueueType /\ Distinct(retry)
      BY <1>0, Zenon DEF Types, PlaceInv
    <3>2. QED
      BY <2>1, <3>1, ServeRetry, ZenonT(40)
  <2>3. QED
    BY <2>1, <2>2, Zenon
<1>3. r \in Actor /\ r \notin Keys
  BY <1>2, NobodyIsNone, Zenon DEF Actor
<1>4. /\ ~AtRest(r) /\ ~Waits(r) /\ r \notin Who(lq) /\ r \notin Elems(wbretry)
      /\ r \notin Elems(master) /\ r # hand
  BY <1>0, <1>2, <1>3, Exclusive, Zenon
<1>5. \A k \in Keys : cnt'[k] = cnt[k] /\ jump'[k] = jump[k]
  BY <1>3, Zenon DEF Actor
<1>6. FlushType' /\ TableInv' /\ FlushInv' /\ UNCHANGED <<known, lasync>>
  BY <1>0, <1>1, <1>5, QuietFrame, Zenon DEF Types, FlushType
<1>7. ASSUME NEW b \in Actor \ {r} PROVE Stays(b)
  <2>1. AtRest(b)' <=> AtRest(b)
    BY <1>1, AtRestSame, Zenon
  <2>2. PageOf(b)' = PageOf(b)
    BY <1>1, Zenon DEF PageOf
  <2>3. QED
    BY <1>1, <1>2, <2>1, <2>2, Zenon DEF Stays
<1>8. QED
  BY <1>1, <1>2, <1>3, <1>4, <1>6, <1>7, Zenon

\* The request ends and its slot is free.
LEMMA EndReadFacts ==
  ASSUME ActorType, NEW r \in Readers, EndRead(r)
  PROVE  /\ want'[r] = None /\ cnt'[r] = 0 /\ jump'[r] = "none" /\ ActorType'
         /\ \A b \in Actor \ {r} : jump'[b] = jump[b] /\ cnt'[b] = cnt[b]
         /\ \A b \in Readers \ {r} : want'[b] = want[b]
BY Zenon DEF EndRead, ActorType, Actor

\* A read ends at p_main.
LEMMA ReadEndsKeeps ==
  ASSUME IInv, After, NEW r \in Readers, ReadEnds(r)
  PROVE  IInv'
<1>0. Types /\ PlaceInv /\ JumpInv /\ LowerInv /\ FlightInv /\ SyncInv /\ NoFault
  BY Zenon DEF IInv
<1>1. /\ Serve(r, <<>>, <<>>) /\ EndRead(r) /\ UNCHANGED <<cache, lq>>
      /\ cnt[r] > max_try \/ jump[r] = "none"
  BY Zenon DEF ReadEnds
<1>2. /\ want'[r] = None /\ cnt'[r] = 0 /\ jump'[r] = "none" /\ ActorType'
      /\ \A b \in Actor \ {r} : jump'[b] = jump[b] /\ cnt'[b] = cnt[b]
      /\ \A b \in Readers \ {r} : want'[b] = want[b]
  BY <1>0, <1>1, EndReadFacts, Zenon DEF Types
<1>3. (\A u : IsHit(u)' <=> IsHit(u)) /\ (\A b : Waits(b)' <=> Waits(b))
  BY <1>1, Zenon DEF IsHit, Waits
<1>4. /\ r \in Readers /\ r \in Actor /\ r \notin Keys /\ r \in Elems(retry)
      /\ pm = "idle" /\ retry' \in Seq(Readers) /\ Distinct(retry)' /\ r \notin Elems(retry')
      /\ ~AtRest(r) /\ ~Waits(r) /\ r \notin Who(lq) /\ r \notin Elems(wbretry)
      /\ r \notin Elems(master) /\ r # hand
      /\ UNCHANGED <<table, wb, pm, req, hand, master, wbretry, htable, updated, max_try>>
      /\ fault' = fault /\ UNCHANGED <<known, lasync>>
      /\ FlushType' /\ TableInv' /\ FlushInv'
      /\ \A b \in Actor \ {r} : Stays(b)
  BY <1>1, <1>2, <1>3, ServeFrame, Zenon
<1>5. Types'
  BY <1>0, <1>1, <1>2, <1>4, Zenon DEF Types, QueueType, CacheType
<1>6. AtRest(r)' /\ jump[r] = "none"
  <2>1. cnt[r] > max_try => ~(cnt[r] <= max_try)
    BY <1>0, <1>4 DEF Types, FlushType, ActorType
  <2>2. QED
    BY <1>0, <1>1, <1>2, <2>1, Zenon DEF AtRest, JumpInv
<1>7. Spots(r)' = 1 /\ JumpOk(r)'
  <2>0. /\ r \notin Elems(retry') /\ r \notin Elems(wbretry') /\ r \notin Elems(master')
        /\ r # hand' /\ r \notin Who(lq') /\ ~Waits(r)' /\ AtRest(r)'
    BY <1>1, <1>3, <1>4, <1>6, Zenon
  <2>1. Spots(r)' = 1
    BY <2>0 DEF Spots, Truth
  <2>2. JumpOk(r)'
    BY <1>2, <1>3, <1>4, Zenon DEF JumpOk
  <2>3. QED
    BY <2>1, <2>2, Zenon
<1>8. PlaceInv' /\ JumpInv'
  <2>1. QueueType' /\ max_try' \in Nat /\ max_try' >= max_try
    BY <1>4, <1>5 DEF Types, FlushType
  <2>2. /\ Distinct(wbretry)' /\ Distinct(master)' /\ DistinctWho(lq)'
        /\ \A t \in Tpage : Distinct(cache.retry_q[t])'
    BY <1>0, <1>1, <1>4, Zenon DEF PlaceInv
  <2>3. \A b \in Actor : Stays(b) \/ (Spots(b)' = 1 /\ JumpOk(b)')
    BY <1>4, <1>7, Zenon
  <2>4. Distinct(retry)'
    BY <1>4, Zenon
  <2>5. QED
    BY <1>0, <2>1, <2>2, <2>3, <2>4, SomeMove, Zenon
<1>9. LowerInv'
  <2>1. \A a \in Actor : a \in Who(lq) /\ a \in Who(lq') =>
            jump'[a] = jump[a] /\ cnt'[a] = cnt[a]
    BY <1>2, <1>4, Zenon
  <2>2. QueueType' /\ lq' = lq /\ table' = table
    BY <1>1, <1>4, <1>5, Zenon DEF Types
  <2>3. QED
    BY <1>0, <2>1, <2>2, LowerSame, Zenon
<1>10. FlightInv'
  <2>1. ASSUME NEW a \in Actor
        PROVE  /\ jump'[a] = "list" <=> jump[a] = "list"
               /\ jump[a] = "list" \/ Waits(a) => PageOf(a)' = PageOf(a)
    <3>1. CASE a = r
      BY <1>2, <1>4, <1>6, <3>1, Zenon
    <3>2. CASE a # r
      BY <1>2, <1>4, <3>2, Zenon DEF PageOf
    <3>3. QED
      BY <3>1, <3>2, Zenon
  <2>2. QED
    BY <1>0, <1>1, <1>3, <1>4, <2>1, FlightSame, Zenon
<1>11. SyncInv'
  BY <1>0, <1>1, <1>3, <1>4, <1>6, SyncSame, Zenon DEF Active
<1>12. QED
  BY <1>0, <1>4, <1>5, <1>8, <1>9, <1>10, <1>11, Zenon DEF IInv, NoFault

\* A read whose page is in the cache reads the data page, or ends.
LEMMA ReadDataKeeps ==
  ASSUME IInv, After, NEW r \in Readers, ReadData(r)
  PROVE  IInv'
<1>0. Types /\ PlaceInv /\ JumpInv /\ LowerInv /\ FlightInv /\ FlushInv /\ SyncInv /\ NoFault
  BY Zenon DEF IInv
<1>1. PICK l \in Lpa :
        /\ Serve(r, <<>>, <<>>) /\ Tries(r, l)
        /\ \/ jump[r] = "none" /\ want[r] \notin wb /\ IsHit(IDX(l))
           \/ jump[r] = "complete"
        /\ cache' = IF jump[r] = "none" THEN Touch(IDX(l)) ELSE cache
        /\ IF table[l] = None
           THEN EndRead(r) /\ lq' = lq
           ELSE /\ lq' = Append(lq, DataRead(r, l))
                /\ jump' = [jump EXCEPT ![r] = "none"]
                /\ UNCHANGED <<want, cnt>>
  BY Zenon DEF ReadData
<1>2. /\ CacheType' /\ \A u : IsHit(u)' <=> IsHit(u)
      /\ cache'.t_ppa = cache.t_ppa /\ cache'.dirty = cache.dirty
      /\ cache'.flying = cache.flying /\ cache'.retry_q = cache.retry_q
  <2>1. CASE jump[r] = "none"
    <3>1. IDX(l) \in Tpage /\ IsHit(IDX(l)) /\ cache' = Touch(IDX(l)) /\ CacheType
      BY <1>0, <1>1, <2>1, PageRange, Zenon DEF Types
    <3>2. QED
      BY <3>1, TouchCache, Zenon
  <2>2. CASE jump[r] # "none"
    <3>1. cache' = cache /\ CacheType
      BY <1>0, <1>1, <2>2, Zenon DEF Types
    <3>2. QED
      BY <3>1, Zenon DEF CacheType, IsHit
  <2>3. QED
    BY <2>1, <2>2, Zenon
<1>3. \A b : Waits(b)' <=> Waits(b)
  BY <1>2, Zenon DEF Waits
<1>4. /\ r \in Actor /\ r \in Elems(retry) /\ ~AtRest(r) /\ r \notin Who(lq) /\ r \notin Keys
      /\ pm = "idle" /\ table' = table /\ htable = {}
  <2>1. r \in Elems(retry) /\ pm = "idle" /\ table' = table
    <3>1. retry \in Seq(Readers) /\ retry # <<>> /\ r = Head(retry) /\ Distinct(retry)
      BY <1>0, <1>1, Zenon DEF Serve, Types, QueueType, PlaceInv
    <3>2. QED
      BY <1>1, <3>1, TailElems, Zenon DEF Serve
  <2>2. r \in Actor /\ r \notin Keys
    BY NobodyIsNone, Zenon DEF Actor
  <2>3. QED
    BY <1>0, <2>1, <2>2, Exclusive DEF FlushInv
<1>5. /\ jump'[r] = "none" /\ ActorType'
      /\ \A b \in Actor \ {r} : jump'[b] = jump[b] /\ cnt'[b] = cnt[b]
      /\ \A b \in Readers \ {r} : want'[b] = want[b]
  <2>1. CASE table[l] = None
    BY <1>0, <1>1, <2>1, EndReadFacts, Zenon DEF Types
  <2>2. CASE table[l] # None
    BY <1>0, <1>1, <1>4, <2>2, Zenon DEF Types, ActorType
  <2>3. QED
    BY <2>1, <2>2, Zenon
<1>6. /\ lq' \in Seq(LowerOp) /\ DistinctWho(lq)'
      /\ \A o \in Elems(lq') : o \in Elems(lq) \/ OpOk(o)'
      /\ \A b \in Actor \ {r} : b \in Who(lq') <=> b \in Who(lq)
      /\ \/ AtRest(r)' /\ r \notin Who(lq')
         \/ ~AtRest(r)' /\ r \in Who(lq')
  <2>0. lq \in Seq(LowerOp) /\ DistinctWho(lq)
    BY <1>0, Zenon DEF Types, QueueType, PlaceInv
  <2>1. CASE table[l] = None
    <3>1. lq' = lq /\ want'[r] = None
      BY <1>0, <1>1, <2>1, Zenon DEF EndRead, Types, ActorType
    <3>2. QED
      BY <1>4, <2>0, <3>1, Zenon DEF AtRest
  <2>2. CASE table[l] # None
    <3>1. PICK o \in LowerOp : o = Op("datar", r, table[l])
      BY <1>0, <1>4, <2>2, Zenon DEF Op, LowerOp, Types, FlushType
    <3>2. /\ o.who = r /\ o.type = "datar" /\ o.key = table[l]
          /\ lq' = Append(lq, o) /\ want' = want
      BY <1>1, <1>4, <2>2, <3>1, Zenon DEF Op, DataRead
    <3>3. /\ lq' \in Seq(LowerOp) /\ DistinctWho(lq')
          /\ Elems(lq') = Elems(lq) \cup {o} /\ Who(lq') = Who(lq) \cup {r}
      BY <1>4, <2>0, <3>2, AppendWho, Zenon
    <3>4. OpOk(o)'
      BY <1>4, <1>5, <2>2, <3>2, Zenon DEF OpOk
    <3>5. ~AtRest(r)'
      BY <1>4, <3>2, Zenon DEF AtRest
    <3>6. QED
      BY <3>3, <3>4, <3>5, Zenon
  <2>3. QED
    BY <2>1, <2>2, Zenon
<1>7. /\ r \in Readers /\ r \in Actor /\ r \notin Keys /\ r \in Elems(retry)
      /\ pm = "idle" /\ retry' \in Seq(Readers) /\ Distinct(retry)' /\ r \notin Elems(retry')
      /\ ~AtRest(r) /\ ~Waits(r) /\ r \notin Who(lq) /\ r \notin Elems(wbretry)
      /\ r \notin Elems(master) /\ r # hand
      /\ UNCHANGED <<table, wb, pm, req, hand, master, wbretry, htable, updated, max_try>>
      /\ fault' = fault /\ UNCHANGED <<known, lasync>>
      /\ FlushType' /\ TableInv' /\ FlushInv'
      /\ \A b \in Actor \ {r} : Stays(b)
  BY <1>1, <1>3, <1>5, <1>6, ServeFrame, Zenon
<1>8. Types'
  BY <1>0, <1>2, <1>5, <1>6, <1>7, Zenon DEF Types, QueueType
<1>9. Spots(r)' = 1 /\ JumpOk(r)'
  <2>1. Spots(r)' = 1
    BY <1>3, <1>6, <1>7 DEF Spots, Truth
  <2>2. JumpOk(r)'
    BY <1>3, <1>5, <1>7, Zenon DEF JumpOk
  <2>3. QED
    BY <2>1, <2>2, Zenon
<1>10. PlaceInv' /\ JumpInv'
  <2>1. QueueType' /\ max_try' \in Nat /\ max_try' >= max_try
    BY <1>7, <1>8 DEF Types, FlushType
  <2>2. /\ Distinct(wbretry)' /\ Distinct(master)' /\ DistinctWho(lq)' /\ Distinct(retry)'
        /\ \A t \in Tpage : Distinct(cache.retry_q[t])'
    BY <1>0, <1>2, <1>6, <1>7, Zenon DEF PlaceInv
  <2>3. \A b \in Actor : Stays(b) \/ (Spots(b)' = 1 /\ JumpOk(b)')
    BY <1>7, <1>9, Zenon
  <2>4. QED
    BY <1>0, <2>1, <2>2, <2>3, SomeMove, Zenon
<1>11. LowerInv'
  <2>1. \A a \in Actor : a \in Who(lq) /\ a \in Who(lq') =>
            jump'[a] = jump[a] /\ cnt'[a] = cnt[a]
    BY <1>4, <1>5, Zenon
  <2>2. QueueType' /\ table' = table /\ \A o \in Elems(lq') : o \in Elems(lq) \/ OpOk(o)'
    BY <1>6, <1>7, <1>8, Zenon DEF Types
  <2>3. QED
    BY <1>0, <2>1, <2>2, LowerSame, Zenon
<1>12. FlightInv'
  <2>1. ASSUME NEW a \in Actor
        PROVE  /\ jump'[a] = "list" <=> jump[a] = "list"
               /\ jump[a] = "list" \/ Waits(a) => PageOf(a)' = PageOf(a)
    <3>1. CASE a = r
      BY <1>1, <1>5, <1>7, <3>1, Zenon
    <3>2. CASE a # r
      BY <1>5, <1>7, <3>2, Zenon DEF PageOf
    <3>3. QED
      BY <3>1, <3>2, Zenon
  <2>2. QED
    BY <1>0, <1>2, <1>7, <2>1, FlightSame, Zenon
<1>13. SyncInv'
  <2>1. Active(r)
    BY <1>7, Zenon DEF Active
  <2>2. QED
    BY <1>0, <1>2, <1>7, <2>1, SyncSame, Zenon
<1>14. QED
  BY <1>0, <1>7, <1>8, <1>10, <1>11, <1>12, <1>13, Zenon DEF IInv, NoFault

\* One more waits for page t.
LEMMA OneWaits ==
  ASSUME Types, NEW t \in Tpage, NEW a \in Actor, cache' = Waiting(a, t), ~Waits(a),
         \A u \in Tpage : Distinct(cache.retry_q[u])
  PROVE  /\ \A b : Waits(b)' <=> Waits(b) \/ b = a
         /\ \A u \in Tpage : Distinct(cache.retry_q[u])'
<1>1. /\ cache'.retry_q[t] = Append(cache.retry_q[t], a)
      /\ \A u \in Tpage : u # t => cache'.retry_q[u] = cache.retry_q[u]
  BY WaitingCache, Zenon DEF Types
<1>2. cache.retry_q[t] \in Seq(Actor) /\ a \notin Elems(cache.retry_q[t])
  BY Zenon DEF Types, CacheType, Cache, Waits
<1>3. Elems(cache'.retry_q[t]) = Elems(cache.retry_q[t]) \cup {a} /\ Distinct(cache'.retry_q[t])
  BY <1>1, <1>2, AppendElems
<1>4. QED
  BY <1>1, <1>3, Zenon DEF Waits

\* While p_main flushes nothing, buffer entries ask for nothing.
LEMMA KeysAtRest ==
  ASSUME JumpInv, pm # "flush", NEW k \in Keys
  PROVE  AtRest(k) /\ jump[k] = "none"
<1>1. AtRest(k) /\ k \in Actor
  BY NobodyIsNone, Zenon DEF AtRest, Actor
<1>2. QED
  BY <1>1, Zenon DEF JumpInv

\* A read whose page is not in the cache waits for it, or asks for it.
LEMMA ReadMissKeeps ==
  ASSUME IInv, After, NEW r \in Readers, ReadMiss(r)
  PROVE  IInv'
<1>0. Types /\ PlaceInv /\ JumpInv /\ LowerInv /\ FlightInv /\ FlushInv /\ SyncInv /\ NoFault
  BY Zenon DEF IInv
<1>1. PICK l \in Lpa :
        /\ Serve(r, <<>>, <<>>) /\ Tries(r, l)
        /\ jump[r] = "none" /\ want[r] \notin wb /\ ~IsHit(IDX(l))
        /\ IF cache.flying[IDX(l)]
           THEN cache' = Waiting(r, IDX(l)) /\ UNCHANGED <<jump, lq>>
           ELSE /\ cache.t_ppa[IDX(l)]
                /\ cache' = Loaded(IDX(l))
                /\ jump' = [jump EXCEPT ![r] = "list"]
                /\ lq' = Append(lq, Op("mapr", r, None))
        /\ UNCHANGED <<want, cnt>>
  BY Zenon DEF ReadMiss
<1>2. PICK t \in Tpage : t = IDX(l)
  BY PageRange, Zenon
<1>3. /\ r \in Actor /\ r \in Elems(retry) /\ ~AtRest(r) /\ r \notin Who(lq) /\ r \notin Keys
      /\ pm = "idle" /\ table' = table /\ ~Waits(r)
  <2>1. r \in Elems(retry) /\ pm = "idle" /\ table' = table
    <3>1. retry \in Seq(Readers) /\ retry # <<>> /\ r = Head(retry) /\ Distinct(retry)
      BY <1>0, <1>1, Zenon DEF Serve, Types, QueueType, PlaceInv
    <3>2. QED
      BY <1>1, <3>1, TailElems, Zenon DEF Serve
  <2>2. r \in Actor /\ r \notin Keys
    BY NobodyIsNone, Zenon DEF Actor
  <2>3. QED
    BY <1>0, <2>1, <2>2, Exclusive, Zenon
<1>4. /\ cnt[r] <= max_try /\ PageOf(r) = t /\ \A b : PageOf(b)' = PageOf(b)
  BY <1>1, <1>2, Zenon DEF Tries, PageOf
<1>5. \A b \in Actor : jump[b] = "list" => b \in Readers
  BY <1>0, <1>3, KeysAtRest, Zenon DEF Actor
<1>6. /\ CacheType' /\ FlightInv' /\ ActorType'
      /\ lq' \in Seq(LowerOp) /\ DistinctWho(lq)'
      /\ \A u : IsHit(u)' <=> IsHit(u)
      /\ cache'.t_ppa = cache.t_ppa /\ cache'.dirty = cache.dirty
      /\ \A u \in Tpage : Distinct(cache.retry_q[u])'
      /\ \A o \in Elems(lq') : o \in Elems(lq) \/ OpOk(o)'
      /\ \A b \in Actor \ {r} : /\ b \in Who(lq') <=> b \in Who(lq)
                                /\ Waits(b)' <=> Waits(b)
                                /\ jump'[b] = jump[b]
      /\ \/ r \in Who(lq') /\ ~Waits(r)'
         \/ r \notin Who(lq') /\ Waits(r)' /\ jump'[r] = "none"
      /\ jump'[r] # "update"
  <2>0. /\ lq \in Seq(LowerOp) /\ DistinctWho(lq) /\ CacheType
        /\ \A u \in Tpage : Distinct(cache.retry_q[u])
    BY <1>0, ZenonT(40) DEF Types, QueueType, PlaceInv
  <2>1. CASE cache.flying[t]
    <3>1. cache' = Waiting(r, t) /\ jump' = jump /\ lq' = lq
      BY <1>1, <1>2, <2>1, Zenon
    <3>2. /\ CacheType' /\ \A u : IsHit(u)' <=> IsHit(u)
          /\ cache'.t_ppa = cache.t_ppa /\ cache'.dirty = cache.dirty
      BY <1>3, <2>0, <3>1, WaitingCache, Zenon
    <3>3. /\ \A b : Waits(b)' <=> Waits(b) \/ b = r
          /\ \A u \in Tpage : Distinct(cache.retry_q[u])'
      BY <1>0, <1>3, <2>0, <3>1, OneWaits, Zenon
    <3>4. FlightInv'
      <4>1. jump[r] # "list" /\ \A b \in Loaders(t) : b \in Readers
        BY <1>1, <1>5, Zenon DEF Loaders
      <4>2. hand' = hand
        BY <1>1, Zenon DEF Serve, fvars
      <4>3. QED
        BY <1>0, <1>3, <1>4, <2>1, <3>1, <4>1, <4>2, WaitFlight, Zenon
    <3>5. ActorType'
      BY <1>0, <1>1, <3>1, Zenon DEF Types, ActorType
    <3>6. QED
      BY <1>1, <1>3, <2>0, <3>1, <3>2, <3>3, <3>4, <3>5
  <2>2. CASE ~cache.flying[t]
    <3>1. /\ cache.t_ppa[t] /\ cache' = Loaded(t) /\ jump' = [jump EXCEPT ![r] = "list"]
          /\ lq' = Append(lq, Op("mapr", r, None)) /\ ~IsHit(t)
      BY <1>1, <1>2, <2>2, Zenon
    <3>2. /\ CacheType' /\ \A u : IsHit(u)' <=> IsHit(u)
          /\ cache'.t_ppa = cache.t_ppa /\ cache'.dirty = cache.dirty
          /\ cache'.retry_q = cache.retry_q
      BY <2>0, <3>1, LoadedCache, Zenon
    <3>3. /\ \A b : Waits(b)' <=> Waits(b)
          /\ \A u \in Tpage : Distinct(cache.retry_q[u])'
      BY <2>0, <3>2, Zenon DEF Waits
    <3>4. /\ ActorType' /\ jump'[r] = "list" /\ \A b \in Actor \ {r} : jump'[b] = jump[b]
      BY <1>0, <1>1, <1>3, <3>1, Zenon DEF Types, ActorType
    <3>5. FlightInv'
      <4>1. jump[r] # "list" /\ hand' = hand
        BY <1>1, Zenon DEF Serve, fvars
      <4>2. Loaders(t) = {}
        <5>1. Loaders(t) \subseteq {hand}
          BY <1>0, <2>2, Zenon DEF FlightInv
        <5>2. \A b \in Loaders(t) : b \in Readers /\ b \in Actor
          BY <1>5, Zenon DEF Loaders
        <5>3. hand \notin Readers
          BY <1>0, NobodyIsNone, Zenon DEF Types, FlushType, Actor
        <5>4. QED
          BY <5>1, <5>2, <5>3, Zenon
      <4>3. QED
        BY <1>0, <1>3, <1>4, <2>2, <3>1, <4>1, <4>2, LoadFlight
    <3>6. PICK o \in LowerOp : o = Op("mapr", r, None)
      BY <1>3, Zenon DEF Op, LowerOp
    <3>7. o.who = r /\ o.type = "mapr" /\ lq' = Append(lq, o)
      BY <3>1, <3>6, Zenon DEF Op
    <3>8. /\ lq' \in Seq(LowerOp) /\ DistinctWho(lq')
          /\ Elems(lq') = Elems(lq) \cup {o} /\ Who(lq') = Who(lq) \cup {r}
      BY <1>3, <2>0, <3>7, AppendWho, Zenon
    <3>9. OpOk(o)'
      BY <1>3, <3>4, <3>7, Zenon DEF OpOk
    <3>10. QED
      BY <1>3, <3>2, <3>3, <3>4, <3>5, <3>8, <3>9
  <2>3. QED
    BY <2>1, <2>2, Zenon
<1>7. /\ r \notin Elems(wbretry)
      /\ pm = "idle" /\ retry' \in Seq(Readers) /\ Distinct(retry)' /\ r \notin Elems(retry')
      /\ r \notin Elems(master) /\ r # hand
      /\ UNCHANGED <<table, wb, pm, req, hand, master, wbretry, htable, updated, max_try>>
      /\ fault' = fault /\ UNCHANGED <<known, lasync>>
      /\ FlushType' /\ TableInv' /\ FlushInv'
      /\ \A b \in Actor \ {r} : Stays(b)
  <2>1. \A b \in Actor \ {r} :
          /\ jump'[b] = jump[b] /\ cnt'[b] = cnt[b] /\ (b \in Readers => want'[b] = want[b])
          /\ (b \in Who(lq))' <=> b \in Who(lq)
          /\ Waits(b)' <=> Waits(b)
    BY <1>1, <1>6, Zenon
  <2>2. Serve(r, <<>>, <<>>)
    BY <1>1, Zenon
  <2>3. QED
    BY <2>1, <2>2, ServeFrame, Zenon
<1>8. Types'
  BY <1>0, <1>6, <1>7, Zenon DEF Types, QueueType
<1>9. Spots(r)' = 1 /\ JumpOk(r)'
  <2>0. ~AtRest(r)'
    BY <1>1, <1>3, ZenonT(40) DEF AtRest
  <2>1. Spots(r)' = 1
    BY <1>6, <1>7, <2>0 DEF Spots, Truth
  <2>2. JumpOk(r)'
    BY <1>1, <1>4, <1>6, <1>7, <2>0, Zenon DEF JumpOk
  <2>3. QED
    BY <2>1, <2>2, Zenon
<1>10. PlaceInv' /\ JumpInv'
  <2>1. QueueType' /\ max_try' \in Nat /\ max_try' >= max_try
    BY <1>7, <1>8 DEF Types, FlushType
  <2>2. /\ Distinct(wbretry)' /\ Distinct(master)' /\ DistinctWho(lq)' /\ Distinct(retry)'
        /\ \A u \in Tpage : Distinct(cache.retry_q[u])'
    BY <1>0, <1>6, <1>7, Zenon DEF PlaceInv
  <2>3. \A b \in Actor : Stays(b) \/ (Spots(b)' = 1 /\ JumpOk(b)')
    BY <1>7, <1>9, Zenon
  <2>4. QED
    BY <1>0, <2>1, <2>2, <2>3, SomeMove, Zenon
<1>11. LowerInv'
  <2>1. \A a \in Actor : a \in Who(lq) /\ a \in Who(lq') =>
            jump'[a] = jump[a] /\ cnt'[a] = cnt[a]
    BY <1>1, <1>3, <1>6, Zenon
  <2>2. QueueType' /\ table' = table /\ \A o \in Elems(lq') : o \in Elems(lq) \/ OpOk(o)'
    BY <1>6, <1>7, <1>8, Zenon DEF Types
  <2>3. QED
    BY <1>0, <2>1, <2>2, LowerSame, Zenon
<1>12. SyncInv'
  <2>1. Active(r)
    BY <1>0, <1>3, Exclusive, Zenon DEF Active
  <2>2. QED
    BY <1>0, <1>3, <1>6, <1>7, <2>1, SyncSame, Zenon
<1>13. QED
  BY <1>0, <1>6, <1>7, <1>8, <1>10, <1>11, <1>12, Zenon DEF IInv, NoFault

\* A read lists the page that was read for it, and those who waited go on.
LEMMA ReadListKeeps ==
  ASSUME IInv, After, NEW r \in Readers, ReadList(r)
  PROVE  IInv'
<1>0. Types /\ PlaceInv /\ JumpInv /\ LowerInv /\ FlightInv /\ FlushInv /\ SyncInv /\ NoFault
  BY Zenon DEF IInv
<1>1. PICK l \in Lpa :
        /\ Serve(r, IF DirtyVictim THEN <<>> ELSE <<r>>, Released(IDX(l)))
        /\ Tries(r, l) /\ jump[r] = "list"
        /\ cache' = ListedUp(IDX(l))
        /\ jump' = Resumed(IDX(l), r, "complete")
        /\ lq' = IF DirtyVictim THEN Append(lq, Op("mapw", r, None)) ELSE lq
        /\ UNCHANGED <<want, cnt>>
  BY Zenon DEF ReadList
<1>2. PICK t \in Tpage : t = IDX(l)
  BY PageRange, Zenon
<1>3. /\ cache' = ListedUp(t) /\ jump' = Resumed(t, r, "complete") /\ jump[r] = "list"
      /\ cnt[r] <= max_try /\ PageOf(r) = t /\ \A b : PageOf(b)' = PageOf(b)
  BY <1>1, <1>2, Zenon DEF Tries, PageOf
<1>4. /\ pm = "idle" /\ fault' = fault
      /\ UNCHANGED <<table, wb, pm, req, hand, master, wbretry, htable, updated, max_try>>
      /\ UNCHANGED <<want, cnt>>
  BY <1>1, Zenon DEF Serve, fvars
<1>5. r \in Actor /\ r \notin Keys
  BY NobodyIsNone, Zenon DEF Actor
<1> DEFINE R == Elems(Released(t))
<1>6. /\ Released(t) \in Seq(Actor) /\ Distinct(Released(t))
      /\ \A b \in R : b \in Actor /\ Waits(b)
      /\ \A b : Waits(b)' <=> Waits(b) /\ b \notin R
      /\ \A u \in Tpage : Distinct(cache.retry_q[u])'
  BY <1>0, <1>3, ReleasedFacts, Zenon
<1>7. \A b \in R : b \in Readers /\ b \notin Elems(retry) /\ b # r /\ ~AtRest(b)
  <2>1. \A k \in Keys : ~Waits(k)
    BY <1>0, <1>4, KeysAtRest, Exclusive, Zenon DEF Actor
  <2>2. \A b \in R : b \notin Elems(retry) /\ ~AtRest(b) /\ jump[b] = "none"
    BY <1>0, <1>6, Exclusive, Zenon DEF JumpInv
  <2>3. QED
    BY <1>3, <1>6, <2>1, <2>2, Zenon DEF Actor
<1>8. Released(t) \in Seq(Readers)
  <2>1. \A i \in 1 .. Len(Released(t)) : Released(t)[i] \in R
    BY Zenon DEF Elems
  <2>2. \A i \in 1 .. Len(Released(t)) : Released(t)[i] \in Readers
    BY <1>7, <2>1, Zenon
  <2>3. QED
    BY <1>6, <2>2
<1>9. PICK h : (h = <<>> \/ h = <<r>>) /\ (h = <<>> <=> DirtyVictim) /\ Serve(r, h, Released(t))
  <2>1. <<r>> # <<>>
    OBVIOUS
  <2>2. QED
    BY <1>1, <1>2, <2>1, Zenon
<1>10. /\ r \in Elems(retry) /\ retry' \in Seq(Readers) /\ Distinct(retry)'
       /\ \A b : b \in Elems(retry') <=> \/ b \in Elems(retry) /\ b # r
                                         \/ h # <<>> /\ b = r
                                         \/ b \in R
  <2>1. QueueType /\ Distinct(retry) /\ R \cap Elems(retry) = {}
    BY <1>0, <1>7, Zenon DEF Types, PlaceInv
  <2>2. QED
    BY <1>6, <1>8, <1>9, <2>1, ServeRetry, Zenon
<1>11. /\ ~AtRest(r) /\ r \notin Who(lq) /\ ~Waits(r) /\ r \notin Elems(wbretry)
       /\ r \notin Elems(master) /\ r # hand
  BY <1>0, <1>5, <1>10, Exclusive, Zenon
<1>12. /\ \A b \in Actor : jump'[b] = IF b \in R \/ b = r THEN "complete" ELSE jump[b]
       /\ ActorType'
  <2>1. \A b \in Actor : jump'[b] = IF b \in R \/ b = r THEN "complete" ELSE jump[b]
    BY <1>3, Zenon DEF Resumed
  <2>2. jump' \in [Actor -> {"none", "list", "complete", "update"}]
    BY <1>0, <1>3, Zenon DEF Resumed, Types, ActorType
  <2>3. QED
    BY <1>0, <1>4, <2>1, <2>2, Zenon DEF Types, ActorType
<1>13. CacheType'
  BY <1>0, <1>3, ListedCache, Zenon DEF Types
<1>14. /\ lq' \in Seq(LowerOp) /\ DistinctWho(lq)'
       /\ \A o \in Elems(lq') : o \in Elems(lq) \/ OpOk(o)'
       /\ \A b \in Actor \ {r} : b \in Who(lq') <=> b \in Who(lq)
       /\ r \in Who(lq') <=> h = <<>>
  <2>0. lq \in Seq(LowerOp) /\ DistinctWho(lq)
    BY <1>0, Zenon DEF Types, QueueType, PlaceInv
  <2>1. CASE h # <<>>
    <3>1. lq' = lq
      BY <1>1, <1>9, <2>1, Zenon
    <3>2. QED
      BY <1>11, <2>0, <2>1, <3>1, Zenon
  <2>2. CASE h = <<>>
    <3>1. PICK o \in LowerOp : o = Op("mapw", r, None)
      BY <1>5, Zenon DEF Op, LowerOp
    <3>2. o.who = r /\ o.type = "mapw" /\ lq' = Append(lq, o)
      BY <1>1, <1>9, <2>2, <3>1, Zenon DEF Op
    <3>3. /\ lq' \in Seq(LowerOp) /\ DistinctWho(lq')
          /\ Elems(lq') = Elems(lq) \cup {o} /\ Who(lq') = Who(lq) \cup {r}
      BY <1>11, <2>0, <3>2, AppendWho, Zenon
    <3>4. OpOk(o)'
      BY <1>5, <1>12, <3>2, Zenon DEF OpOk
    <3>5. QED
      BY <2>2, <3>3, <3>4, Zenon
  <2>3. QED
    BY <2>1, <2>2, Zenon
<1>15. /\ FlushType' /\ TableInv' /\ FlushInv' /\ UNCHANGED <<known, lasync>>
  <2>1. \A k \in Keys : k \in Actor /\ k \notin R /\ k # r
    BY <1>5, <1>7, NobodyIsNone, Zenon DEF Actor
  <2>2. \A k \in Keys : cnt'[k] = cnt[k] /\ jump'[k] = jump[k]
    BY <1>4, <1>12, <2>1, Zenon
  <2>3. hand' \in Keys \cup {None}
    BY <1>0, <1>4, Zenon DEF Types, FlushType
  <2>4. QED
    BY <1>4, <2>2, <2>3, QuietFrame, Zenon
<1>16. Types'
  BY <1>0, <1>4, <1>10, <1>12, <1>13, <1>14, <1>15, Zenon DEF Types, QueueType
<1>17. \A b : AtRest(b)' <=> AtRest(b)
  BY <1>4, AtRestSame, Zenon
<1>18. ASSUME NEW b \in Actor \ {r}, b \notin R PROVE Stays(b)
  <2>1. /\ b \in Elems(retry') <=> b \in Elems(retry)
        /\ b \in Who(lq') <=> b \in Who(lq)
        /\ Waits(b)' <=> Waits(b)
        /\ jump'[b] = jump[b]
    BY <1>6, <1>10, <1>12, <1>14, <1>18, Zenon
  <2>2. QED
    BY <1>3, <1>4, <1>17, <2>1, Zenon DEF Stays
<1>19. Spots(r)' = 1 /\ JumpOk(r)'
  <2>1. r \in Elems(retry') <=> h # <<>>
    BY <1>7, <1>10, Zenon
  <2>2. Spots(r)' = 1
    BY <1>4, <1>6, <1>11, <1>14, <1>17, <2>1 DEF Spots, Truth
  <2>3. JumpOk(r)'
    BY <1>3, <1>4, <1>5, <1>6, <1>11, <1>12, <1>17, Zenon DEF JumpOk
  <2>4. QED
    BY <2>2, <2>3, Zenon
<1>20. ASSUME NEW b \in R PROVE Spots(b)' = 1 /\ JumpOk(b)'
  <2>1. b \in Actor /\ Waits(b) /\ b \in Readers /\ b # r /\ ~AtRest(b)
    BY <1>6, <1>7, Zenon
  <2>2. b \notin Elems(wbretry) /\ b \notin Elems(master) /\ b # hand /\ b \notin Who(lq)
    BY <1>0, <2>1, Exclusive, Zenon
  <2>3. b \in Elems(retry') /\ ~Waits(b)' /\ b \notin Who(lq') /\ jump'[b] = "complete"
    BY <1>6, <1>10, <1>12, <1>14, <2>1, <2>2, Zenon
  <2>4. cnt[b] <= max_try
    BY <1>0, <2>1, Zenon DEF JumpInv
  <2>5. Spots(b)' = 1
    BY <1>4, <1>17, <2>1, <2>2, <2>3 DEF Spots, Truth
  <2>6. JumpOk(b)'
    BY <1>4, <1>17, <2>1, <2>2, <2>3, <2>4, Zenon DEF JumpOk
  <2>7. QED
    BY <2>5, <2>6, Zenon
<1>21. PlaceInv' /\ JumpInv'
  <2>1. QueueType' /\ max_try' \in Nat /\ max_try' >= max_try
    BY <1>4, <1>16 DEF Types, FlushType
  <2>2. /\ Distinct(wbretry)' /\ Distinct(master)' /\ DistinctWho(lq)' /\ Distinct(retry)'
        /\ \A u \in Tpage : Distinct(cache.retry_q[u])'
    BY <1>0, <1>4, <1>6, <1>10, <1>14, Zenon DEF PlaceInv
  <2>3. \A b \in Actor : Stays(b) \/ (Spots(b)' = 1 /\ JumpOk(b)')
    BY <1>18, <1>19, <1>20, Zenon
  <2>4. QED
    BY <1>0, <2>1, <2>2, <2>3, SomeMove, Zenon
<1>22. LowerInv'
  <2>1. \A a \in Actor : a \in Who(lq) /\ a \in Who(lq') =>
            jump'[a] = jump[a] /\ cnt'[a] = cnt[a]
    <3>1. \A a \in Actor : a \in Who(lq) => a # r /\ a \notin R
      BY <1>0, <1>6, <1>11, Exclusive, Zenon
    <3>2. QED
      BY <1>4, <1>12, <3>1, Zenon
  <2>2. QueueType' /\ table' = table /\ \A o \in Elems(lq') : o \in Elems(lq) \/ OpOk(o)'
    BY <1>4, <1>14, <1>16, Zenon DEF Types
  <2>3. QED
    BY <1>0, <2>1, <2>2, LowerSame, Zenon
<1>23. FlightInv'
  BY <1>0, <1>3, <1>4, <1>5, ListFlight, Zenon
<1>24. SyncInv'
  <2>1. Active(r)
    BY <1>11, Zenon DEF Active
  <2>2. \A b \in Actor \ {r} : b \notin Elems(Released(t)) => Stays(b)
    BY <1>18, Zenon
  <2>3. UNCHANGED <<lasync, table, pm>>
    BY <1>4, <1>15, Zenon
  <2>4. QED
    BY <1>0, <1>3, <1>4, <1>5, <2>1, <2>2, <2>3, SyncList, Zenon
<1>25. QED
  BY <1>0, <1>4, <1>15, <1>16, <1>21, <1>22, <1>23, <1>24, Zenon DEF IInv, NoFault

-----------------------------------------------------------------------------
(* The flush.                                                              *)

\* A step that moves at most a.
LEMMA OneMoves ==
  ASSUME IInv, QueueType', ActorType', CacheType', FlushType', max_try' >= max_try,
         NEW a, \A b \in Actor \ {a} : Stays(b), a \in Actor => Spots(a)' = 1 /\ JumpOk(a)',
         Distinct(retry)', Distinct(wbretry)', Distinct(master)', DistinctWho(lq)',
         \A u \in Tpage : Distinct(cache.retry_q[u])',
         \A o \in Elems(lq') : o \in Elems(lq) \/ OpOk(o)',
         a \in Actor => a \notin Who(lq) \/ a \notin Who(lq'),
         \A l \in Lpa : table[l] # None => table'[l] = table[l]
  PROVE  Types' /\ PlaceInv' /\ JumpInv' /\ LowerInv'
<1>0. Types /\ PlaceInv /\ JumpInv /\ LowerInv
  BY Zenon DEF IInv
<1>1. Types' /\ max_try' \in Nat
  BY Zenon DEF Types, FlushType
<1>2. PlaceInv' /\ JumpInv'
  <2>1. \A b \in Actor : Stays(b) \/ (Spots(b)' = 1 /\ JumpOk(b)')
    OBVIOUS
  <2>2. QED
    BY <1>0, <1>1, <2>1, SomeMove, Zenon
<1>3. ASSUME NEW b \in Actor, b \in Who(lq), b \in Who(lq')
      PROVE  jump'[b] = jump[b] /\ cnt'[b] = cnt[b]
  <2>1. Stays(b) /\ ~AtRest(b)
    BY <1>0, <1>3, Exclusive, Zenon
  <2>2. QED
    BY <2>1, Zenon DEF Stays
<1>4. LowerInv'
  BY <1>0, <1>3, LowerSame, Zenon
<1>5. QED
  BY <1>1, <1>2, <1>4, Zenon

\* With a lower layer that answers in the caller, nobody is on its way when the loop
\* takes an entry from the queue it began with.
LEMMA NobodyActive ==
  ASSUME IInv, ~lasync, lq = <<>>, pm # "idle", hand = None, wbretry = <<>>, NEW b \in Actor
  PROVE  ~Active(b)
<1>0. Types /\ PlaceInv /\ JumpInv /\ FlightInv /\ SyncInv
  BY Zenon DEF IInv
<1>1. Who(lq) = {} /\ Elems(wbretry) = {}
  BY EmptyElems, Zenon
<1>2. \A t \in Tpage : Elems(cache.retry_q[t]) = {}
  BY <1>0, NobodyWaits, EmptyElems, Zenon
<1>3. ~Waits(b)
  BY <1>2, Zenon DEF Waits
<1>4. CASE b \in Readers
  BY <1>0, <1>4, Zenon DEF SyncInv, Active
<1>5. CASE b \in Keys
  <2>1. b \notin Elems(retry) /\ b # hand
    BY <1>0, <1>5, NobodyIsNone DEF Types, QueueType, Elems
  <2>2. QED
    BY <1>0, <1>1, <1>3, <2>1, Exclusive, Zenon DEF Active
<1>6. QED
  BY <1>4, <1>5, Zenon DEF Actor

\* The loop takes the next entry.
LEMMA FlushTakeKeeps ==
  ASSUME IInv, After, lasync \/ lq = <<>>, FlushTake
  PROVE  IInv'
<1>0. /\ Types /\ PlaceInv /\ JumpInv /\ LowerInv /\ FlightInv /\ FlushInv /\ TableInv
      /\ SyncInv /\ NoFault
  BY Zenon DEF IInv
<1>1. /\ pm = "flush" /\ hand = None
      /\ UNCHANGED <<table, wb, pm, req, htable, updated, max_try>>
      /\ UNCHANGED <<want, retry, cnt, jump, cache, lq, fault>>
  BY Zenon DEF FlushTake, rvars
<1>2. /\ wbretry \in Seq(Keys) /\ master \in Seq(Keys)
      /\ Distinct(wbretry) /\ Distinct(master)
  BY <1>0, Zenon DEF Types, QueueType, PlaceInv
<1>3. PICK a \in Keys :
        /\ hand' = a /\ wbretry' \in Seq(Keys) /\ master' \in Seq(Keys)
        /\ Distinct(wbretry') /\ Distinct(master')
        /\ \/ /\ a \in Elems(wbretry) /\ master' = master
              /\ Elems(wbretry') = Elems(wbretry) \ {a}
           \/ /\ wbretry = <<>> /\ wbretry' = wbretry /\ a \in Elems(master)
              /\ Elems(master') = Elems(master) \ {a}
  <2>1. CASE wbretry # <<>>
    <3>1. hand' = Head(wbretry) /\ wbretry' = Tail(wbretry) /\ master' = master
      BY <2>1, Zenon DEF FlushTake
    <3>2. QED
      BY <1>2, <2>1, <3>1, TailElems, Zenon
  <2>2. CASE wbretry = <<>>
    <3>1. /\ hand' = Head(master) /\ master' = Tail(master) /\ wbretry' = wbretry
          /\ master # <<>>
      BY <2>2, Zenon DEF FlushTake
    <3>2. QED
      BY <1>2, <2>2, <3>1, TailElems, Zenon
  <2>3. QED
    BY <2>1, <2>2, Zenon
<1>4. a \in Actor /\ a \notin Readers /\ a # None
  BY NobodyIsNone, Zenon DEF Actor
<1>5. /\ FlushType' /\ TableInv' /\ FlushInv' /\ UNCHANGED <<known, lasync>>
  BY <1>1, <1>3, QuietFrame, Zenon
<1>6. QueueType' /\ ActorType' /\ CacheType'
  BY <1>0, <1>1, <1>3, Zenon DEF Types, QueueType, ActorType, CacheType
<1>7. /\ \A u : IsHit(u)' <=> IsHit(u)
      /\ \A b : Waits(b)' <=> Waits(b)
      /\ \A b : PageOf(b)' = PageOf(b)
      /\ \A b : AtRest(b)' <=> AtRest(b)
  BY <1>1, AtRestSame, Zenon DEF IsHit, Waits, PageOf
<1>8. ASSUME NEW b \in Actor \ {a} PROVE Stays(b)
  <2>1. (b = hand)' <=> b = hand
    BY <1>1, <1>3, NobodyIsNone, Zenon
  <2>2. /\ b \in Elems(wbretry') <=> b \in Elems(wbretry)
        /\ b \in Elems(master') <=> b \in Elems(master)
    BY <1>3, Zenon
  <2>3. QED
    BY <1>1, <1>7, <2>1, <2>2, Zenon DEF Stays
<1>9. Spots(a)' = 1 /\ JumpOk(a)'
  <2>1. /\ ~AtRest(a) /\ a \notin Elems(retry) /\ a \notin Who(lq) /\ ~Waits(a)
        /\ ~(a \in Elems(wbretry) /\ a \in Elems(master))
    BY <1>0, <1>3, <1>4, Exclusive, Zenon
  <2>2. a \notin Elems(wbretry') /\ a \notin Elems(master')
    BY <1>3, <2>1, EmptyElems, Zenon
  <2>3. Spots(a)' = 1
    BY <1>1, <1>3, <1>7, <2>1, <2>2 DEF Spots, Truth
  <2>4. JumpOk(a)'
    BY <1>4, <1>7, <2>1, <2>2, Zenon DEF JumpOk
  <2>5. QED
    BY <2>3, <2>4, Zenon
<1>10. Types' /\ PlaceInv' /\ JumpInv' /\ LowerInv'
  <2>1. /\ Distinct(wbretry)' /\ Distinct(master)' /\ DistinctWho(lq)' /\ Distinct(retry)'
        /\ \A u \in Tpage : Distinct(cache.retry_q[u])'
    BY <1>0, <1>1, <1>3, Zenon DEF PlaceInv
  <2>2. a \notin Who(lq) /\ max_try' >= max_try /\ lq' = lq /\ table' = table
    BY <1>0, <1>1, <1>3, <1>4, Exclusive DEF Types, FlushType
  <2>3. QED
    BY <1>4, <1>5, <1>6, <1>8, <1>9, <2>1, <2>2, OneMoves, Zenon
<1>11. FlightInv'
  BY <1>0, <1>1, <1>4, <1>7, NobodyIsNone, FlightSame, Zenon
<1>12. SyncInv'
  <2>1. ASSUME ~lasync PROVE Active(a) \/ \A b \in Actor : ~Active(b)
    <3>1. CASE wbretry = <<>>
      BY <1>1, <2>1, <3>1, NobodyActive, Zenon
    <3>2. CASE wbretry # <<>>
      BY <1>0, <1>3, <1>4, <3>2, Exclusive, Zenon DEF Active
    <3>3. QED
      BY <3>1, <3>2, Zenon
  <2>2. ~lasync => Listed(a)'
    <3>1. ~lasync => Listed(a)
      BY <1>0, Zenon DEF SyncInv, Listed
    <3>2. QED
      BY <1>1, <1>7, <3>1, Zenon DEF Listed
  <2>3. QED
    BY <1>0, <1>1, <1>4, <1>5, <1>7, <1>8, <2>1, <2>2, SyncSame, Zenon
<1>13. QED
  BY <1>0, <1>1, <1>5, <1>10, <1>11, <1>12, Zenon DEF IInv, NoFault

\* The entry in hand is nowhere else.
LEMMA HandFacts ==
  ASSUME IInv, NEW k \in Keys, hand = k
  PROVE  /\ k \in Actor /\ k \notin Readers /\ k # None /\ ~AtRest(k) /\ Active(k)
         /\ k \notin Elems(retry) /\ k \notin Elems(wbretry) /\ k \notin Elems(master)
         /\ k \notin Who(lq) /\ ~Waits(k)
<1>1. k \in Actor /\ PlaceInv
  BY Zenon DEF Actor, IInv
<1>2. k \notin Readers /\ k # None
  BY <1>1, NobodyIsNone, Zenon
<1>3. QED
  BY <1>1, <1>2, Exclusive, Zenon DEF Active

\* The page is in the cache: the entry goes on.
LEMMA FlushHitKeeps ==
  ASSUME IInv, After, NEW k \in Keys, FlushHit(k)
  PROVE  IInv'
<1>0. /\ Types /\ PlaceInv /\ JumpInv /\ LowerInv /\ FlightInv /\ FlushInv /\ TableInv
      /\ SyncInv /\ NoFault
  BY Zenon DEF IInv
<1>1. PICK l \in Lpa :
        /\ InHand(k, l, "none") /\ IsHit(IDX(l)) /\ cache' = Touch(IDX(l))
        /\ jump' = [jump EXCEPT ![k] = "complete"]
        /\ FlushSame
        /\ UNCHANGED <<table, hand, master, htable, updated, max_try, cnt, lq>>
  BY Zenon DEF FlushHit
<1>2. PICK t \in Tpage : t = IDX(l)
  BY PageRange, Zenon
<1>3. /\ pm = "flush" /\ hand = k /\ jump[k] = "none" /\ IsHit(t) /\ cache' = Touch(t)
      /\ UNCHANGED <<table, wb, pm, req, hand, htable, updated, max_try>>
      /\ UNCHANGED <<want, retry, master, wbretry, cnt, lq, fault>>
  BY <1>1, <1>2, Zenon DEF InHand, FlushSame, rvars
<1>4. /\ k \in Actor /\ k \notin Readers /\ k # None /\ ~AtRest(k) /\ Active(k)
      /\ k \notin Elems(retry) /\ k \notin Elems(wbretry) /\ k \notin Elems(master)
      /\ k \notin Who(lq) /\ ~Waits(k)
  BY <1>3, HandFacts, Zenon
<1>5. PageOf(k) = t /\ \A b : PageOf(b)' = PageOf(b)
  BY <1>1, <1>2, <1>3, <1>4, Zenon DEF InHand, PageOf
<1>6. /\ jump'[k] = "complete" /\ \A b \in Actor \ {k} : jump'[b] = jump[b]
      /\ ActorType'
  BY <1>0, <1>1, <1>3, <1>4, Zenon DEF Types, ActorType
<1>7. /\ CacheType' /\ \A u : IsHit(u)' <=> IsHit(u)
      /\ cache'.t_ppa = cache.t_ppa /\ cache'.dirty = cache.dirty
      /\ cache'.flying = cache.flying /\ cache'.retry_q = cache.retry_q
  BY <1>0, <1>3, TouchCache, Zenon DEF Types
<1>8. /\ FlushType' /\ TableInv' /\ FlushInv' /\ UNCHANGED <<known, lasync>>
  <2>1. \A j \in Keys : j \in Actor
    BY Zenon DEF Actor
  <2>2. hand' \in Keys \cup {None}
    BY <1>3, Zenon
  <2>3. QED
    BY <1>3, <1>6, <2>1, <2>2, QuietFrame, Zenon
<1>9. /\ \A b : Waits(b)' <=> Waits(b)
      /\ \A b : AtRest(b)' <=> AtRest(b)
  BY <1>3, <1>7, AtRestSame, Zenon DEF Waits
<1>10. \A b \in Actor \ {k} : Stays(b)
  BY <1>3, <1>5, <1>6, <1>9, Zenon DEF Stays
<1>11. Spots(k)' = 1 /\ JumpOk(k)'
  <2>1. Spots(k)' = 1
    BY <1>3, <1>4, <1>9 DEF Spots, Truth
  <2>2. JumpOk(k)'
    BY <1>3, <1>4, <1>9, Zenon DEF JumpOk
  <2>3. QED
    BY <2>1, <2>2, Zenon
<1>12. Types' /\ PlaceInv' /\ JumpInv' /\ LowerInv'
  <2>1. /\ Distinct(wbretry)' /\ Distinct(master)' /\ DistinctWho(lq)' /\ Distinct(retry)'
        /\ \A u \in Tpage : Distinct(cache.retry_q[u])'
    BY <1>0, <1>3, <1>7, Zenon DEF PlaceInv
  <2>2. QueueType' /\ max_try' >= max_try /\ lq' = lq /\ table' = table
    BY <1>0, <1>3 DEF Types, FlushType, QueueType
  <2>3. QED
    BY <1>4, <1>6, <1>7, <1>8, <1>10, <1>11, <2>1, <2>2, OneMoves, Zenon
<1>13. FlightInv'
  BY <1>0, <1>3, <1>5, <1>6, <1>7, FlightSame, Zenon
<1>14. SyncInv'
  <2>1. Listed(k)'
    BY <1>3, <1>5, <1>7, Zenon DEF Listed
  <2>2. QED
    BY <1>0, <1>3, <1>4, <1>7, <1>8, <1>10, <2>1, SyncSame, Zenon
<1>15. QED
  BY <1>0, <1>3, <1>8, <1>12, <1>13, <1>14, Zenon DEF IInv, NoFault

\* A page that is not on flash and not in the cache is brought by the entry in hand.
LEMMA HandFlight ==
  ASSUME Types, FlightInv, NEW t \in Tpage, NEW a \in Actor, ~cache.flying[t], PageOf(a) = t,
         cache' = cache, jump' = [jump EXCEPT ![a] = "list"], jump[a] # "list",
         \A b \in Actor : PageOf(b)' = PageOf(b), hand = a, hand' = a
  PROVE  FlightInv'
<1>1. \A u : IsHit(u)' <=> IsHit(u)
  BY Zenon DEF IsHit
<1>2. jump'[a] = "list" /\ \A b \in Actor \ {a} : jump'[b] = jump[b]
  BY Zenon DEF Types, ActorType
<1>3. ASSUME NEW u \in Tpage PROVE FlightOk(u)'
  <2>1. FlightOk(u)
    BY Zenon DEF FlightInv, FlightOk
  <2>2. CASE u # t
    <3>1. Loaders(u)' = Loaders(u)
      BY <1>2, <2>2, Zenon DEF Loaders
    <3>2. QED
      BY <1>1, <2>1, <3>1, FlightKept, Zenon
  <2>3. CASE u = t
    <3>1. Loaders(t) \subseteq {hand} /\ cache.retry_q[t] = <<>>
      BY Zenon DEF FlightInv
    <3>2. Loaders(t)' \subseteq {a}
      BY <1>2, <3>1, Zenon DEF Loaders
    <3>3. Elems(cache'.retry_q[t]) = {} /\ cache'.retry_q[t] = <<>>
      BY <3>1, EmptyElems, Zenon
    <3>4. QED
      BY <2>3, <3>2, <3>3, Zenon DEF FlightOk
  <2>4. QED
    BY <2>2, <2>3, Zenon
<1>4. QED
  BY <1>3, Zenon DEF FlightInv, FlightOk

\* The page is not in the cache: the entry waits for it, asks for it, or brings it.
LEMMA FlushMissKeeps ==
  ASSUME IInv, After, NEW k \in Keys, FlushMiss(k)
  PROVE  IInv'
<1>0. /\ Types /\ PlaceInv /\ JumpInv /\ LowerInv /\ FlightInv /\ FlushInv /\ TableInv
      /\ SyncInv /\ NoFault
  BY Zenon DEF IInv
<1>1. PICK l \in Lpa :
        /\ InHand(k, l, "none") /\ ~IsHit(IDX(l))
        /\ IF cache.flying[IDX(l)]
           THEN /\ cache' = Waiting(k, IDX(l))
                /\ hand' = None /\ UNCHANGED <<jump, lq>>
           ELSE /\ jump' = [jump EXCEPT ![k] = "list"]
                /\ cache' = IF cache.t_ppa[IDX(l)] THEN Loaded(IDX(l)) ELSE cache
                /\ hand' = IF cache.t_ppa[IDX(l)] THEN None ELSE k
                /\ lq' = IF cache.t_ppa[IDX(l)] THEN Append(lq, Op("mapr", k, None)) ELSE lq
        /\ FlushSame
        /\ UNCHANGED <<table, master, htable, updated, max_try, cnt>>
  BY Zenon DEF FlushMiss
<1>2. PICK t \in Tpage : t = IDX(l)
  BY PageRange, Zenon
<1>3. /\ pm = "flush" /\ hand = k /\ jump[k] = "none" /\ ~IsHit(t)
      /\ UNCHANGED <<table, wb, pm, req, htable, updated, max_try>>
      /\ UNCHANGED <<want, retry, master, wbretry, cnt, fault>>
  BY <1>1, <1>2, Zenon DEF InHand, FlushSame, rvars
<1>4. /\ k \in Actor /\ k \notin Readers /\ k # None /\ ~AtRest(k) /\ Active(k)
      /\ k \notin Elems(retry) /\ k \notin Elems(wbretry) /\ k \notin Elems(master)
      /\ k \notin Who(lq) /\ ~Waits(k)
  BY <1>3, HandFacts, Zenon
<1>5. PageOf(k) = t /\ \A b : PageOf(b)' = PageOf(b)
  BY <1>1, <1>2, <1>3, <1>4, Zenon DEF InHand, PageOf
<1>6. /\ CacheType' /\ FlightInv' /\ ActorType'
      /\ lq' \in Seq(LowerOp) /\ DistinctWho(lq)'
      /\ \A u : IsHit(u)' <=> IsHit(u)
      /\ cache'.t_ppa = cache.t_ppa /\ cache'.dirty = cache.dirty
      /\ \A u \in Tpage : Distinct(cache.retry_q[u])'
      /\ \A o \in Elems(lq') : o \in Elems(lq) \/ OpOk(o)'
      /\ \A b \in Actor \ {k} : /\ b \in Who(lq') <=> b \in Who(lq)
                                /\ Waits(b)' <=> Waits(b)
                                /\ jump'[b] = jump[b]
      /\ \/ hand' = None /\ k \notin Who(lq') /\ Waits(k)' /\ jump'[k] = "none"
         \/ hand' = None /\ k \in Who(lq') /\ ~Waits(k)' /\ jump'[k] = "list"
         \/ hand' = k /\ k \notin Who(lq') /\ ~Waits(k)' /\ jump'[k] = "list"
  <2>0. /\ lq \in Seq(LowerOp) /\ DistinctWho(lq) /\ CacheType
        /\ \A u \in Tpage : Distinct(cache.retry_q[u])
    BY <1>0, Zenon DEF Types, QueueType, PlaceInv
  <2>1. CASE cache.flying[t]
    <3>1. cache' = Waiting(k, t) /\ jump' = jump /\ lq' = lq /\ hand' = None
      BY <1>1, <1>2, <2>1, Zenon
    <3>2. /\ CacheType' /\ \A u : IsHit(u)' <=> IsHit(u)
          /\ cache'.t_ppa = cache.t_ppa /\ cache'.dirty = cache.dirty
      BY <1>4, <2>0, <3>1, WaitingCache, Zenon
    <3>3. /\ \A b : Waits(b)' <=> Waits(b) \/ b = k
          /\ \A u \in Tpage : Distinct(cache.retry_q[u])'
      BY <1>0, <1>4, <2>0, <3>1, OneWaits, Zenon
    <3>4. FlightInv'
      BY <1>0, <1>3, <1>4, <1>5, <2>1, <3>1, WaitFlight, Zenon
    <3>5. ActorType'
      BY <1>0, <1>3, <3>1, Zenon DEF Types, ActorType
    <3>6. QED
      BY <1>3, <1>4, <2>0, <3>1, <3>2, <3>3, <3>4, <3>5, Zenon
  <2>2. CASE ~cache.flying[t] /\ cache.t_ppa[t]
    <3>1. /\ cache' = Loaded(t) /\ jump' = [jump EXCEPT ![k] = "list"] /\ hand' = None
          /\ lq' = Append(lq, Op("mapr", k, None))
      BY <1>1, <1>2, <2>2, Zenon
    <3>2. /\ CacheType' /\ \A u : IsHit(u)' <=> IsHit(u)
          /\ cache'.t_ppa = cache.t_ppa /\ cache'.dirty = cache.dirty
          /\ cache'.retry_q = cache.retry_q
      BY <2>0, <3>1, LoadedCache, Zenon
    <3>3. /\ \A b : Waits(b)' <=> Waits(b)
          /\ \A u \in Tpage : Distinct(cache.retry_q[u])'
      BY <2>0, <3>2, Zenon DEF Waits
    <3>4. /\ ActorType' /\ jump'[k] = "list" /\ \A b \in Actor \ {k} : jump'[b] = jump[b]
      BY <1>0, <1>3, <1>4, <3>1, Zenon DEF Types, ActorType
    <3>5. FlightInv'
      <4>1. Loaders(t) = {}
        <5>1. Loaders(t) \subseteq {hand}
          BY <1>0, <2>2, Zenon DEF FlightInv
        <5>2. k \notin Loaders(t)
          BY <1>3, Zenon DEF Loaders
        <5>3. QED
          BY <1>3, <5>1, <5>2, Zenon
      <4>2. QED
        BY <1>0, <1>3, <1>4, <1>5, <2>2, <3>1, <4>1, LoadFlight, Zenon
    <3>6. PICK o \in LowerOp : o = Op("mapr", k, None)
      BY <1>4, Zenon DEF Op, LowerOp
    <3>7. o.who = k /\ o.type = "mapr" /\ lq' = Append(lq, o)
      BY <3>1, <3>6, Zenon DEF Op
    <3>8. /\ lq' \in Seq(LowerOp) /\ DistinctWho(lq')
          /\ Elems(lq') = Elems(lq) \cup {o} /\ Who(lq') = Who(lq) \cup {k}
      BY <1>4, <2>0, <3>7, AppendWho, Zenon
    <3>9. OpOk(o)'
      BY <1>4, <3>4, <3>7, Zenon DEF OpOk
    <3>10. QED
      BY <1>4, <3>1, <3>2, <3>3, <3>4, <3>5, <3>8, <3>9, Zenon
  <2>3. CASE ~cache.flying[t] /\ ~cache.t_ppa[t]
    <3>1. /\ cache' = cache /\ jump' = [jump EXCEPT ![k] = "list"] /\ hand' = k /\ lq' = lq
      BY <1>1, <1>2, <2>3, Zenon
    <3>2. /\ CacheType' /\ \A u : IsHit(u)' <=> IsHit(u)
          /\ \A b : Waits(b)' <=> Waits(b)
      BY <2>0, <3>1, Zenon DEF Waits, CacheType, IsHit
    <3>3. /\ ActorType' /\ jump'[k] = "list" /\ \A b \in Actor \ {k} : jump'[b] = jump[b]
      BY <1>0, <1>3, <1>4, <3>1, Zenon DEF Types, ActorType
    <3>4. FlightInv'
      BY <1>0, <1>3, <1>4, <1>5, <2>3, <3>1, HandFlight, Zenon
    <3>5. QED
      BY <1>4, <2>0, <3>1, <3>2, <3>3, <3>4, Zenon
  <2>4. QED
    BY <2>1, <2>2, <2>3, Zenon
<1>7. /\ FlushType' /\ TableInv' /\ FlushInv' /\ UNCHANGED <<known, lasync>>
  <2>1. \A j \in Keys : j \in Actor
    BY Zenon DEF Actor
  <2>2. hand' \in Keys \cup {None} /\ \A j \in Keys : jump'[j] = "update" => jump[j] = "update"
    BY <1>3, <1>6, <2>1, Zenon
  <2>3. QED
    BY <1>3, <2>2, QuietFrame, Zenon
<1>8. \A b : AtRest(b)' <=> AtRest(b)
  BY <1>3, AtRestSame, Zenon
<1>9. ASSUME NEW b \in Actor \ {k} PROVE Stays(b)
  <2>1. (b = hand)' <=> b = hand
    BY <1>3, <1>6, NobodyIsNone, Zenon
  <2>2. QED
    BY <1>3, <1>5, <1>6, <1>8, <2>1, Zenon DEF Stays
<1>10. Spots(k)' = 1 /\ JumpOk(k)'
  <2>0. /\ ~AtRest(k)' /\ k \notin Elems(retry') /\ k \notin Elems(wbretry')
        /\ k \notin Elems(master') /\ jump'[k] # "update"
        /\ \/ k # hand' /\ k \notin Who(lq') /\ Waits(k)' /\ jump'[k] = "none"
           \/ k # hand' /\ k \in Who(lq') /\ ~Waits(k)'
           \/ k = hand' /\ k \notin Who(lq') /\ ~Waits(k)'
    BY <1>3, <1>4, <1>6, <1>8, Zenon
  <2>1. Spots(k)' = 1
    BY <2>0 DEF Spots, Truth
  <2>2. JumpOk(k)'
    BY <1>4, <2>0, Zenon DEF JumpOk
  <2>3. QED
    BY <2>1, <2>2, Zenon
<1>11. Types' /\ PlaceInv' /\ JumpInv' /\ LowerInv'
  <2>1. /\ Distinct(wbretry)' /\ Distinct(master)' /\ DistinctWho(lq)' /\ Distinct(retry)'
        /\ \A u \in Tpage : Distinct(cache.retry_q[u])'
    BY <1>0, <1>3, <1>6, ZenonT(40) DEF PlaceInv
  <2>2. QueueType' /\ max_try' >= max_try /\ table' = table
    BY <1>0, <1>3, <1>6 DEF Types, FlushType, QueueType
  <2>3. CacheType' /\ ActorType' /\ \A o \in Elems(lq') : o \in Elems(lq) \/ OpOk(o)'
    BY <1>6, Zenon
  <2>4. QED
    BY <1>4, <1>7, <1>9, <1>10, <2>1, <2>2, <2>3, OneMoves, Zenon
<1>12. SyncInv'
  <2>1. Listed(k)'
    BY <1>6, Zenon DEF Listed
  <2>2. QED
    BY <1>0, <1>3, <1>4, <1>6, <1>7, <1>9, <2>1, SyncSame, Zenon
<1>13. QED
  BY <1>0, <1>3, <1>6, <1>7, <1>11, <1>12, Zenon DEF IInv, NoFault

\* An entry lists its page, and all who waited go on with the flush: buffer entries.
LEMMA FlushListKeeps ==
  ASSUME IInv, After, NEW k \in Keys, FlushList(k)
  PROVE  IInv'
<1>0. /\ Types /\ PlaceInv /\ JumpInv /\ LowerInv /\ FlightInv /\ FlushInv /\ TableInv
      /\ SyncInv /\ NoFault
  BY Zenon DEF IInv
<1>1. PICK l \in Lpa :
        /\ InHand(k, l, "list")
        /\ cache' = ListedUp(IDX(l)) /\ jump' = Resumed(IDX(l), k, "complete")
        /\ wbretry' = wbretry \o Released(IDX(l))
        /\ lq' = IF DirtyVictim THEN Append(lq, Op("mapw", k, None)) ELSE lq
        /\ hand' = IF DirtyVictim THEN None ELSE k
        /\ UNCHANGED <<table, wb, pm, req, master, htable, updated, max_try,
                       rvars, cnt, fault>>
  BY Zenon DEF FlushList
<1>2. PICK t \in Tpage : t = IDX(l)
  BY PageRange, Zenon
<1>3. /\ pm = "flush" /\ hand = k /\ jump[k] = "list"
      /\ cache' = ListedUp(t) /\ jump' = Resumed(t, k, "complete")
      /\ wbretry' = wbretry \o Released(t)
      /\ UNCHANGED <<table, wb, pm, req, htable, updated, max_try>>
      /\ UNCHANGED <<want, retry, master, cnt, fault>>
  BY <1>1, <1>2, Zenon DEF InHand, rvars
<1>4. /\ k \in Actor /\ k \notin Readers /\ k # None /\ ~AtRest(k) /\ Active(k)
      /\ k \notin Elems(retry) /\ k \notin Elems(wbretry) /\ k \notin Elems(master)
      /\ k \notin Who(lq) /\ ~Waits(k)
  BY <1>3, HandFacts, Zenon
<1>5. PageOf(k) = t /\ \A b : PageOf(b)' = PageOf(b)
  BY <1>1, <1>2, <1>3, <1>4, Zenon DEF InHand, PageOf
<1> DEFINE R == Elems(Released(t))
<1>6. /\ Released(t) \in Seq(Actor) /\ Distinct(Released(t))
      /\ \A b \in R : b \in Actor /\ Waits(b)
      /\ \A b : Waits(b)' <=> Waits(b) /\ b \notin R
      /\ \A u \in Tpage : Distinct(cache.retry_q[u])'
  BY <1>0, <1>3, ReleasedFacts, Zenon
<1>7. \A b \in R : /\ b \in Keys /\ b \notin Elems(wbretry) /\ b # k /\ ~AtRest(b)
                   /\ jump[b] = "none"
  <2>1. \A b \in R : b \notin Elems(wbretry) /\ ~AtRest(b) /\ jump[b] = "none"
    BY <1>0, <1>6, Exclusive, Zenon DEF JumpInv
  <2>2. k \in Loaders(t)
    BY <1>3, <1>4, <1>5, Zenon DEF Loaders
  <2>3. \A b \in R : b \in Elems(cache.retry_q[t])
    BY EmptyElems, Zenon DEF Released
  <2>4. \A b \in R : b \notin Readers
    BY <1>0, <1>4, <2>2, <2>3, Zenon DEF FlightInv
  <2>5. QED
    BY <1>4, <1>6, <2>1, <2>4, Zenon DEF Actor
<1>8. Released(t) \in Seq(Keys)
  <2>1. \A i \in 1 .. Len(Released(t)) : Released(t)[i] \in R
    BY Zenon DEF Elems
  <2>2. \A i \in 1 .. Len(Released(t)) : Released(t)[i] \in Keys
    BY <1>7, <2>1, Zenon
  <2>3. QED
    BY <1>6, <2>2
<1>9. /\ wbretry' \in Seq(Keys) /\ Distinct(wbretry)'
      /\ \A b : b \in Elems(wbretry') <=> b \in Elems(wbretry) \/ b \in R
  <2> DEFINE s == Released(t)
  <2>1. /\ wbretry \in Seq(Keys) /\ Distinct(wbretry) /\ s \in Seq(Keys) /\ Distinct(s)
        /\ Elems(wbretry) \cap Elems(s) = {} /\ wbretry' = wbretry \o s /\ R = Elems(s)
    BY <1>0, <1>3, <1>6, <1>7, <1>8, Zenon DEF Types, QueueType, PlaceInv
  <2> HIDE DEF s, R
  <2>2. QED
    BY <2>1, ConcatElems
<1>10. /\ \A b \in Actor : jump'[b] = IF b \in R \/ b = k THEN "complete" ELSE jump[b]
       /\ ActorType'
  <2>1. \A b \in Actor : jump'[b] = IF b \in R \/ b = k THEN "complete" ELSE jump[b]
    BY <1>3, Zenon DEF Resumed
  <2>2. jump' \in [Actor -> {"none", "list", "complete", "update"}]
    BY <1>0, <1>3, Zenon DEF Resumed, Types, ActorType
  <2>3. QED
    BY <1>0, <1>3, <2>1, <2>2, Zenon DEF Types, ActorType
<1>11. CacheType'
  BY <1>0, <1>3, ListedCache, Zenon DEF Types
<1>12. /\ lq' \in Seq(LowerOp) /\ DistinctWho(lq)'
       /\ \A o \in Elems(lq') : o \in Elems(lq) \/ OpOk(o)'
       /\ \A b \in Actor \ {k} : b \in Who(lq') <=> b \in Who(lq)
       /\ \/ hand' = None /\ k \in Who(lq')
          \/ hand' = k /\ k \notin Who(lq')
  <2>0. lq \in Seq(LowerOp) /\ DistinctWho(lq)
    BY <1>0, Zenon DEF Types, QueueType, PlaceInv
  <2>1. CASE ~DirtyVictim
    <3>1. lq' = lq /\ hand' = k
      BY <1>1, <2>1, Zenon
    <3>2. QED
      BY <1>4, <2>0, <3>1, Zenon
  <2>2. CASE DirtyVictim
    <3>1. PICK o \in LowerOp : o = Op("mapw", k, None)
      BY <1>4, Zenon DEF Op, LowerOp
    <3>2. o.who = k /\ o.type = "mapw" /\ lq' = Append(lq, o) /\ hand' = None
      BY <1>1, <2>2, <3>1, Zenon DEF Op
    <3>3. /\ lq' \in Seq(LowerOp) /\ DistinctWho(lq')
          /\ Elems(lq') = Elems(lq) \cup {o} /\ Who(lq') = Who(lq) \cup {k}
      BY <1>4, <2>0, <3>2, AppendWho, Zenon
    <3>4. OpOk(o)'
      BY <1>4, <1>10, <3>2, Zenon DEF OpOk
    <3>5. QED
      BY <3>2, <3>3, <3>4, Zenon
  <2>3. QED
    BY <2>1, <2>2, Zenon
<1>13. /\ FlushType' /\ TableInv' /\ FlushInv' /\ UNCHANGED <<known, lasync>>
  <2>1. \A j \in Keys : j \in Actor
    BY Zenon DEF Actor
  <2>2. \A j \in Keys : cnt'[j] = cnt[j] /\ (jump'[j] = "update" => jump[j] = "update")
    BY <1>3, <1>10, <2>1, Zenon
  <2>3. hand' \in Keys \cup {None}
    BY <1>12, Zenon
  <2>4. QED
    BY <1>3, <2>2, <2>3, QuietFrame, Zenon
<1>14. Types'
  BY <1>0, <1>3, <1>9, <1>10, <1>11, <1>12, <1>13, Zenon DEF Types, QueueType
<1>15. \A b : AtRest(b)' <=> AtRest(b)
  BY <1>3, AtRestSame, Zenon
<1>16. ASSUME NEW b \in Actor \ {k}, b \notin R PROVE Stays(b)
  <2>1. /\ b \in Elems(wbretry') <=> b \in Elems(wbretry)
        /\ b \in Who(lq') <=> b \in Who(lq)
        /\ Waits(b)' <=> Waits(b)
        /\ jump'[b] = jump[b]
    BY <1>6, <1>9, <1>10, <1>12, <1>16, Zenon
  <2>2. (b = hand)' <=> b = hand
    BY <1>3, <1>12, NobodyIsNone, Zenon
  <2>3. QED
    BY <1>3, <1>5, <1>15, <2>1, <2>2, Zenon DEF Stays
<1>17. Spots(k)' = 1 /\ JumpOk(k)'
  <2>1. k \notin Elems(wbretry') /\ ~Waits(k)' /\ ~AtRest(k)'
    BY <1>4, <1>6, <1>7, <1>9, <1>15, Zenon
  <2>2. Spots(k)' = 1
    BY <1>3, <1>4, <1>12, <2>1 DEF Spots, Truth
  <2>3. JumpOk(k)'
    BY <1>3, <1>4, <2>1, Zenon DEF JumpOk
  <2>4. QED
    BY <2>2, <2>3, Zenon
<1>18. ASSUME NEW b \in R PROVE Spots(b)' = 1 /\ JumpOk(b)'
  <2>1. b \in Actor /\ Waits(b) /\ b \in Keys /\ b # k /\ ~AtRest(b) /\ b \notin Readers /\ b # None
    BY <1>6, <1>7, NobodyIsNone, Zenon
  <2>2. b \notin Elems(retry) /\ b \notin Elems(master) /\ b \notin Who(lq)
    BY <1>0, <2>1, Exclusive, Zenon
  <2>3. /\ b \in Elems(wbretry') /\ ~Waits(b)' /\ b \notin Who(lq') /\ jump'[b] = "complete"
        /\ b # hand' /\ ~AtRest(b)'
    BY <1>6, <1>9, <1>10, <1>12, <1>15, <2>1, <2>2, Zenon
  <2>4. Spots(b)' = 1
    BY <1>3, <2>2, <2>3 DEF Spots, Truth
  <2>5. JumpOk(b)'
    BY <1>3, <2>1, <2>2, <2>3, Zenon DEF JumpOk
  <2>6. QED
    BY <2>4, <2>5, Zenon
<1>19. PlaceInv' /\ JumpInv'
  <2>1. QueueType' /\ max_try' \in Nat /\ max_try' >= max_try
    BY <1>3, <1>14 DEF Types, FlushType
  <2>2. /\ Distinct(wbretry)' /\ Distinct(master)' /\ DistinctWho(lq)' /\ Distinct(retry)'
        /\ \A u \in Tpage : Distinct(cache.retry_q[u])'
    BY <1>0, <1>3, <1>6, <1>9, <1>12, Zenon DEF PlaceInv
  <2>3. \A b \in Actor : Stays(b) \/ (Spots(b)' = 1 /\ JumpOk(b)')
    BY <1>16, <1>17, <1>18, Zenon
  <2>4. QED
    BY <1>0, <2>1, <2>2, <2>3, SomeMove, Zenon
<1>20. LowerInv'
  <2>1. \A a \in Actor : a \in Who(lq) /\ a \in Who(lq') =>
            jump'[a] = jump[a] /\ cnt'[a] = cnt[a]
    <3>1. \A a \in Actor : a \in Who(lq) => a # k /\ a \notin R
      BY <1>0, <1>4, <1>6, Exclusive, Zenon
    <3>2. QED
      BY <1>3, <1>10, <3>1, Zenon
  <2>2. QueueType' /\ table' = table /\ \A o \in Elems(lq') : o \in Elems(lq) \/ OpOk(o)'
    BY <1>3, <1>12, <1>14, Zenon DEF Types
  <2>3. QED
    BY <1>0, <2>1, <2>2, LowerSame, Zenon
<1>21. FlightInv'
  BY <1>0, <1>3, <1>4, <1>5, ListFlight, Zenon
<1>22. SyncInv'
  <2>1. \A b \in Actor \ {k} : b \notin Elems(Released(t)) => Stays(b)
    BY <1>16, Zenon
  <2>2. UNCHANGED <<lasync, table, pm>>
    BY <1>3, <1>13, Zenon
  <2>3. QED
    BY <1>0, <1>3, <1>4, <1>5, <2>1, <2>2, SyncList, Zenon
<1>23. QED
  BY <1>0, <1>3, <1>13, <1>14, <1>19, <1>20, <1>21, <1>22, Zenon DEF IInv, NoFault

\* An entry that meets another key tries the next place.
LEMMA TableNext ==
  ASSUME Types, TableInv, UNCHANGED <<table, max_try, wb, known>>, NEW k \in Keys, ~AtRest(k),
         table[GetLpa(k, cnt[k])] \notin {None, k}, cnt' = [cnt EXCEPT ![k] = @ + 1],
         \A j \in Keys : AtRest(j)' <=> AtRest(j),
         \A j \in Keys : jump'[j] = "update" => jump[j] = "update" /\ j # k
  PROVE  TableInv'
<1>1. /\ \A j \in Keys : HasEntry(j)' <=> HasEntry(j)
      /\ \A j, c : Passed(j, c)' <=> Passed(j, c)
  BY Zenon DEF HasEntry, Passed
<1>2. /\ \A l, m \in Lpa : table'[l] = table'[m] /\ table'[l] # None => l = m
      /\ \A j \in Keys : HasEntry(j)' =>
           \E c \in 0 .. max_try' : table'[GetLpa(j, c)] = j /\ Passed(j, c)'
  BY <1>1, Zenon DEF TableInv
<1>3. /\ cnt'[k] = cnt[k] + 1 /\ cnt[k] \in Nat /\ \A j \in Keys : j # k => cnt'[j] = cnt[j]
  BY Zenon DEF Types, ActorType, Actor
<1>4. ASSUME NEW j \in Keys, ~AtRest(j)' PROVE Passed(j, cnt[j])'
  <2>1. Passed(j, cnt[j])
    BY <1>4, Zenon DEF TableInv
  <2>2. CASE j # k
    BY <1>3, <2>1, <2>2, Zenon DEF Passed
  <2>3. CASE j = k
    <3>1. ASSUME NEW d \in 0 .. cnt[k] + 1 - 1 PROVE table[GetLpa(k, d)] \notin {None, k}
      <4>1. d = cnt[k] \/ d \in 0 .. cnt[k] - 1
        BY <1>3
      <4>2. QED
        BY <2>1, <2>3, <4>1, Zenon DEF Passed
    <3>2. QED
      BY <1>3, <2>3, <3>1 DEF Passed
  <2>4. QED
    BY <2>2, <2>3, Zenon
<1>5. \A j \in Keys : jump'[j] = "update" => table'[GetLpa(j, cnt'[j])] = j
  BY <1>3, Zenon DEF TableInv
<1>6. known \subseteq Keys /\ \A j \in known' : j \in wb' \/ HasEntry(j)'
  BY <1>1, Zenon DEF TableInv, Types, FlushType
<1>7. QED
  BY <1>2, <1>4, <1>5, <1>6, Zenon DEF TableInv

\* wb_data_check.
LEMMA FlushCheckKeeps ==
  ASSUME IInv, After, NEW k \in Keys, FlushCheck(k)
  PROVE  IInv'
<1>0. /\ Types /\ PlaceInv /\ JumpInv /\ LowerInv /\ FlightInv /\ FlushInv /\ TableInv
      /\ SyncInv /\ NoFault
  BY Zenon DEF IInv
<1>1. PICK l \in Lpa :
        /\ InHand(k, l, "complete") /\ table[l] # None
        /\ jump' = [jump EXCEPT ![k] = "none"]
        /\ IF InThisFlush(l)
           THEN cnt' = [cnt EXCEPT ![k] = @ + 1] /\ UNCHANGED <<hand, lq>>
           ELSE /\ lq' = Append(lq, DataRead(k, l)) /\ hand' = None /\ cnt' = cnt
        /\ FlushSame
        /\ UNCHANGED <<table, master, htable, updated, max_try, cache>>
  BY Zenon DEF FlushCheck
<1>2. /\ pm = "flush" /\ hand = k /\ jump[k] = "complete" /\ l = GetLpa(k, cnt[k])
      /\ UNCHANGED <<table, wb, pm, req, htable, updated, max_try>>
      /\ UNCHANGED <<want, retry, master, wbretry, cache, fault>>
  BY <1>1, Zenon DEF InHand, FlushSame, rvars
<1>3. /\ k \in Actor /\ k \notin Readers /\ k # None /\ ~AtRest(k) /\ Active(k)
      /\ k \notin Elems(retry) /\ k \notin Elems(wbretry) /\ k \notin Elems(master)
      /\ k \notin Who(lq) /\ ~Waits(k)
  BY <1>2, HandFacts, Zenon
<1>4. /\ \A u : IsHit(u)' <=> IsHit(u)
      /\ \A b : Waits(b)' <=> Waits(b)
      /\ \A b : AtRest(b)' <=> AtRest(b)
  BY <1>2, AtRestSame, Zenon DEF IsHit, Waits
<1>5. /\ jump'[k] = "none" /\ \A b \in Actor \ {k} : jump'[b] = jump[b] /\ cnt'[b] = cnt[b]
      /\ ActorType' /\ cnt'[k] \in {cnt[k], cnt[k] + 1} /\ cnt[k] \in Nat
  <2>1. jump'[k] = "none" /\ \A b \in Actor \ {k} : jump'[b] = jump[b]
    BY <1>0, <1>1, <1>3, Zenon DEF Types, ActorType
  <2>2. jump' \in [Actor -> {"none", "list", "complete", "update"}] /\ want' = want
    BY <1>0, <1>1, <1>2, Zenon DEF Types, ActorType
  <2>3. cnt \in [Actor -> Nat] /\ (cnt' = cnt \/ cnt' = [cnt EXCEPT ![k] = @ + 1])
    BY <1>0, <1>1, Zenon DEF Types, ActorType
  <2>4. cnt' \in [Actor -> Nat] /\ \A b \in Actor \ {k} : cnt'[b] = cnt[b]
    BY <1>3, <2>3
  <2>5. cnt'[k] \in {cnt[k], cnt[k] + 1} /\ cnt[k] \in Nat
    BY <1>3, <2>3, Zenon
  <2>6. QED
    BY <1>0, <2>1, <2>2, <2>4, <2>5, Zenon DEF Types, ActorType
<1>6. known' = known /\ lasync' = lasync
  BY <1>0, <1>2, KnownSame, Zenon
<1>7. /\ hand' \in {None, k} /\ TableInv'
      /\ lq' \in Seq(LowerOp) /\ DistinctWho(lq)'
      /\ \A o \in Elems(lq') : o \in Elems(lq) \/ OpOk(o)'
      /\ \A b \in Actor \ {k} : b \in Who(lq') <=> b \in Who(lq)
      /\ \/ hand' = None /\ k \in Who(lq') /\ cnt' = cnt
         \/ hand' = k /\ k \notin Who(lq')
  <2>0. lq \in Seq(LowerOp) /\ DistinctWho(lq)
    BY <1>0, Zenon DEF Types, QueueType, PlaceInv
  <2>1. \A j \in Keys : jump'[j] = "update" => jump[j] = "update" /\ j # k
    BY <1>5, Zenon DEF Actor
  <2>2. CASE l \in htable
    <3>1. cnt' = [cnt EXCEPT ![k] = @ + 1] /\ hand' = hand /\ lq' = lq
      BY <1>1, <2>2, Zenon DEF InThisFlush
    <3>2. table[l] \in Done /\ k \notin Done
      BY <1>3, <2>2, Zenon DEF Done, AtRest
    <3>3. table[GetLpa(k, cnt[k])] \notin {None, k}
      BY <1>1, <1>2, <3>2, Zenon
    <3>4. TableInv'
      BY <1>0, <1>2, <1>3, <1>4, <1>6, <2>1, <3>1, <3>3, TableNext, Zenon
    <3>5. QED
      BY <1>2, <1>3, <2>0, <3>1, <3>4, Zenon
  <2>3. CASE l \notin htable
    <3>1. lq' = Append(lq, DataRead(k, l)) /\ hand' = None /\ cnt' = cnt
      BY <1>1, <2>3, Zenon DEF InThisFlush
    <3>2. table[l] \in Keys /\ table[l] # None
      BY <1>0, <1>1, Zenon DEF Types, FlushType
    <3>3. DataRead(k, l) = Op("datar", k, table[l])
      BY <2>3, Zenon DEF DataRead
    <3>4. PICK o \in LowerOp : o = Op("datar", k, table[l])
      BY <1>3, <3>2, Zenon DEF Op, LowerOp
    <3>5. o.who = k /\ o.type = "datar" /\ o.key = table[l] /\ lq' = Append(lq, o)
      BY <3>1, <3>3, <3>4, Zenon DEF Op
    <3>6. /\ lq' \in Seq(LowerOp) /\ DistinctWho(lq')
          /\ Elems(lq') = Elems(lq) \cup {o} /\ Who(lq') = Who(lq) \cup {k}
      BY <1>3, <2>0, <3>5, AppendWho, Zenon
    <3>7. OpOk(o)'
      BY <1>2, <1>3, <1>5, <3>1, <3>2, <3>5, Zenon DEF OpOk
    <3>8. TableInv'
      BY <1>0, <1>2, <1>4, <1>6, <2>1, <3>1, TableSame, Zenon
    <3>9. QED
      BY <3>1, <3>6, <3>7, <3>8, Zenon
  <2>4. QED
    BY <2>2, <2>3, Zenon
<1>8. FlushType' /\ FlushInv' /\ QueueType' /\ CacheType'
  <2>1. FlushType'
    BY <1>0, <1>2, <1>6, <1>7, Zenon DEF Types, FlushType
  <2>2. FlushInv'
    BY <1>0, <1>2, <1>6, FlushInvSame, Zenon
  <2>3. QED
    BY <1>0, <1>2, <1>7, <2>1, <2>2, Zenon DEF Types, QueueType, CacheType
<1>9. ASSUME NEW b \in Actor \ {k} PROVE Stays(b)
  <2>1. (b = hand)' <=> b = hand
    BY <1>2, <1>7, NobodyIsNone, Zenon
  <2>2. PageOf(b)' = PageOf(b)
    BY <1>2, <1>5, Zenon DEF PageOf
  <2>3. QED
    BY <1>2, <1>4, <1>5, <1>7, <2>1, <2>2, Zenon DEF Stays
<1>10. Spots(k)' = 1 /\ JumpOk(k)'
  <2>0. /\ ~AtRest(k)' /\ k \notin Elems(retry') /\ k \notin Elems(wbretry')
        /\ k \notin Elems(master') /\ ~Waits(k)'
        /\ \/ k # hand' /\ k \in Who(lq')
           \/ k = hand' /\ k \notin Who(lq')
    BY <1>2, <1>3, <1>4, <1>7, Zenon
  <2>1. Spots(k)' = 1
    BY <2>0 DEF Spots, Truth
  <2>2. JumpOk(k)'
    BY <1>3, <2>0, Zenon DEF JumpOk
  <2>3. QED
    BY <2>1, <2>2, Zenon
<1>11. Types' /\ PlaceInv' /\ JumpInv' /\ LowerInv'
  <2>1. /\ Distinct(wbretry)' /\ Distinct(master)' /\ DistinctWho(lq)' /\ Distinct(retry)'
        /\ \A u \in Tpage : Distinct(cache.retry_q[u])'
    BY <1>0, <1>2, <1>7, Zenon DEF PlaceInv
  <2>2. max_try' >= max_try /\ table' = table
    BY <1>0, <1>2 DEF Types, FlushType
  <2>3. \A o \in Elems(lq') : o \in Elems(lq) \/ OpOk(o)'
    BY <1>7, Zenon
  <2>4. QED
    BY <1>3, <1>5, <1>8, <1>9, <1>10, <2>1, <2>2, <2>3, OneMoves, Zenon
<1>12. FlightInv'
  <2>1. \A a \in Actor : /\ jump'[a] = "list" <=> jump[a] = "list"
                         /\ jump[a] = "list" \/ Waits(a) => PageOf(a)' = PageOf(a)
                         /\ jump[a] = "list" /\ a = hand => a = hand'
    BY <1>2, <1>3, <1>5, Zenon DEF PageOf
  <2>2. QED
    BY <1>0, <1>2, <1>4, <2>1, FlightSame, Zenon
<1>13. SyncInv'
  <2>1. ~lasync => Listed(k)'
    <3>1. ~lasync => IsHit(PageOf(k))
      BY <1>0, <1>2, Zenon DEF SyncInv
    <3>2. k \in Who(lq') => PageOf(k)' = PageOf(k)
      BY <1>2, <1>3, <1>7, Zenon DEF PageOf
    <3>3. QED
      BY <1>4, <1>5, <3>1, <3>2, Zenon DEF Listed
  <2>2. QED
    BY <1>0, <1>2, <1>3, <1>4, <1>6, <1>9, <2>1, SyncSame, Zenon
<1>14. QED
  BY <1>0, <1>2, <1>7, <1>8, <1>11, <1>12, <1>13, Zenon DEF IInv, NoFault

\* A key gets an entry at the first place that is free or its own.
LEMMA TableUpdate ==
  ASSUME Types, TableInv, NEW k \in Keys, NEW l \in Lpa, l = GetLpa(k, cnt[k]),
         table[l] = None \/ table[l] = k, Passed(k, cnt[k]),
         table' = [table EXCEPT ![l] = k], max_try' = MaxTry(cnt[k]),
         UNCHANGED <<wb, known, cnt>>, AtRest(k)', jump'[k] # "update",
         \A j \in Keys : j # k => (AtRest(j)' <=> AtRest(j)) /\ jump'[j] = jump[j]
  PROVE  TableInv'
<1>1. /\ table \in [Lpa -> Keys \cup {None}] /\ None \notin Keys /\ known \subseteq Keys
      /\ cnt[k] \in Nat /\ max_try \in Nat /\ \A j \in Keys : cnt[j] \in Nat
  BY NobodyIsNone, Zenon DEF Types, FlushType, ActorType, Actor
<1>2. table'[l] = k /\ \A m \in Lpa : m # l => table'[m] = table[m]
  BY <1>1, Zenon
<1>3. \A j \in Keys, c \in Nat : GetLpa(j, c) \in Lpa
  BY LpaRange, Zenon
<1>4. max_try' \in Nat /\ max_try' >= max_try /\ max_try' >= cnt[k]
  BY <1>1 DEF MaxTry
<1>5. ASSUME NEW m \in Lpa, table[m] = k PROVE m = l
  <2>1. HasEntry(k)
    BY <1>5, Zenon DEF HasEntry
  <2>2. PICK c \in 0 .. max_try : table[GetLpa(k, c)] = k /\ Passed(k, c)
    BY <2>1, Zenon DEF TableInv
  <2>3. c \in Nat /\ GetLpa(k, c) \in Lpa
    BY SMTT(30), <1>1, <1>3, <2>2
  <2>4. m = GetLpa(k, c)
    BY <1>1, <1>5, <2>2, <2>3 DEF TableInv
  <2>5. ~(c < cnt[k])
    <3>1. SUFFICES ASSUME c < cnt[k] PROVE FALSE
      OBVIOUS
    <3>2. c \in 0 .. cnt[k] - 1
      BY <1>1, <2>3, <3>1
    <3>3. QED
      BY <2>2, <3>2, Zenon DEF Passed
  <2>6. ~(cnt[k] < c)
    <3>1. SUFFICES ASSUME cnt[k] < c PROVE FALSE
      OBVIOUS
    <3>2. cnt[k] \in 0 .. c - 1
      BY <1>1, <2>3, <3>1
    <3>3. QED
      BY <2>2, <3>2, Zenon DEF Passed
  <2>7. c = cnt[k]
    BY <1>1, <2>3, <2>5, <2>6
  <2>8. QED
    BY <2>4, <2>7, Zenon
<1>6. \A x, y \in Lpa : table'[x] = table'[y] /\ table'[x] # None => x = y
  BY <1>2, <1>5 DEF TableInv
<1>7. ASSUME NEW j \in Keys, j # k, NEW c \in Nat, Passed(j, c) PROVE Passed(j, c)'
  <2>1. ASSUME NEW d \in 0 .. c - 1 PROVE table'[GetLpa(j, d)] \notin {None, j}
    <3>1. GetLpa(j, d) \in Lpa /\ table[GetLpa(j, d)] \notin {None, j}
      BY <1>3, <1>7 DEF Passed
    <3>2. QED
      BY <1>1, <1>2, <1>7, <3>1, Zenon
  <2>2. QED
    BY <2>1, Zenon DEF Passed
<1>8. Passed(k, cnt[k])'
  <2>1. ASSUME NEW d \in 0 .. cnt[k] - 1 PROVE table'[GetLpa(k, d)] \notin {None, k}
    <3>1. GetLpa(k, d) \in Lpa /\ table[GetLpa(k, d)] \notin {None, k}
      BY <1>1, <1>3 DEF Passed
    <3>2. QED
      BY <1>2, <3>1, Zenon
  <2>2. QED
    BY <2>1, Zenon DEF Passed
<1>9. ASSUME NEW j \in Keys, HasEntry(j)'
      PROVE  \E c \in 0 .. max_try' : table'[GetLpa(j, c)] = j /\ Passed(j, c)'
  <2>1. CASE j = k
    <3>1. cnt[k] \in 0 .. max_try' /\ table'[GetLpa(k, cnt[k])] = k /\ cnt' = cnt
      BY <1>1, <1>2, <1>4
    <3>2. PICK c \in 0 .. max_try' : c = cnt[k]
      BY <3>1, Zenon
    <3>3. table'[GetLpa(k, c)] = k /\ Passed(k, c)'
      BY <1>8, <3>1, <3>2, Zenon DEF Passed
    <3>4. QED
      BY <2>1, <3>3, Zenon
  <2>2. CASE j # k
    <3>1. HasEntry(j)
      BY <1>2, <1>9, <2>2, Zenon DEF HasEntry
    <3>2. PICK c \in 0 .. max_try : table[GetLpa(j, c)] = j /\ Passed(j, c)
      BY <3>1, Zenon DEF TableInv
    <3>3. c \in Nat /\ c \in 0 .. max_try' /\ GetLpa(j, c) \in Lpa
      BY <1>1, <1>3, <1>4
    <3>4. GetLpa(j, c) # l
      BY <1>1, <2>2, <3>2, Zenon
    <3>5. table'[GetLpa(j, c)] = j
      BY <1>2, <3>2, <3>3, <3>4, Zenon
    <3>6. Passed(j, c)'
      BY <1>7, <2>2, <3>2, <3>3, Zenon
    <3>7. QED
      BY <3>3, <3>5, <3>6, Zenon
  <2>3. QED
    BY <2>1, <2>2, Zenon
<1>10. ASSUME NEW j \in Keys, ~AtRest(j)' PROVE Passed(j, cnt[j])'
  <2>1. j # k /\ ~AtRest(j)
    BY <1>10, Zenon
  <2>2. Passed(j, cnt[j]) /\ cnt[j] \in Nat
    BY <1>1, <2>1, Zenon DEF TableInv
  <2>3. PICK c \in Nat : c = cnt[j]
    BY <2>2, Zenon
  <2>4. Passed(j, c)'
    BY <1>7, <2>1, <2>2, <2>3, Zenon
  <2>5. QED
    BY <2>3, <2>4, Zenon DEF Passed
<1>11. ASSUME NEW j \in Keys, jump'[j] = "update" PROVE table'[GetLpa(j, cnt'[j])] = j
  <2>1. j # k /\ table[GetLpa(j, cnt[j])] = j /\ GetLpa(j, cnt[j]) \in Lpa
    BY <1>1, <1>3, <1>11, Zenon DEF TableInv
  <2>2. GetLpa(j, cnt[j]) # l
    BY <1>1, <2>1, Zenon
  <2>3. QED
    BY <1>2, <2>1, <2>2, Zenon
<1>12. ASSUME NEW j \in known PROVE j \in wb' \/ HasEntry(j)'
  <2>1. \A m \in Lpa : table[m] = j => table'[m] = j
    BY <1>1, <1>2
  <2>2. QED
    BY <2>1, Zenon DEF TableInv, HasEntry
<1>13. QED
  BY <1>6, <1>9, <1>10, <1>11, <1>12, Zenon DEF TableInv

\* A step that changes nothing.
LEMMA SameKeeps ==
  ASSUME IInv, UNCHANGED vars
  PROVE  IInv'
<1>1. UNCHANGED <<table, wb, pm, req, hand, master, wbretry, htable, updated, max_try>>
  BY Zenon DEF vars, fvars
<1>2. UNCHANGED <<want, retry, cnt, jump, cache, lq, lasync, known, fault>>
  BY Zenon DEF vars, rvars
<1>3. /\ \A u : IsHit(u)' <=> IsHit(u)
      /\ \A b : Waits(b)' <=> Waits(b)
      /\ \A b : PageOf(b)' = PageOf(b)
      /\ Done' = Done
  BY <1>1, <1>2, Zenon DEF IsHit, Waits, PageOf, Done
<1>4. /\ \A b : AtRest(b)' <=> AtRest(b)
      /\ \A b : HasEntry(b)' <=> HasEntry(b)
      /\ \A b, c : Passed(b, c)' <=> Passed(b, c)
  BY <1>1, <1>2, <1>3, Zenon DEF AtRest, HasEntry, Passed
<1>5. \A b : Active(b)' <=> Active(b)
  BY <1>1, <1>4, Zenon DEF Active
<1>6. Types'
  BY <1>1, <1>2, Zenon DEF IInv, Types, FlushType, QueueType, ActorType, CacheType
<1>7. \A b \in Actor : Stays(b)
  BY <1>1, <1>2, <1>3, <1>4, Zenon DEF Stays
<1>8. PlaceInv' /\ JumpInv'
  <2>1. /\ Distinct(wbretry)' /\ Distinct(master)' /\ DistinctWho(lq)' /\ Distinct(retry)'
        /\ \A u \in Tpage : Distinct(cache.retry_q[u])'
    BY <1>1, <1>2, Zenon DEF IInv, PlaceInv
  <2>2. QueueType' /\ max_try' \in Nat /\ max_try' >= max_try
    BY <1>1, <1>6 DEF Types, FlushType
  <2>3. QED
    BY <1>7, <2>1, <2>2, SomeMove, Zenon DEF IInv
<1>9. LowerInv'
  BY <1>1, <1>2, Zenon DEF IInv, LowerInv, OpOk
<1>10. FlightInv'
  <2>1. \A t : Loaders(t)' = Loaders(t)
    BY <1>2, <1>3, Zenon DEF Loaders
  <2>2. QED
    BY <1>1, <1>2, <1>3, <2>1, Zenon DEF IInv, FlightInv
<1>11. FlushInv'
  BY <1>1, <1>2, <1>3, Zenon DEF IInv, FlushInv
<1>12. TableInv'
  BY <1>1, <1>2, <1>4, TableSame, Zenon DEF IInv
<1>13. SyncInv'
  BY <1>1, <1>2, <1>3, <1>4, <1>5, Zenon DEF IInv, SyncInv
<1>14. QED
  BY <1>2, <1>6, <1>8, <1>9, <1>10, <1>11, <1>12, <1>13, Zenon DEF IInv, NoFault

\* The loop polls its queues.
LEMMA FlushSpinKeeps ==
  ASSUME IInv, After, FlushSpin
  PROVE  IInv'
<1>1. UNCHANGED <<table, fvars, rvars, cnt, jump, cache, lq, fault>> /\ wb' = wb
  BY Zenon DEF FlushSpin, fvars
<1>2. known' = known /\ lasync' = lasync
  BY <1>1, KnownSame, Zenon DEF IInv
<1>3. QED
  BY <1>1, <1>2, SameKeeps, Zenon DEF vars

\* A queue with no elements.
LEMMA NoElems ==
  ASSUME NEW S, NEW q \in Seq(S), Elems(q) = {}
  PROVE  q = <<>>
<1>1. SUFFICES ASSUME q # <<>> PROVE FALSE
  OBVIOUS
<1>2. Len(q) \in Nat /\ Len(q) > 0
  BY <1>1
<1>3. 1 \in 1 .. Len(q)
  BY <1>2
<1>4. QED
  BY <1>3, Zenon DEF Elems

-----------------------------------------------------------------------------
(* The lower layer answers.                                                *)

\* The operation that is answered, and for whom.
LEMMA AnswerHead ==
  ASSUME IInv, lq # <<>>, lq' = Tail(lq)
  PROVE  /\ Head(lq) \in LowerOp /\ OpOk(Head(lq)) /\ lq' \in Seq(LowerOp)
         /\ DistinctWho(lq)' /\ \A o \in Elems(lq') : o \in Elems(lq)
         /\ \A b \in Actor : b \in Who(lq') <=> b \in Who(lq) /\ b # Head(lq).who
         /\ Head(lq).who \in Actor =>
              /\ Head(lq).who \in Who(lq) /\ ~AtRest(Head(lq).who) /\ Active(Head(lq).who)
              /\ Head(lq).who \notin Elems(retry) /\ Head(lq).who \notin Elems(wbretry)
              /\ Head(lq).who \notin Elems(master) /\ Head(lq).who # hand
              /\ ~Waits(Head(lq).who)
<1>1. lq \in Seq(LowerOp) /\ DistinctWho(lq) /\ PlaceInv
  BY Zenon DEF IInv, Types, QueueType, PlaceInv
<1>2. /\ Head(lq) \in LowerOp /\ Head(lq) \in Elems(lq) /\ lq' \in Seq(LowerOp)
      /\ Elems(lq') \subseteq Elems(lq) /\ DistinctWho(lq')
      /\ Head(lq).who \in Who(lq)
      /\ \A b : b # None => (b \in Who(lq') <=> b \in Who(lq) /\ b # Head(lq).who)
  BY <1>1, TailWho, Zenon
<1>3. OpOk(Head(lq))
  BY <1>2, Zenon DEF IInv, LowerInv
<1>4. PICK a : a = Head(lq).who
  OBVIOUS
<1>5. a \in Actor => /\ a \in Who(lq) /\ ~AtRest(a) /\ Active(a)
                     /\ a \notin Elems(retry) /\ a \notin Elems(wbretry)
                     /\ a \notin Elems(master) /\ a # hand /\ ~Waits(a)
  BY <1>1, <1>2, <1>4, Exclusive, Zenon DEF Active
<1>6. QED
  BY <1>2, <1>3, <1>4, <1>5, NobodyIsNone, Zenon

\* A translation page or the flushed pages: whoever waits for it is queued.
LEMMA AnswerMapKeeps ==
  ASSUME IInv, After, AnswerMap
  PROVE  IInv'
<1>0. /\ Types /\ PlaceInv /\ JumpInv /\ LowerInv /\ FlightInv /\ FlushInv /\ TableInv
      /\ SyncInv /\ NoFault
  BY Zenon DEF IInv
<1>1. PICK o : o = Head(lq)
  OBVIOUS
<1>2. PICK a : a = o.who
  OBVIOUS
<1>3. /\ lq # <<>> /\ lq' = Tail(lq) /\ o.type \in {"mapr", "mapw", "dataw"}
      /\ UNCHANGED <<table, wb, pm, req, hand, htable, updated, max_try, cache>>
      /\ retry' = IF a \in Readers THEN Append(retry, a) ELSE retry
      /\ wbretry' = IF a \in Keys THEN Append(wbretry, a) ELSE wbretry
      /\ UNCHANGED <<master, want, cnt, jump, fault>>
  BY <1>1, <1>2, Zenon DEF AnswerMap, Answer
<1>4. /\ o \in LowerOp /\ OpOk(o) /\ lq' \in Seq(LowerOp)
      /\ DistinctWho(lq)' /\ \A p \in Elems(lq') : p \in Elems(lq)
      /\ \A b \in Actor : b \in Who(lq') <=> b \in Who(lq) /\ b # a
      /\ a \in Actor => /\ a \in Who(lq) /\ ~AtRest(a) /\ Active(a)
                        /\ a \notin Elems(retry) /\ a \notin Elems(wbretry)
                        /\ a \notin Elems(master) /\ a # hand /\ ~Waits(a)
  BY <1>1, <1>2, <1>3, AnswerHead, Zenon
<1>5. a \in Actor => jump[a] \in {"list", "complete"}
  BY <1>2, <1>3, <1>4, NobodyIsNone, Zenon DEF OpOk
<1>6. \A b \in Actor : b \in Readers <=> b \notin Keys
  BY NobodyIsNone, Zenon
<1>7. /\ retry' \in Seq(Readers) /\ Distinct(retry)'
      /\ \A b : b \in Elems(retry') <=> b \in Elems(retry) \/ (a \in Readers /\ b = a)
  <2>0. retry \in Seq(Readers) /\ Distinct(retry)
    BY <1>0, Zenon DEF Types, QueueType, PlaceInv
  <2>1. CASE a \in Readers
    <3>1. retry' = Append(retry, a) /\ a \notin Elems(retry)
      BY <1>3, <1>4, <2>1, Zenon DEF Actor
    <3>2. QED
      BY <2>0, <2>1, <3>1, AppendElems
  <2>2. CASE a \notin Readers
    BY <1>3, <2>0, <2>2, Zenon
  <2>3. QED
    BY <2>1, <2>2, Zenon
<1>8. /\ wbretry' \in Seq(Keys) /\ Distinct(wbretry)'
      /\ \A b : b \in Elems(wbretry') <=> b \in Elems(wbretry) \/ (a \in Keys /\ b = a)
  <2>0. wbretry \in Seq(Keys) /\ Distinct(wbretry)
    BY <1>0, Zenon DEF Types, QueueType, PlaceInv
  <2>1. CASE a \in Keys
    <3>1. wbretry' = Append(wbretry, a) /\ a \notin Elems(wbretry)
      BY <1>3, <1>4, <2>1, Zenon DEF Actor
    <3>2. QED
      BY <2>0, <2>1, <3>1, AppendElems
  <2>2. CASE a \notin Keys
    BY <1>3, <2>0, <2>2, Zenon
  <2>3. QED
    BY <2>1, <2>2, Zenon
<1>9. /\ \A u : IsHit(u)' <=> IsHit(u)
      /\ \A b : Waits(b)' <=> Waits(b)
      /\ \A b : PageOf(b)' = PageOf(b)
      /\ \A b : AtRest(b)' <=> AtRest(b)
  BY <1>3, AtRestSame, Zenon DEF IsHit, Waits, PageOf
<1>10. /\ FlushType' /\ TableInv' /\ FlushInv' /\ UNCHANGED <<known, lasync>>
  <2>1. hand' \in Keys \cup {None}
    BY <1>0, <1>3, Zenon DEF Types, FlushType
  <2>2. QED
    BY <1>3, <2>1, QuietFrame, Zenon
<1>11. QueueType' /\ ActorType' /\ CacheType'
  BY <1>0, <1>3, <1>4, <1>7, <1>8, Zenon DEF Types, QueueType, ActorType, CacheType
<1>12. \A b \in Actor \ {a} : Stays(b)
  BY <1>3, <1>4, <1>7, <1>8, <1>9, Zenon DEF Stays
<1>13. ASSUME a \in Actor PROVE Spots(a)' = 1 /\ JumpOk(a)' /\ a \notin Who(lq')
  <2>1. /\ ~AtRest(a)' /\ a \notin Elems(master') /\ a # hand' /\ ~Waits(a)'
        /\ a \notin Who(lq') /\ jump'[a] \in {"list", "complete"}
        /\ a \in Elems(retry') <=> a \in Readers
        /\ a \in Elems(wbretry') <=> a \notin Readers
    BY <1>3, <1>4, <1>5, <1>6, <1>7, <1>8, <1>9, <1>13, Zenon
  <2>2. Spots(a)' = 1
    BY <2>1 DEF Spots, Truth
  <2>3. a \in Readers => cnt'[a] <= max_try'
    BY <1>0, <1>3, <1>5, <1>13, Zenon DEF JumpInv
  <2>4. JumpOk(a)'
    BY <2>1, <2>3, Zenon DEF JumpOk
  <2>5. QED
    BY <2>1, <2>2, <2>4, Zenon
<1>14. Types' /\ PlaceInv' /\ JumpInv' /\ LowerInv'
  <2>1. /\ Distinct(wbretry)' /\ Distinct(master)' /\ DistinctWho(lq)' /\ Distinct(retry)'
        /\ \A u \in Tpage : Distinct(cache.retry_q[u])'
    BY <1>0, <1>3, <1>4, <1>7, <1>8, Zenon DEF PlaceInv
  <2>2. max_try' >= max_try /\ table' = table
    BY <1>0, <1>3 DEF Types, FlushType
  <2>3. \A p \in Elems(lq') : p \in Elems(lq) \/ OpOk(p)'
    BY <1>4, Zenon
  <2>4. QED
    BY <1>10, <1>11, <1>12, <1>13, <2>1, <2>2, <2>3, OneMoves, Zenon
<1>15. FlightInv'
  BY <1>0, <1>3, <1>9, FlightSame, Zenon
<1>16. SyncInv'
  <2>1. ~lasync => /\ pm' # "idle" => pm # "idle" /\ (a \in Readers => AtRest(a)')
                   /\ a \in Keys => Listed(a)'
    <3>1. ~lasync /\ pm' # "idle" => pm # "idle" /\ (a \in Readers => AtRest(a)')
      BY <1>0, <1>3, <1>9, Zenon DEF SyncInv
    <3>2. a \in Keys => jump'[a] \in {"list", "complete"} /\ jump'[a] = jump[a]
      BY <1>3, <1>5, Zenon DEF Actor
    <3>3. ~lasync /\ a \in Keys => Listed(a)'
      BY <1>0, <1>9, <3>2, Zenon DEF SyncInv, Listed
    <3>4. QED
      BY <3>1, <3>3, Zenon
  <2>2. QED
    BY <1>0, <1>3, <1>4, <1>9, <1>10, <1>12, <2>1, SyncSame, Zenon
<1>17. QED
  BY <1>0, <1>3, <1>10, <1>14, <1>15, <1>16, Zenon DEF IInv, NoFault

\* A data page for a read: it ends, or goes on with the next entry.
LEMMA AnswerReadKeeps ==
  ASSUME IInv, After, AnswerRead
  PROVE  IInv'
<1>0. /\ Types /\ PlaceInv /\ JumpInv /\ LowerInv /\ FlightInv /\ FlushInv /\ TableInv
      /\ SyncInv /\ NoFault
  BY Zenon DEF IInv
<1>1. PICK o : o = Head(lq)
  OBVIOUS
<1>2. PICK r \in Readers : r = o.who
  BY <1>1, Zenon DEF AnswerRead
<1>3. /\ lq # <<>> /\ lq' = Tail(lq) /\ o.type = "datar"
      /\ UNCHANGED <<table, wb, pm, req, hand, htable, updated, max_try, cache>>
      /\ IF o.key = want[r]
         THEN EndRead(r) /\ retry' = retry
         ELSE /\ cnt' = [cnt EXCEPT ![r] = @ + 1]
              /\ retry' = Append(retry, r)
              /\ UNCHANGED <<want, jump>>
      /\ fault' = IF o.key = None THEN "unwritten" ELSE fault
      /\ UNCHANGED <<master, wbretry>>
  BY <1>1, <1>2, Zenon DEF AnswerRead, Answer
<1>4. r \in Actor /\ r \notin Keys
  BY NobodyIsNone, Zenon DEF Actor
<1>5. /\ o \in LowerOp /\ OpOk(o) /\ lq' \in Seq(LowerOp)
      /\ DistinctWho(lq)' /\ \A p \in Elems(lq') : p \in Elems(lq)
      /\ \A b \in Actor : b \in Who(lq') <=> b \in Who(lq) /\ b # r
      /\ r \in Who(lq) /\ ~AtRest(r) /\ Active(r)
      /\ r \notin Elems(retry) /\ r \notin Elems(wbretry)
      /\ r \notin Elems(master) /\ r # hand /\ ~Waits(r)
  BY <1>1, <1>2, <1>3, <1>4, AnswerHead, Zenon
<1>6. jump[r] = "none" /\ fault' = fault
  BY <1>2, <1>3, <1>5, Zenon DEF OpOk
<1>7. /\ want \in [Readers -> Keys \cup {None}] /\ cnt \in [Actor -> Nat]
      /\ jump \in [Actor -> {"none", "list", "complete", "update"}]
      /\ retry \in Seq(Readers) /\ Distinct(retry)
  BY <1>0, Zenon DEF Types, ActorType, QueueType, PlaceInv
<1>8. /\ ActorType' /\ jump'[r] = "none" /\ retry' \in Seq(Readers) /\ Distinct(retry)'
      /\ \A b \in Actor \ {r} :
           /\ jump'[b] = jump[b] /\ cnt'[b] = cnt[b] /\ (b \in Readers => want'[b] = want[b])
           /\ b \in Elems(retry') <=> b \in Elems(retry)
      /\ \/ want'[r] = None /\ r \notin Elems(retry')
         \/ want'[r] # None /\ r \in Elems(retry')
  <2>1. CASE o.key = want[r]
    <3>1. /\ want' = [want EXCEPT ![r] = None] /\ cnt' = [cnt EXCEPT ![r] = 0]
          /\ jump' = [jump EXCEPT ![r] = "none"] /\ retry' = retry
      BY <1>3, <2>1, Zenon DEF EndRead
    <3>2. ActorType'
      BY <1>7, <3>1, Zenon DEF ActorType
    <3>3. QED
      BY <1>4, <1>5, <1>7, <3>1, <3>2, Zenon
  <2>2. CASE o.key # want[r]
    <3>1. /\ cnt' = [cnt EXCEPT ![r] = @ + 1] /\ retry' = Append(retry, r)
          /\ want' = want /\ jump' = jump
      BY <1>3, <2>2, Zenon
    <3>2. ActorType'
      <4>1. cnt[r] + 1 \in Nat
        BY <1>4, <1>7
      <4>2. cnt' \in [Actor -> Nat]
        BY <1>7, <3>1, <4>1, Zenon
      <4>3. QED
        BY <1>7, <3>1, <4>2, Zenon DEF ActorType
    <3>3. /\ retry' \in Seq(Readers) /\ Distinct(retry') /\ Elems(retry') = Elems(retry) \cup {r}
      BY <1>5, <1>7, <3>1, AppendElems
    <3>4. want[r] # None
      BY <1>5, Zenon DEF AtRest
    <3>5. QED
      BY <1>4, <1>6, <1>7, <3>1, <3>2, <3>3, <3>4, Zenon
  <2>3. QED
    BY <2>1, <2>2, Zenon
<1>9. /\ \A u : IsHit(u)' <=> IsHit(u)
      /\ \A b : Waits(b)' <=> Waits(b)
      /\ \A b \in Actor \ {r} : PageOf(b)' = PageOf(b)
      /\ \A b \in Actor \ {r} : AtRest(b)' <=> AtRest(b)
  <2>1. \A b \in Actor \ {r} : AtRest(b)' <=> AtRest(b)
    BY <1>3, <1>8, AtRestSame, Zenon
  <2>2. \A b \in Actor \ {r} : PageOf(b)' = PageOf(b)
    BY <1>8, Zenon DEF PageOf
  <2>3. QED
    BY <1>3, <2>1, <2>2, Zenon DEF IsHit, Waits
<1>10. /\ FlushType' /\ TableInv' /\ FlushInv' /\ UNCHANGED <<known, lasync>>
  <2>1. hand' \in Keys \cup {None}
    BY <1>0, <1>3, Zenon DEF Types, FlushType
  <2>2. \A j \in Keys : cnt'[j] = cnt[j] /\ jump'[j] = jump[j]
    BY <1>4, <1>8, Zenon DEF Actor
  <2>3. QED
    BY <1>3, <2>1, <2>2, QuietFrame, Zenon
<1>11. QueueType' /\ CacheType'
  BY <1>0, <1>3, <1>5, <1>8, Zenon DEF Types, QueueType, CacheType
<1>12. \A b \in Actor \ {r} : Stays(b)
  BY <1>3, <1>5, <1>8, <1>9, Zenon DEF Stays
<1>13. Spots(r)' = 1 /\ JumpOk(r)' /\ r \notin Who(lq')
  <2>1. AtRest(r)' <=> want'[r] = None
    BY Zenon DEF AtRest
  <2>2. /\ r \notin Elems(master') /\ r # hand' /\ ~Waits(r)' /\ r \notin Who(lq')
        /\ r \notin Elems(wbretry')
        /\ r \in Elems(retry') <=> ~AtRest(r)'
    BY <1>3, <1>4, <1>5, <1>8, <1>9, <2>1, Zenon
  <2>3. Spots(r)' = 1
    BY <2>2 DEF Spots, Truth
  <2>4. JumpOk(r)'
    BY <1>8, <2>2, Zenon DEF JumpOk
  <2>5. QED
    BY <2>2, <2>3, <2>4, Zenon
<1>14. Types' /\ PlaceInv' /\ JumpInv' /\ LowerInv'
  <2>1. /\ Distinct(wbretry)' /\ Distinct(master)' /\ DistinctWho(lq)' /\ Distinct(retry)'
        /\ \A u \in Tpage : Distinct(cache.retry_q[u])'
    BY <1>0, <1>3, <1>5, <1>8, ZenonT(40) DEF PlaceInv
  <2>2. max_try' >= max_try /\ table' = table /\ ActorType'
    BY <1>0, <1>3, <1>8 DEF Types, FlushType
  <2>3. \A p \in Elems(lq') : p \in Elems(lq) \/ OpOk(p)'
    BY <1>5, Zenon
  <2>4. QED
    BY <1>10, <1>11, <1>12, <1>13, <2>1, <2>2, <2>3, OneMoves, Zenon
<1>15. FlightInv'
  <2>1. \A a \in Actor : /\ jump'[a] = "list" <=> jump[a] = "list"
                         /\ jump[a] = "list" \/ Waits(a) => PageOf(a)' = PageOf(a)
    BY <1>5, <1>6, <1>8, <1>9, Zenon
  <2>2. QED
    BY <1>0, <1>3, <1>9, <2>1, FlightSame, Zenon
<1>16. SyncInv'
  <2>1. ~lasync => pm = "idle"
    BY <1>0, <1>5, Zenon DEF SyncInv
  <2>2. QED
    BY <1>0, <1>3, <1>4, <1>5, <1>9, <1>10, <1>12, <2>1, SyncSame, Zenon
<1>17. QED
  BY <1>0, <1>6, <1>10, <1>14, <1>15, <1>16, Zenon DEF IInv, NoFault

\* A data page for a buffer entry: the entry is the key's own, or it tries the next one.
LEMMA AnswerCheckKeeps ==
  ASSUME IInv, After, AnswerCheck
  PROVE  IInv'
<1>0. /\ Types /\ PlaceInv /\ JumpInv /\ LowerInv /\ FlightInv /\ FlushInv /\ TableInv
      /\ SyncInv /\ NoFault
  BY Zenon DEF IInv
<1>1. PICK o : o = Head(lq)
  OBVIOUS
<1>2. PICK k \in Keys : k = o.who
  BY <1>1, Zenon DEF AnswerCheck
<1>3. /\ lq # <<>> /\ lq' = Tail(lq) /\ o.type = "datar"
      /\ UNCHANGED <<table, wb, pm, req, hand, htable, updated, max_try, cache>>
      /\ IF o.key = k
         THEN /\ jump' = [jump EXCEPT ![k] = "update"]
              /\ wbretry' = Append(wbretry, k) /\ UNCHANGED <<cnt, master>>
         ELSE /\ cnt' = [cnt EXCEPT ![k] = @ + 1]
              /\ master' = Append(master, k) /\ UNCHANGED <<jump, wbretry>>
      /\ fault' = IF o.key = None THEN "unwritten" ELSE fault
      /\ UNCHANGED <<want, retry>>
  BY <1>1, <1>2, Zenon DEF AnswerCheck, Answer, rvars
<1>4. k \in Actor /\ k \notin Readers
  BY NobodyIsNone, Zenon DEF Actor
<1>5. /\ o \in LowerOp /\ OpOk(o) /\ lq' \in Seq(LowerOp)
      /\ DistinctWho(lq)' /\ \A p \in Elems(lq') : p \in Elems(lq)
      /\ \A b \in Actor : b \in Who(lq') <=> b \in Who(lq) /\ b # k
      /\ k \in Who(lq) /\ ~AtRest(k) /\ Active(k)
      /\ k \notin Elems(retry) /\ k \notin Elems(wbretry)
      /\ k \notin Elems(master) /\ k # hand /\ ~Waits(k)
  BY <1>1, <1>2, <1>3, <1>4, AnswerHead, Zenon
<1>6. /\ jump[k] = "none" /\ fault' = fault /\ o.key # None
      /\ o.key = table[GetLpa(k, cnt[k])]
  BY <1>2, <1>3, <1>5, Zenon DEF OpOk
<1>7. /\ cnt \in [Actor -> Nat]
      /\ jump \in [Actor -> {"none", "list", "complete", "update"}]
      /\ wbretry \in Seq(Keys) /\ Distinct(wbretry) /\ master \in Seq(Keys) /\ Distinct(master)
  BY <1>0, Zenon DEF Types, ActorType, QueueType, PlaceInv
<1>8. known' = known /\ lasync' = lasync
  BY <1>0, <1>3, KnownSame, Zenon
<1>9. /\ \A u : IsHit(u)' <=> IsHit(u)
      /\ \A b : Waits(b)' <=> Waits(b)
      /\ \A b : AtRest(b)' <=> AtRest(b)
  BY <1>3, AtRestSame, Zenon DEF IsHit, Waits
<1>10. /\ ActorType' /\ TableInv'
       /\ wbretry' \in Seq(Keys) /\ Distinct(wbretry)'
       /\ master' \in Seq(Keys) /\ Distinct(master)'
       /\ \A b \in Actor \ {k} : /\ jump'[b] = jump[b] /\ cnt'[b] = cnt[b]
                                 /\ b \in Elems(wbretry') <=> b \in Elems(wbretry)
                                 /\ b \in Elems(master') <=> b \in Elems(master)
       /\ \/ /\ jump'[k] = "update" /\ cnt' = cnt
             /\ k \in Elems(wbretry') /\ k \notin Elems(master')
          \/ /\ jump'[k] = "none" /\ k \notin Elems(wbretry') /\ k \in Elems(master')
  <2>1. CASE o.key = k
    <3>1. /\ jump' = [jump EXCEPT ![k] = "update"] /\ wbretry' = Append(wbretry, k)
          /\ cnt' = cnt /\ master' = master
      BY <1>3, <2>1, Zenon
    <3>2. ActorType'
      BY <1>0, <1>3, <3>1, Zenon DEF Types, ActorType
    <3>3. /\ wbretry' \in Seq(Keys) /\ Distinct(wbretry')
          /\ Elems(wbretry') = Elems(wbretry) \cup {k}
      BY <1>5, <1>7, <3>1, AppendElems
    <3>4. jump'[k] = "update" /\ \A b \in Actor \ {k} : jump'[b] = jump[b]
      BY <1>4, <1>7, <3>1, Zenon
    <3>5. TableInv'
      <4>1. \A j \in Keys : jump'[j] = "update" =>
              (jump[j] = "update" \/ table[GetLpa(j, cnt[j])] = j) /\ cnt'[j] = cnt[j]
        BY <1>6, <2>1, <3>1, <3>4, Zenon DEF Actor
      <4>2. QED
        BY <1>0, <1>3, <1>8, <1>9, <3>1, <4>1, TableSame, Zenon
    <3>6. QED
      BY <1>5, <1>7, <3>1, <3>2, <3>3, <3>4, <3>5, Zenon
  <2>2. CASE o.key # k
    <3>1. /\ cnt' = [cnt EXCEPT ![k] = @ + 1] /\ master' = Append(master, k)
          /\ jump' = jump /\ wbretry' = wbretry
      BY <1>3, <2>2, Zenon
    <3>2. ActorType' /\ \A b \in Actor \ {k} : cnt'[b] = cnt[b]
      <4>1. cnt[k] + 1 \in Nat
        BY <1>4, <1>7
      <4>2. cnt' \in [Actor -> Nat] /\ \A b \in Actor \ {k} : cnt'[b] = cnt[b]
        BY <1>7, <3>1, <4>1, Zenon
      <4>3. QED
        BY <1>0, <1>3, <3>1, <4>2, Zenon DEF Types, ActorType
    <3>3. /\ master' \in Seq(Keys) /\ Distinct(master') /\ Elems(master') = Elems(master) \cup {k}
      BY <1>5, <1>7, <3>1, AppendElems
    <3>4. TableInv'
      <4>1. \A j \in Keys : jump'[j] = "update" => jump[j] = "update" /\ j # k
        BY <1>6, <3>1, Zenon
      <4>2. table[GetLpa(k, cnt[k])] \notin {None, k}
        BY <1>6, <2>2, Zenon
      <4>3. QED
        BY <1>0, <1>3, <1>5, <1>8, <1>9, <3>1, <4>1, <4>2, TableNext, Zenon
    <3>5. QED
      BY <1>5, <1>6, <1>7, <3>1, <3>2, <3>3, <3>4, Zenon
  <2>3. QED
    BY <2>1, <2>2, Zenon
<1>11. FlushType' /\ FlushInv' /\ QueueType' /\ CacheType'
  <2>1. FlushType'
    BY <1>0, <1>3, <1>8, Zenon DEF Types, FlushType
  <2>2. pm # "idle"
    BY <1>4, <1>5, Zenon DEF AtRest
  <2>3. FlushInv'
    BY <1>0, <1>3, <1>8, <2>2, FlushInvSame, Zenon
  <2>4. QED
    BY <1>0, <1>3, <1>5, <1>10, <2>1, <2>3, Zenon DEF Types, QueueType, CacheType
<1>12. ASSUME NEW b \in Actor \ {k} PROVE Stays(b)
  <2>1. PageOf(b)' = PageOf(b)
    BY <1>3, <1>10, Zenon DEF PageOf
  <2>2. QED
    BY <1>3, <1>5, <1>9, <1>10, <2>1, Zenon DEF Stays
<1>13. Spots(k)' = 1 /\ JumpOk(k)' /\ k \notin Who(lq')
  <2>1. /\ ~AtRest(k)' /\ k \notin Elems(retry') /\ k # hand' /\ ~Waits(k)' /\ k \notin Who(lq')
        /\ \/ k \in Elems(wbretry') /\ k \notin Elems(master') /\ jump'[k] = "update"
           \/ k \notin Elems(wbretry') /\ k \in Elems(master') /\ jump'[k] = "none"
    BY <1>3, <1>4, <1>5, <1>9, <1>10, Zenon
  <2>2. Spots(k)' = 1
    BY <2>1 DEF Spots, Truth
  <2>3. JumpOk(k)'
    BY <1>4, <2>1, Zenon DEF JumpOk
  <2>4. QED
    BY <2>1, <2>2, <2>3, Zenon
<1>14. Types' /\ PlaceInv' /\ JumpInv' /\ LowerInv'
  <2>1. /\ Distinct(wbretry)' /\ Distinct(master)' /\ DistinctWho(lq)' /\ Distinct(retry)'
        /\ \A u \in Tpage : Distinct(cache.retry_q[u])'
    BY <1>0, <1>3, <1>5, <1>10, ZenonT(40) DEF PlaceInv
  <2>2. max_try' >= max_try /\ table' = table /\ ActorType'
    BY <1>0, <1>3, <1>10 DEF Types, FlushType
  <2>3. \A p \in Elems(lq') : p \in Elems(lq) \/ OpOk(p)'
    BY <1>5, Zenon
  <2>4. QED
    BY <1>11, <1>12, <1>13, <2>1, <2>2, <2>3, OneMoves, Zenon
<1>15. FlightInv'
  <2>1. \A a \in Actor : /\ jump'[a] = "list" <=> jump[a] = "list"
                         /\ jump[a] = "list" \/ Waits(a) => PageOf(a)' = PageOf(a)
    BY <1>3, <1>5, <1>6, <1>10, Zenon DEF PageOf
  <2>2. QED
    BY <1>0, <1>3, <1>9, <2>1, FlightSame, Zenon
<1>16. SyncInv'
  <2>1. ~lasync => Listed(k)'
    <3>1. ~lasync => IsHit(PageOf(k))
      BY <1>0, <1>5, <1>6, Zenon DEF SyncInv
    <3>2. cnt' = cnt => PageOf(k)' = PageOf(k)
      BY <1>3, Zenon DEF PageOf
    <3>3. k \notin Who(lq')
      BY <1>13, Zenon
    <3>4. QED
      BY <1>9, <1>10, <3>1, <3>2, <3>3, Zenon DEF Listed
  <2>2. QED
    BY <1>0, <1>3, <1>4, <1>5, <1>8, <1>9, <1>12, <2>1, SyncSame, Zenon
<1>17. QED
  BY <1>0, <1>6, <1>10, <1>11, <1>14, <1>15, <1>16, Zenon DEF IInv, NoFault

=============================================================================
