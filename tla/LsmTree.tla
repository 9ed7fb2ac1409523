------------------------------ MODULE LsmTree ------------------------------
(***************************************************************************)
(* The write path of the LSM-tree FTL (algorithm/Lsmtree) in its default   *)
(* build: LEVELN levels on flash, no level caching, WRITEWAIT, gc_opt off, *)
(* a lower layer that answers at once.  Two threads share the state:       *)
(*                                                                         *)
(*  - p_main runs lsm_set.  A full memtable is cut into header-sized       *)
(*    chunks, each is handed to the compaction thread, and p_main waits    *)
(*    until the chunk marked `last' is done (compaction_check).            *)
(*  - the compaction thread (compaction_main) places the values of a chunk *)
(*    in DATA pages, merges the chunk into level 0, cascades full levels,  *)
(*    and adds the list a data collection left behind.                     *)
(*                                                                         *)
(* Placing a value may find the DATA partition full: gc_data then picks    *)
(* the oldest segment, asks the levels which of its values are live, moves *)
(* those to the reserve segment, and leaves their new places in gc_list.   *)
(*                                                                         *)
(* A value is its key: a page is the sequence of keys whose values it      *)
(* holds, and cur (a history variable) says where the last value set for a *)
(* key is.  Header pages, their space and their collection are modelled in *)
(* HeaderSpace; here a level is the function its runs and headers store.   *)
(***************************************************************************)
EXTENDS Integers, Sequences, FiniteSets

CONSTANTS
  Keys,      \* the keys, ordered: a set of integers
  FLUSHNUM,  \* LSM.FLUSHNUM: memtable entries that trigger a flush
  HK,        \* keys in one header page (num_limit of skiplist_cutting_header)
  FULL,      \* runs at which a level other than the last is full (def_fchk)
  LEVELN,    \* LSM.LEVELN: number of levels
  SEGS,      \* segments of the DATA partition
  PPS,       \* pages in a segment (_PPS)
  VPP        \* values in a page

ASSUME KeysAssumption == Keys \subseteq Int /\ IsFiniteSet(Keys)
ASSUME SizeAssumption ==
  /\ {FLUSHNUM, HK, FULL, LEVELN, SEGS, PPS, VPP} \subseteq Nat \ {0}
  /\ HK <= FLUSHNUM
  /\ SEGS >= 3

VARIABLES
  mem,      \* LSM.memtable: the keys in it
  main,     \* p_main: "run", "cut" (compaction_check), "wait" (flush_wait)
  hand,     \* p_main: the chunk t that is cut and not yet assigned
  setk,     \* p_main: the key of the lsm_set that waits for the flush, if any
  queue,    \* the compaction queue: chunks with their `last' flag
  done,     \* compaction_flush_wait has been unlocked
  comp,     \* where the compaction thread is
  todo,     \* the keys of the chunk whose values have no page yet
  placed,   \* the chunk's skiplist: key -> page
  lv,       \* start_level of compaction_cascading
  disk,     \* LSM.disk: level -> (key -> page)
  data,     \* the DATA pages: segment -> pages written, each a list of keys
  active,   \* d_m.active, 0 when NULL
  reserve,  \* d_m.reserve
  free,     \* the partition's free queue
  heap,     \* segments a collection may pick, the oldest first
  victim,   \* __gc_data: the segment under collection
  nodes,    \* __gc_data: values whose liveness is not known yet
  bucket,   \* __gc_data: values checked, with their verdict
  moved,    \* __gc_data: new places of the live values
  gclist,   \* LSM.gc_list
  lost,     \* history: keys whose entry was in a gc_list that was replaced
  cur,      \* history: where the last value set for a key is
  halt      \* "no", or the abort() that ended the program

mvars == <<mem, main, hand, setk>>
bvars == <<data, active, reserve, free, heap>>
gvars == <<victim, nodes, bucket, moved>>
vars == <<mvars, queue, done, comp, todo, placed, lv, disk, bvars, gvars,
          gclist, lost, cur, halt>>

Seg == 1 .. SEGS
Level == 0 .. LEVELN - 1
Page == Seg \X (1 .. PPS)
NoPage == <<0, 0>>          \* a key the map does not hold
InMem == <<0, 1>>           \* cur: in the memtable, or in a chunk cut from it
Never == <<0, 2>>           \* cur: the key was never set
Empty == [k \in Keys |-> NoPage]
KeysOf(m) == {k \in Keys : m[k] # NoPage}

\* What page p holds; an erased page holds nothing.
Holds(p) ==
  IF p[1] \in Seg /\ p[2] \in 1 .. Len(data[p[1]])
  THEN {data[p[1]][p[2]][i] : i \in 1 .. Len(data[p[1]][p[2]])}
  ELSE {}

\* Mutant: one page more than the segment has.
FullSegLate(s) == Len(data[s]) > PPS

FullSeg(s) == Len(data[s]) = PPS

\* The first n keys of a set in key order, or in reverse key order.
LowKeys(S, n) == {k \in S : Cardinality({j \in S : j < k}) < n}
HighKeys(S, n) == {k \in S : Cardinality({j \in S : j > k}) < n}

\* The keys of a set as a list, the largest first.
Descending(S) ==
  CHOOSE q \in [1 .. Cardinality(S) -> S] :
    \A i, j \in 1 .. Cardinality(S) : i < j => q[i] > q[j]

-----------------------------------------------------------------------------
(* Levels.                                                                 *)

\* Mutant: the older entry wins.
MergeOlder(up, low) ==
  [k \in Keys |-> IF low[k] # NoPage THEN low[k] ELSE up[k]]

\* Merging keeps the upper entry of a key that both sides hold.
Merge(up, low) ==
  [k \in Keys |-> IF up[k] # NoPage THEN up[k] ELSE low[k]]

\* A run holds HK keys; a level is full at FULL runs.
LevelFull(m) == (Cardinality(KeysOf(m)) + HK - 1) \div HK >= FULL

\* Mutant: the search ends at the first level that has a run.
FindInFirst(k) ==
  LET has == {i \in Level : KeysOf(disk[i]) # {}}
  IN  IF has = {} THEN NoPage
      ELSE disk[CHOOSE i \in has : \A j \in has : i <= j][k]

\* The entry the levels give for a key: that of the first level that has it.
FindInLevels(k) ==
  LET has == {i \in Level : disk[i][k] # NoPage}
  IN  IF has = {} THEN NoPage
      ELSE disk[CHOOSE i \in has : \A j \in has : i <= j][k]

\* Where lsm_get looks for a key: the memtable, then the levels.
Lookup(k) == IF k \in mem THEN InMem ELSE FindInLevels(k)

-----------------------------------------------------------------------------
(* p_main.                                                                 *)

Init ==
  /\ mem = {} /\ main = "run" /\ hand = {} /\ setk = {}
  /\ queue = <<>> /\ done = FALSE
  /\ comp = "top" /\ todo = {} /\ placed = Empty /\ lv = 0
  /\ disk = [i \in Level |-> Empty]
  /\ data = [s \in Seg |-> <<>>]
  /\ active = 0 /\ reserve = 1 /\ free = [i \in 1 .. SEGS - 1 |-> i + 1]
  /\ heap = <<>>
  /\ victim = 0 /\ nodes = <<>> /\ bucket = <<>> /\ moved = Empty
  /\ gclist = Empty /\ lost = {}
  /\ cur = [k \in Keys |-> Never]
  /\ halt = "no"

\* skiplist_insert into the memtable.
Insert(K) ==
  /\ mem' = mem \cup K
  /\ cur' = [k \in Keys |-> IF k \in K THEN InMem ELSE cur[k]]
  /\ lost' = lost \ K

\* lsm_set with room in the memtable.
Set(k) ==
  /\ main = "run" /\ Cardinality(mem) < FLUSHNUM
  /\ Insert({k})
  /\ UNCHANGED <<main, hand, setk, queue, done, comp, todo, placed, lv, disk,
                 bvars, gvars, gclist, halt>>

\* lsm_set with a full memtable: compaction_check cuts the first chunk off.
StartFlush(k) ==
  /\ main = "run" /\ Cardinality(mem) >= FLUSHNUM
  /\ main' = "cut" /\ setk' = {k}
  /\ hand' = LowKeys(mem, HK)
  /\ mem' = mem \ hand'
  /\ UNCHANGED <<queue, done, comp, todo, placed, lv, disk, bvars, gvars,
                 gclist, lost, cur, halt>>

\* compaction_assign: enqueue under the lock, signal the condition variable.
Enqueue(c, last) ==
  /\ queue' = Append(queue, [keys |-> c, last |-> last])
  /\ comp' = IF comp = "sleep" THEN "woken" ELSE comp

\* One round of the loop of compaction_check: try to cut the next chunk t2,
\* then assign t, which is the last one when less than a header is left.
Assign ==
  /\ main = "cut"
  /\ IF Cardinality(mem) >= HK
     THEN /\ hand' = LowKeys(mem, HK)
          /\ mem' = mem \ hand'
          /\ main' = main
          /\ Enqueue(hand, FALSE)
     ELSE /\ hand' = {}
          /\ mem' = mem
          /\ main' = "wait"
          /\ Enqueue(hand, TRUE)
  /\ UNCHANGED <<setk, done, todo, placed, lv, disk, bvars, gvars, gclist,
                 lost, cur, halt>>

\* The lock of compaction_flush_wait is granted; lsm_set inserts its key.
Resume ==
  /\ main = "wait" /\ done
  /\ done' = FALSE /\ main' = "run" /\ setk' = {}
  /\ Insert(setk)
  /\ UNCHANGED <<hand, queue, comp, todo, placed, lv, disk, bvars, gvars,
                 gclist, halt>>

-----------------------------------------------------------------------------
(* The compaction thread: placing the values of a chunk.                   *)

\* The queue is empty: wait for the signal.
Sleep ==
  /\ comp = "top" /\ queue = <<>>
  /\ comp' = "sleep"
  /\ UNCHANGED <<mvars, queue, done, todo, placed, lv, disk, bvars, gvars,
                 gclist, lost, cur, halt>>

\* q_pick: the request stays in the queue until it is done.
Pick ==
  /\ comp \in {"top", "woken"} /\ queue # <<>>
  /\ comp' = "data" /\ todo' = Head(queue).keys /\ placed' = Empty
  /\ UNCHANGED <<mvars, queue, done, lv, disk, bvars, gvars, gclist, lost, cur,
                 halt>>

NeedSegment == active # 0 => FullSeg(active)

\* The values of the keys in list q go to the next page of segment s.
Write(s, q) == data' = [data EXCEPT ![s] = Append(@, q)]

\* variable_value2Page for a chunk: a page from getBlock, filled from the end
\* of the bucket.  getBlock takes a segment from the free queue when the
\* active one is full, and that segment becomes a candidate for collection.
PlacePage ==
  /\ comp = "data" /\ todo # {}
  /\ ~NeedSegment \/ free # <<>>
  /\ LET s  == IF NeedSegment THEN Head(free) ELSE active
         ks == HighKeys(todo, VPP)
         p  == <<s, Len(data[s]) + 1>>
     IN  /\ Write(s, Descending(ks))
         /\ active' = s
         /\ free' = IF NeedSegment THEN Tail(free) ELSE free
         /\ heap' = IF NeedSegment THEN Append(heap, s) ELSE heap
         /\ placed' = [k \in Keys |-> IF k \in ks THEN p ELSE placed[k]]
         /\ cur' = [k \in Keys |-> IF k \in ks THEN p ELSE cur[k]]
         /\ todo' = todo \ ks
  /\ UNCHANGED <<mvars, queue, done, comp, lv, disk, reserve, gvars, gclist,
                 lost, halt>>

-----------------------------------------------------------------------------
(* The compaction thread: collecting a DATA segment (gc_data, __gc_data).  *)

\* All values of segment s, in page order, with the page they are in.
Values(s) ==
  LET at(p) == [i \in 1 .. Len(data[s][p]) |->
                  [key |-> data[s][p][i], page |-> <<s, p>>, live |-> FALSE]]
      upto[p \in 0 .. Len(data[s])] ==
        IF p = 0 THEN <<>> ELSE upto[p - 1] \o at(p)
  IN  upto[Len(data[s])]

\* Mutant: the victim stays in the heap.
GcStartKeeps ==
  /\ comp = "data" /\ todo # {}
  /\ NeedSegment /\ free = <<>>
  /\ victim' = Head(heap) /\ heap' = heap
  /\ nodes' = Values(victim') /\ bucket' = <<>> /\ moved' = Empty
  /\ comp' = "gc"
  /\ UNCHANGED <<mvars, queue, done, todo, placed, lv, disk, data, active,
                 reserve, free, gclist, lost, cur, halt>>

\* getBlock finds the active segment full and no free one: the oldest segment
\* is taken off the heap and all its pages are read, dead values included.
GcStart ==
  /\ comp = "data" /\ todo # {}
  /\ NeedSegment /\ free = <<>>
  /\ victim' = Head(heap) /\ heap' = Tail(heap)
  /\ nodes' = Values(victim') /\ bucket' = <<>> /\ moved' = Empty
  /\ comp' = "gc"
  /\ UNCHANGED <<mvars, queue, done, todo, placed, lv, disk, data, active,
                 reserve, free, gclist, lost, cur, halt>>

\* gc_data_issue_header and gc_data_each_header_check for one value: dead when
\* the memtable has the key, or when the first level that has the key gives
\* another page for it; abort() when no level has it.
GcCheck ==
  /\ comp = "gc" /\ nodes # <<>>
  /\ LET n == Head(nodes)
         e == FindInLevels(n.key)
         known == \E i \in Level : KeysOf(disk[i]) # {}
     IN  IF known /\ (n.key \in mem \/ e # NoPage)
         THEN /\ bucket' = Append(bucket, [n EXCEPT !.live =
                                n.key \notin mem /\ e = n.page])
              /\ halt' = halt
         ELSE halt' = "notfound" /\ bucket' = bucket
  /\ nodes' = Tail(nodes)
  /\ UNCHANGED <<mvars, queue, done, comp, todo, placed, lv, disk, bvars,
                 victim, moved, gclist, lost, cur>>

\* The live values among b[i..].
LiveFrom(b, i) == {j \in i .. Len(b) : b[j].live}

\* The first value that the next page takes: variable_value2Page walks the
\* bucket from its end, skips dead values, and stops when the page is full.
\* A page is written even when only dead values are left.
PageStart(b) ==
  LET full == {i \in 1 .. Len(b) : Cardinality(LiveFrom(b, i)) = VPP}
  IN  IF full = {} THEN 1 ELSE CHOOSE i \in full : \A j \in full : j <= i

\* One page of live values goes to the reserve segment (the active one is
\* full, so def_moveTo_fr_page(true) calls getRBlock); a full reserve segment
\* would need a free one and there is none.
GcWrite ==
  /\ comp = "gc" /\ nodes = <<>> /\ bucket # <<>>
  /\ LET i  == PageStart(bucket)
         js == LiveFrom(bucket, i)
         ks == {bucket[j].key : j \in js}
         p  == <<reserve, Len(data[reserve]) + 1>>
         wasCur(k) == \E j \in js : bucket[j].key = k /\ bucket[j].page = cur[k]
     IN  IF FullSeg(reserve) \/ ks \cap KeysOf(moved) # {}
         THEN /\ halt' = IF FullSeg(reserve) THEN "noreserve" ELSE "duplicate"
              /\ UNCHANGED <<data, bucket, moved, cur>>
         ELSE /\ Write(reserve, [x \in 1 .. Cardinality(js) |->
                   bucket[CHOOSE j \in js :
                            Cardinality(LiveFrom(bucket, j)) = x].key])
              /\ bucket' = SubSeq(bucket, 1, i - 1)
              /\ moved' = [k \in Keys |-> IF k \in ks THEN p ELSE moved[k]]
              /\ cur' = [k \in Keys |->
                           IF k \in ks /\ wasCur(k) THEN p ELSE cur[k]]
              /\ halt' = halt
  /\ UNCHANGED <<mvars, queue, done, comp, todo, placed, lv, disk, active,
                 reserve, free, heap, victim, nodes, gclist, lost>>

\* The end of gc_data_header_update and of __gc_data: the moved values become
\* LSM.gc_list (a list that was still pending is replaced), the victim is
\* erased and freed, the reserve segment becomes active and a candidate for
\* collection, and a free segment becomes the reserve.
GcEnd ==
  /\ comp = "gc" /\ nodes = <<>> /\ bucket = <<>>
  /\ gclist' = IF KeysOf(moved) = {} THEN gclist ELSE moved
  /\ lost' = IF KeysOf(moved) = {} THEN lost
             ELSE lost \cup (KeysOf(gclist) \ KeysOf(moved))
  /\ data' = [data EXCEPT ![victim] = <<>>]
  /\ cur' = [k \in Keys |-> IF cur[k][1] = victim THEN NoPage ELSE cur[k]]
  /\ LET f == Append(free, victim)
     IN  reserve' = Head(f) /\ free' = Tail(f)
  /\ active' = reserve /\ heap' = Append(heap, reserve)
  /\ victim' = 0 /\ moved' = Empty
  /\ comp' = "data"
  /\ UNCHANGED <<mvars, queue, done, todo, placed, lv, disk, nodes, bucket,
                 halt>>

-----------------------------------------------------------------------------
(* The compaction thread: merging into the levels.                         *)

\* leveling(NULL, disk[0]): the chunk, its values placed, enters level 0.
Leveling ==
  /\ comp = "data" /\ todo = {}
  /\ disk' = [disk EXCEPT ![0] = Merge(placed, @)]
  /\ placed' = Empty /\ lv' = 0 /\ comp' = "cascade"
  /\ UNCHANGED <<mvars, queue, done, todo, bvars, gvars, gclist, lost, cur,
                 halt>>

\* One round of compaction_cascading: a full level is merged into the next
\* one and left empty.  The last level is never full.
Cascade ==
  /\ comp = "cascade"
  /\ IF lv + 1 < LEVELN /\ LevelFull(disk[lv])
     THEN /\ disk' = [disk EXCEPT ![lv] = Empty,
                                  ![lv + 1] = Merge(disk[lv], @)]
          /\ lv' = lv + 1 /\ comp' = comp
     ELSE /\ comp' = IF KeysOf(gclist) = {} THEN "last" ELSE "gcadd"
          /\ disk' = disk /\ lv' = 0
  /\ UNCHANGED <<mvars, queue, done, todo, placed, bvars, gvars, gclist, lost,
                 cur, halt>>

\* One round of compaction_gc_add: a header's worth of gc_list enters level 0
\* on top of what is there, and the levels are cascaded.
GcAdd ==
  /\ comp = "gcadd"
  /\ LET ks == LowKeys(KeysOf(gclist), HK)
     IN  /\ disk' = [disk EXCEPT ![0] =
                       Merge([k \in Keys |-> IF k \in ks THEN gclist[k]
                                             ELSE NoPage], @)]
         /\ gclist' = [k \in Keys |-> IF k \in ks THEN NoPage ELSE gclist[k]]
  /\ lv' = 0 /\ comp' = "cascade"
  /\ UNCHANGED <<mvars, queue, done, todo, placed, bvars, gvars, lost, cur,
                 halt>>

\* The chunk is done; the last one of a flush releases p_main.
Release ==
  /\ comp = "last"
  /\ done' = (done \/ Head(queue).last)
  /\ comp' = "dequeue"
  /\ UNCHANGED <<mvars, queue, todo, placed, lv, disk, bvars, gvars, gclist,
                 lost, cur, halt>>

\* Mutant: the request that is done stays in the queue.
DequeueKeeps ==
  /\ comp = "dequeue"
  /\ comp' = "top"
  /\ UNCHANGED <<mvars, queue, done, todo, placed, lv, disk, bvars, gvars,
                 gclist, lost, cur, halt>>

\* q_dequeue, after p_main may already run again.
Dequeue ==
  /\ comp = "dequeue"
  /\ queue' = Tail(queue) /\ comp' = "top"
  /\ UNCHANGED <<mvars, done, todo, placed, lv, disk, bvars, gvars, gclist,
                 lost, cur, halt>>

-----------------------------------------------------------------------------

Main == Assign \/ Resume \/ \E k \in Keys : Set(k) \/ StartFlush(k)
Compaction ==
  \/ Sleep \/ Pick \/ PlacePage
  \/ GcStart \/ GcCheck \/ GcWrite \/ GcEnd
  \/ Leveling \/ Cascade \/ GcAdd \/ Release \/ Dequeue

\* abort() ends the program.
Next == halt = "no" /\ (Main \/ Compaction)

Spec == Init /\ [][Next]_vars

\* Both threads keep running: neither waits for a lock the other holds for
\* ever.  Nothing forces a caller to issue another set.
FairSpec ==
  /\ Spec
  /\ WF_vars(halt = "no" /\ Compaction)
  /\ WF_vars(halt = "no" /\ (Assign \/ Resume))

\* The values the variables take: DATA segments never hold more than a segment's
\* pages, and entries lead to pages of the DATA partition.
TypeOK ==
  /\ mem \subseteq Keys /\ hand \subseteq Keys /\ setk \subseteq Keys
  /\ main \in {"run", "cut", "wait"} /\ done \in BOOLEAN
  /\ queue \in Seq([keys : SUBSET Keys, last : BOOLEAN])
  /\ comp \in {"top", "sleep", "woken", "data", "gc", "cascade", "gcadd",
               "last", "dequeue"}
  /\ todo \subseteq Keys /\ lv \in Level
  /\ placed \in [Keys -> Page \cup {NoPage}]
  /\ disk \in [Level -> [Keys -> Page \cup {NoPage}]]
  /\ \A s \in Seg : Len(data[s]) <= PPS
  /\ active \in Seg \cup {0} /\ reserve \in Seg /\ victim \in Seg \cup {0}
  /\ gclist \in [Keys -> Page \cup {NoPage}]
  /\ moved \in [Keys -> Page \cup {NoPage}]
  /\ cur \in [Keys -> Page \cup {NoPage, InMem, Never}]
  /\ halt \in {"no", "notfound", "noreserve", "duplicate"}

\* Whenever p_main can serve a request, every key that was set is found, in the
\* memtable or in a page that holds a value of that key: no entry of a level
\* points into a segment that was erased or rewritten since.  Keys whose entry
\* was in a gc_list that a second collection replaced are left out.
ReadsFindTheirKey ==
  main = "run" =>
    \A k \in Keys \ lost :
      cur[k] # Never => k \in mem \/ k \in Holds(Lookup(k))

\* No abort() of the data collection is reached: every value in a victim has
\* its key in some level, the reserve segment takes all live values, and no key
\* is moved twice.
NoAbort == halt = "no"

\* Every DATA segment is in exactly one place: free, reserve, a candidate for
\* collection, or the segment under collection; the active one is a candidate.
SegmentsOwnedOnce ==
  /\ active # 0 => \E i \in 1 .. Len(heap) : heap[i] = active
  /\ \A s \in Seg :
       Cardinality({i \in 1 .. Len(free) : free[i] = s})
         + Cardinality({i \in 1 .. Len(heap) : heap[i] = s})
         + (IF reserve = s THEN 1 ELSE 0)
         + (IF victim = s THEN 1 ELSE 0) = 1

\* A flush ends: the thread that waits in compaction_check runs again.
FlushEnds == main = "cut" ~> main = "run"

\* A read goes to the last value set for the key.
LastValueMapped ==
  main = "run" => \A k \in Keys : cur[k] # Never => Lookup(k) = cur[k]

=============================================================================
