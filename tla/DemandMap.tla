----------------------------- MODULE DemandMap -----------------------------
(***************************************************************************)
(* The mapping of the demand-based FTL (algorithm/demand): a hash table of *)
(* mapping entries split into translation pages, of which the coarse-      *)
(* grained cache (coarse.c) holds MAXC, and a write buffer that is flushed *)
(* when it is full (rw.c).                                                 *)
(*                                                                         *)
(*  - p_main serves one request at a time.  A read that needs the device   *)
(*    returns at once and is served again from the retry queue when the    *)
(*    device has answered, at the place its `jump' says.                   *)
(*  - a write that finds the buffer full flushes it first.  Its entries    *)
(*    are handled like reads, over the queues wb_master_q and wb_retry_q,  *)
(*    but p_main stays in the loop until all of them are in the table.     *)
(*  - the lower layer answers in the order of its queue, in a thread of    *)
(*    its own, or in the caller: then it always answers first.             *)
(*                                                                         *)
(* A key is its hash.  A mapping entry is the key whose value it leads to: *)
(* a key has at most one value on flash that counts, and collection, which *)
(* moves values and translation pages, is not part of this module.         *)
(***************************************************************************)
EXTENDS Integers, Sequences, FiniteSets

CONSTANTS
  Keys,     \* the keys, as their hashes: a set of natural numbers
  Readers,  \* request slots for reads
  NENT,     \* nr_valid_tentries: entries of the table, entry 0 unused
  EPP,      \* entries in a translation page
  MAXC,     \* max_cached_tpages
  WBSIZE,   \* wb_flush_size
  None

\* get_lpa with QUADRATIC_PROBING: the entry of key k at its c-th try.
GetLpa(k, c) == ((k + c + c * c) % (NENT - 1)) + 1

Lpa == 1 .. NENT - 1
Tpage == 0 .. (NENT - 1) \div EPP
Actor == Readers \cup Keys     \* who waits for a page: requests, buffer entries

ASSUME DemandAssumption ==
  /\ Keys \subseteq Nat /\ IsFiniteSet(Keys)
  /\ {EPP, MAXC, WBSIZE} \subseteq Nat \ {0} /\ NENT \in Nat /\ NENT > 2
  /\ None \notin Actor /\ Readers \cap Keys = {}

\* Quadratic probing does not visit the whole table.  The keys are few enough
\* for every one to find an entry among those it does visit.
ASSUME ReachAssumption ==
  \A k \in Keys :
    Cardinality({GetLpa(k, c) : c \in 0 .. NENT}) >= Cardinality(Keys)

VARIABLES
  table,    \* mem_table: entry -> key, None for UINT32_MAX
  wb,       \* write_buffer: the keys in it
  pm,       \* p_main: "idle", "flush" (_do_wb_mapping_update), "drain"
  req,      \* p_main: the key of the write that flushes
  hand,     \* p_main: the buffer entry the flush is working on
  master,   \* wb_master_q
  wbretry,  \* wb_retry_q
  htable,   \* hash_table: entries written by this flush
  updated,  \* number of buffer entries the flush is done with
  max_try,
  want,     \* reads: the key, None when the slot is free
  cnt,      \* hash_params: number of tries
  jump,     \* inflight_params: where to go on
  retry,    \* the interface's retry queue
  cache,    \* the cache: see Cache
  lq,       \* the lower layer's queue
  lasync,   \* the lower layer answers in a thread of its own (LASYNC)
  known,    \* history: the keys ever written
  fault     \* "no", or what went wrong

rvars == <<want, retry>>
fvars == <<wb, pm, req, hand, master, wbretry, htable, updated, max_try>>
vars == <<table, fvars, rvars, cnt, jump, cache, lq, lasync, known, fault>>

\* The cache: the pages in it, most recently used first, and of every page
\* whether it is on flash (t_ppa), dirty, being read, and who waits for that.
Cache == [lru : Seq(Tpage), t_ppa : [Tpage -> BOOLEAN],
          dirty : [Tpage -> BOOLEAN], flying : [Tpage -> BOOLEAN],
          retry_q : [Tpage -> Seq(Actor)]]

\* The elements of a sequence.
Elems(s) == {s[i] : i \in 1 .. Len(s)}

Init ==
  /\ table = [l \in Lpa |-> None]
  /\ wb = {} /\ pm = "idle" /\ req = None /\ hand = None
  /\ master = <<>> /\ wbretry = <<>> /\ htable = {} /\ updated = 0
  /\ max_try = 0
  /\ want = [r \in Readers |-> None]
  /\ cnt = [a \in Actor |-> 0] /\ jump = [a \in Actor |-> "none"]
  /\ retry = <<>>
  /\ cache = [lru |-> <<>>, t_ppa |-> [t \in Tpage |-> FALSE],
              dirty |-> [t \in Tpage |-> FALSE],
              flying |-> [t \in Tpage |-> FALSE],
              retry_q |-> [t \in Tpage |-> <<>>]]
  /\ lq = <<>> /\ lasync \in BOOLEAN
  /\ known = {} /\ fault = "no"

-----------------------------------------------------------------------------
(* The cache (coarse.c).                                                   *)

IDX(l) == l \div EPP
IsHit(t) == t \in Elems(cache.lru)

\* Mutant: one page more than fits.
IsFullLate == Len(cache.lru) > MAXC

IsFull == Len(cache.lru) >= MAXC
Victim == cache.lru[Len(cache.lru)]
DirtyVictim == IsFull /\ cache.dirty[Victim]

\* lru_update: page t becomes the most recently used one.
Touched(lru, t) ==
  LET at == CHOOSE i \in 1 .. Len(lru) : lru[i] = t
  IN  [i \in 1 .. Len(lru) |-> IF i = 1 THEN t ELSE IF i <= at THEN lru[i - 1] ELSE lru[i]]

Touch(t) == [cache EXCEPT !.lru = Touched(@, t)]

\* Mutant: the page is not marked as being read.
LoadedUnmarked(t) == [cache EXCEPT !.flying[t] = FALSE]

\* cg_load: the page is asked for.
Loaded(t) == [cache EXCEPT !.flying[t] = TRUE]

\* cg_wait_if_flying: someone else has asked for it.
Waiting(a, t) == [cache EXCEPT !.retry_q[t] = Append(@, a)]

\* cg_list_up: page t enters the cache; a dirty victim is written to a new
\* translation page; whoever waited for t is released.
ListedUp(t) ==
  [lru     |-> <<t>> \o SubSeq(cache.lru, 1, IF IsFull THEN MAXC - 1
                                             ELSE Len(cache.lru)),
   t_ppa   |-> IF DirtyVictim THEN [cache.t_ppa EXCEPT ![Victim] = TRUE]
               ELSE cache.t_ppa,
   dirty   |-> IF IsFull THEN [cache.dirty EXCEPT ![Victim] = FALSE]
               ELSE cache.dirty,
   flying  |-> [cache.flying EXCEPT ![t] = FALSE],
   retry_q |-> [cache.retry_q EXCEPT ![t] = IF cache.flying[t] THEN <<>> ELSE @]]

Released(t) == IF cache.flying[t] THEN cache.retry_q[t] ELSE <<>>

\* Mutant: the page that is updated stays clean.
UpdatedClean(t) == IF IsHit(t) THEN Touch(t) ELSE cache

\* cg_update: the page is dirty now, if it is in the cache at all.
Updated(t) ==
  IF IsHit(t) THEN [Touch(t) EXCEPT !.dirty[t] = TRUE] ELSE cache

Op(type, a, k) == [type |-> type, who |-> a, key |-> k]

\* An operation a read of a data page carries: the key found there.  A page
\* that this flush has assigned and not yet written has no content.
DataRead(a, l) == Op("datar", a, IF l \in htable THEN None ELSE table[l])

\* Those who waited for page t go on at cache_check_complete (wb_data_check).
Resumed(t, a, j) ==
  [b \in Actor |-> IF b \in Elems(Released(t)) THEN "complete"
                   ELSE IF b = a THEN j ELSE jump[b]]

-----------------------------------------------------------------------------
(* Reads (__demand_read).                                                  *)

\* A new read.  p_main takes it when the retry queue is empty.
NewRead(r, k) ==
  /\ pm = "idle" /\ retry = <<>> /\ want[r] = None
  /\ want' = [want EXCEPT ![r] = k]
  /\ retry' = <<r>>
  /\ UNCHANGED <<table, fvars, cnt, jump, cache, lq, fault>>

\* p_main serves the head of the retry queue; it goes on with h, and q is
\* queued.
Serve(r, h, q) ==
  /\ pm = "idle" /\ retry # <<>> /\ r = Head(retry)
  /\ retry' = h \o Tail(retry) \o q
  /\ UNCHANGED <<table, fvars, fault>>

\* The request ends and its slot is free.
EndRead(r) ==
  /\ want' = [want EXCEPT ![r] = None]
  /\ cnt' = [cnt EXCEPT ![r] = 0]
  /\ jump' = [jump EXCEPT ![r] = "none"]

\* Found in the write buffer, or not found: more tries than any write made,
\* a page that was never written, or an entry that was never written.
ReadEnds(r) ==
  LET l == GetLpa(want[r], cnt[r])
  IN  /\ Serve(r, <<>>, <<>>)
      /\ \/ cnt[r] > max_try
         \/ jump[r] = "none" /\ want[r] \in wb
         \/ /\ jump[r] = "none" /\ ~IsHit(IDX(l))
            /\ ~cache.flying[IDX(l)] /\ ~cache.t_ppa[IDX(l)]
      /\ EndRead(r)
      /\ UNCHANGED <<cache, lq>>

\* The read goes to the cache at entry l.
Tries(r, l) ==
  /\ cnt[r] <= max_try
  /\ l = GetLpa(want[r], cnt[r])

\* The page is in the cache, or was when the request was resumed: the data
\* page is read, unless the entry is empty.
ReadData(r) ==
  \E l \in Lpa :
    /\ Serve(r, <<>>, <<>>) /\ Tries(r, l)
    /\ \/ jump[r] = "none" /\ want[r] \notin wb /\ IsHit(IDX(l))
       \/ jump[r] = "complete"
    /\ cache' = IF jump[r] = "none" THEN Touch(IDX(l)) ELSE cache
    /\ IF table[l] = None
       THEN EndRead(r) /\ lq' = lq
       ELSE /\ lq' = Append(lq, DataRead(r, l))
            /\ jump' = [jump EXCEPT ![r] = "none"]
            /\ UNCHANGED <<want, cnt>>

\* The page is not in the cache: wait for it, or ask for it.
ReadMiss(r) ==
  \E l \in Lpa :
    /\ Serve(r, <<>>, <<>>) /\ Tries(r, l)
    /\ jump[r] = "none" /\ want[r] \notin wb /\ ~IsHit(IDX(l))
    /\ IF cache.flying[IDX(l)]
       THEN cache' = Waiting(r, IDX(l)) /\ UNCHANGED <<jump, lq>>
       ELSE /\ cache.t_ppa[IDX(l)]
            /\ cache' = Loaded(IDX(l))
            /\ jump' = [jump EXCEPT ![r] = "list"]
            /\ lq' = Append(lq, Op("mapr", r, None))
    /\ UNCHANGED <<want, cnt>>

\* The page has been read: it enters the cache.  With a dirty victim the
\* request waits for the victim's write; without, p_main goes on with it.
ReadList(r) ==
  \E l \in Lpa :
    LET t == IDX(l)
    IN  /\ Serve(r, IF DirtyVictim THEN <<>> ELSE <<r>>, Released(t))
        /\ Tries(r, l)
        /\ jump[r] = "list"
        /\ cache' = ListedUp(t)
        /\ jump' = Resumed(t, r, "complete")
        /\ lq' = IF DirtyVictim THEN Append(lq, Op("mapw", r, None)) ELSE lq
        /\ UNCHANGED <<want, cnt>>

-----------------------------------------------------------------------------
(* Writes (__demand_write) and the flush of the buffer.                    *)

\* The keys of a set in order (the skip list).
Ascending(S) ==
  CHOOSE q \in [1 .. Cardinality(S) -> S] :
    \A i, j \in 1 .. Cardinality(S) : i < j => q[i] < q[j]

\* _do_wb_insert with room in the buffer.
Write(k) ==
  /\ pm = "idle" /\ retry = <<>> /\ Cardinality(wb) < WBSIZE
  /\ wb' = wb \cup {k}
  /\ cnt' = [cnt EXCEPT ![k] = 0]
  /\ UNCHANGED <<table, pm, req, hand, master, wbretry, htable, updated, max_try,
                 rvars, jump, cache, lq, fault>>

\* The buffer is full: its entries get pages and are queued.
StartFlush(k) ==
  /\ pm = "idle" /\ retry = <<>> /\ Cardinality(wb) = WBSIZE
  /\ pm' = "flush" /\ req' = k
  /\ master' = Ascending(wb)
  /\ UNCHANGED <<table, wb, hand, wbretry, htable, updated, max_try,
                 rvars, cnt, jump, cache, lq, fault>>

\* The loop of _do_wb_mapping_update takes an entry, a retried one first.
FlushTake ==
  /\ pm = "flush" /\ hand = None /\ updated < WBSIZE
  /\ wbretry # <<>> \/ master # <<>>
  /\ IF wbretry # <<>>
     THEN hand' = Head(wbretry) /\ wbretry' = Tail(wbretry) /\ master' = master
     ELSE hand' = Head(master) /\ master' = Tail(master) /\ wbretry' = wbretry
  /\ UNCHANGED <<table, wb, pm, req, htable, updated, max_try,
                 rvars, cnt, jump, cache, lq, fault>>

\* What a step on the entry in hand leaves alone.
FlushSame == UNCHANGED <<wb, pm, req, wbretry, rvars, fault>>

\* The entry k in hand goes to the cache at entry l.
InHand(k, l, j) ==
  /\ pm = "flush" /\ hand = k /\ jump[k] = j
  /\ l = GetLpa(k, cnt[k])

\* The page is in the cache.
FlushHit(k) ==
  \E l \in Lpa :
    /\ InHand(k, l, "none") /\ IsHit(IDX(l))
    /\ cache' = Touch(IDX(l))
    /\ jump' = [jump EXCEPT ![k] = "complete"]
    /\ FlushSame
    /\ UNCHANGED <<table, hand, master, htable, updated, max_try, cnt, lq>>

\* It is not: wait for it, ask for it, or, when there is nothing to read, list
\* it at once.
FlushMiss(k) ==
  \E l \in Lpa :
    LET t == IDX(l)
    IN  /\ InHand(k, l, "none") /\ ~IsHit(t)
        /\ IF cache.flying[t]
           THEN /\ cache' = Waiting(k, t)
                /\ hand' = None /\ UNCHANGED <<jump, lq>>
           ELSE /\ jump' = [jump EXCEPT ![k] = "list"]
                /\ cache' = IF cache.t_ppa[t] THEN Loaded(t) ELSE cache
                /\ hand' = IF cache.t_ppa[t] THEN None ELSE k
                /\ lq' = IF cache.t_ppa[t] THEN Append(lq, Op("mapr", k, None))
                         ELSE lq
        /\ FlushSame
        /\ UNCHANGED <<table, master, htable, updated, max_try, cnt>>

\* cg_list_up for a buffer entry: all who waited are taken for buffer entries.
FlushList(k) ==
  \E l \in Lpa :
    LET t == IDX(l)
    IN  /\ InHand(k, l, "list")
        /\ cache' = ListedUp(t)
        /\ jump' = Resumed(t, k, "complete")
        /\ wbretry' = wbretry \o Released(t)
        /\ lq' = IF DirtyVictim THEN Append(lq, Op("mapw", k, None)) ELSE lq
        /\ hand' = IF DirtyVictim THEN None ELSE k
        /\ UNCHANGED <<table, wb, pm, req, master, htable, updated, max_try,
                       rvars, cnt, fault>>

\* Mutant: the entries of this flush are not looked up.
InThisFlushNever(l) == FALSE

\* d_htable_find: the entry was written by this flush, for another key.
InThisFlush(l) == l \in htable

\* wb_data_check: an entry of this flush belongs to another key, try the next
\* one; any other is compared with the key on flash.
FlushCheck(k) ==
  \E l \in Lpa :
    /\ InHand(k, l, "complete") /\ table[l] # None
    /\ jump' = [jump EXCEPT ![k] = "none"]
    /\ IF InThisFlush(l)
       THEN cnt' = [cnt EXCEPT ![k] = @ + 1] /\ UNCHANGED <<hand, lq>>
       ELSE /\ lq' = Append(lq, DataRead(k, l)) /\ hand' = None /\ cnt' = cnt
    /\ FlushSame
    /\ UNCHANGED <<table, master, htable, updated, max_try, cache>>

\* Mutant: the number of tries is not recorded.
MaxTryKept(c) == max_try

MaxTry(c) == IF c > max_try THEN c ELSE max_try

\* wb_update, wb_direct_update: the entry is empty, or has the same key.
FlushUpdate(k) ==
  \E l \in Lpa :
    /\ InHand(k, l, "update") \/ (InHand(k, l, "complete") /\ table[l] = None)
    /\ table' = [table EXCEPT ![l] = k]
    /\ cache' = Updated(IDX(l))
    /\ htable' = htable \cup {l}
    /\ updated' = updated + 1
    /\ max_try' = MaxTry(cnt[k])
    /\ hand' = None
    /\ jump' = [jump EXCEPT ![k] = "none"]
    /\ FlushSame
    /\ UNCHANGED <<master, cnt, lq>>

\* The loop polls its queues.
FlushSpin ==
  /\ pm = "flush" /\ hand = None /\ updated < WBSIZE
  /\ wbretry = <<>> /\ master = <<>>
  /\ UNCHANGED <<table, fvars, rvars, cnt, jump, cache, lq, fault>>

\* Every entry is in the table: no entry may be left in a queue, the pages are
\* written (_do_wb_flush).
FlushDone ==
  /\ pm = "flush" /\ hand = None /\ updated = WBSIZE
  /\ IF master = <<>> /\ wbretry = <<>>
     THEN /\ pm' = "drain" /\ fault' = fault
          /\ lq' = Append(lq, Op("dataw", None, None))
     ELSE fault' = "queues" /\ UNCHANGED <<pm, lq>>
  /\ UNCHANGED <<table, wb, req, hand, master, wbretry, htable, updated,
                 max_try, rvars, cnt, jump, cache>>

\* lower_flying_req_wait is over: the write that started the flush is inserted.
Drain ==
  /\ pm = "drain" /\ lq = <<>>
  /\ pm' = "idle" /\ req' = None
  /\ wb' = {req} /\ htable' = {} /\ updated' = 0
  /\ cnt' = [a \in Actor |-> IF a \in Keys THEN 0 ELSE cnt[a]]
  /\ UNCHANGED <<table, hand, master, wbretry, max_try, rvars, jump, cache, lq,
                 fault>>

-----------------------------------------------------------------------------
(* The lower layer and demand_end_req.                                     *)

Answer(type) ==
  /\ lq # <<>> /\ Head(lq).type \in type
  /\ lq' = Tail(lq)
  /\ UNCHANGED <<table, wb, pm, req, hand, htable, updated, max_try, cache>>

\* A translation page was read or written, or the flushed pages: whoever
\* waits for it is queued.
AnswerMap ==
  LET a == Head(lq).who
  IN  /\ Answer({"mapr", "mapw", "dataw"})
      /\ retry' = IF a \in Readers THEN Append(retry, a) ELSE retry
      /\ wbretry' = IF a \in Keys THEN Append(wbretry, a) ELSE wbretry
      /\ UNCHANGED <<master, want, cnt, jump, fault>>

\* A data page was read for a read: it ends, or tries the next entry.
AnswerRead ==
  LET r == Head(lq).who
  IN  /\ Answer({"datar"}) /\ r \in Readers
      /\ IF Head(lq).key = want[r]
         THEN EndRead(r) /\ retry' = retry
         ELSE /\ cnt' = [cnt EXCEPT ![r] = @ + 1]
              /\ retry' = Append(retry, r)
              /\ UNCHANGED <<want, jump>>
      /\ fault' = IF Head(lq).key = None THEN "unwritten" ELSE fault
      /\ UNCHANGED <<master, wbretry>>

\* Mutant: an entry whose key differs is tried at the same place again.
AnswerCheckSame ==
  LET k == Head(lq).who
  IN  /\ Answer({"datar"}) /\ k \in Keys
      /\ IF Head(lq).key = k
         THEN /\ jump' = [jump EXCEPT ![k] = "update"]
              /\ wbretry' = Append(wbretry, k) /\ UNCHANGED <<cnt, master>>
         ELSE /\ master' = Append(master, k) /\ UNCHANGED <<jump, wbretry, cnt>>
      /\ fault' = IF Head(lq).key = None THEN "unwritten" ELSE fault
      /\ UNCHANGED rvars

\* A data page was read for a buffer entry: update, or try the next entry.
AnswerCheck ==
  LET k == Head(lq).who
  IN  /\ Answer({"datar"}) /\ k \in Keys
      /\ IF Head(lq).key = k
         THEN /\ jump' = [jump EXCEPT ![k] = "update"]
              /\ wbretry' = Append(wbretry, k) /\ UNCHANGED <<cnt, master>>
         ELSE /\ cnt' = [cnt EXCEPT ![k] = @ + 1]
              /\ master' = Append(master, k) /\ UNCHANGED <<jump, wbretry>>
      /\ fault' = IF Head(lq).key = None THEN "unwritten" ELSE fault
      /\ UNCHANGED rvars

-----------------------------------------------------------------------------

Requests ==
  \E k \in Keys : Write(k) \/ StartFlush(k) \/ \E r \in Readers : NewRead(r, k)
Read == \E r \in Readers : ReadEnds(r) \/ ReadData(r) \/ ReadMiss(r) \/ ReadList(r)
Flush ==
  \/ FlushTake \/ FlushSpin \/ FlushDone \/ Drain
  \/ \E k \in Keys : FlushHit(k) \/ FlushMiss(k) \/ FlushList(k)
                     \/ FlushCheck(k) \/ FlushUpdate(k)
Lower == AnswerMap \/ AnswerRead \/ AnswerCheck

\* A lower layer that answers in the caller answers before p_main goes on.
PMain == (lasync \/ lq = <<>>) /\ (Requests \/ Read \/ Flush)

\* The history of every step.
After == known' = known \cup wb' /\ UNCHANGED lasync

\* An abort ends the program.
Next == fault = "no" /\ (PMain \/ Lower) /\ After

Spec == Init /\ [][Next]_vars

\* p_main or the lower layer goes on while one of them can; nobody has to make
\* a request.
Runs ==
  /\ fault = "no"
  /\ Lower \/ ((lasync \/ lq = <<>>) /\ (Read \/ Flush))
  /\ After

FairSpec == Spec /\ WF_vars(Runs)

\* Every variable is in its set; the cache never holds more than MAXC pages
\* (cg_is_full), requests wait only in the interface's queue and buffer entries
\* only in those of the flush, although both wait for a page in one retry_q
\* that cg_list_up empties without telling them apart.
TypeOK ==
  /\ table \in [Lpa -> Keys \cup {None}] /\ wb \subseteq Keys
  /\ pm \in {"idle", "flush", "drain"}
  /\ req \in Keys \cup {None} /\ hand \in Keys \cup {None}
  /\ master \in Seq(Keys) /\ wbretry \in Seq(Keys)
  /\ htable \subseteq Lpa /\ updated \in 0 .. WBSIZE /\ max_try \in Nat
  /\ want \in [Readers -> Keys \cup {None}] /\ retry \in Seq(Readers)
  /\ cnt \in [Actor -> Nat]
  /\ jump \in [Actor -> {"none", "list", "complete", "update"}]
  /\ cache \in Cache /\ Len(cache.lru) <= MAXC
  /\ lq \in Seq([type : {"mapr", "mapw", "datar", "dataw"},
                 who : Actor \cup {None}, key : Keys \cup {None}])

\* The page that a request or a buffer entry looks for.
PageOf(a) ==
  IDX(GetLpa(IF a \in Readers THEN want[a] ELSE a, cnt[a]))

\* A page is marked as being read exactly while one request or entry is on its
\* way to list it, so that nobody waits in retry_q for a page that nobody
\* brings, and no page is brought twice: cg_load, cg_wait_if_flying and
\* cg_list_up, over the retries of all requests and of the flush.
FlightsHaveLoaders ==
  \A t \in Tpage :
    LET loaders == {a \in Actor : jump[a] = "list" /\ PageOf(a) = t}
        coming  == Elems(retry) \cup Elems(wbretry) \cup {hand}
                     \cup {lq[i].who : i \in 1 .. Len(lq)}
    IN  IF cache.flying[t]
        THEN /\ Cardinality(loaders) = 1 /\ loaders \subseteq coming
             /\ cache.t_ppa[t] /\ ~IsHit(t)
        ELSE loaders \subseteq {hand} /\ cache.retry_q[t] = <<>>

\* Between flushes every key that was written and is no longer in the buffer
\* has exactly one entry, within max_try tries, and no try before it meets an
\* empty entry: a read that follows its tries finds it.
ProbingFindsKeys ==
  pm = "idle" =>
    \A k \in known \ wb :
      /\ Cardinality({l \in Lpa : table[l] = k}) = 1
      /\ \E c \in 0 .. max_try :
           /\ table[GetLpa(k, c)] = k
           /\ \A d \in 0 .. c - 1 : table[GetLpa(k, d)] \notin {None, k}

\* The flush leaves no entry in a queue (the abort of _do_wb_mapping_update),
\* and no data page is read before it is written.
NoFault == fault = "no"

\* A written entry can be read again: its page is in the cache or on flash.
EntriesReachable ==
  pm = "idle" =>
    \A l \in Lpa :
      table[l] # None => IsHit(IDX(l)) \/ cache.t_ppa[IDX(l)]

\* With a lower layer that answers in the caller, written entries stay
\* readable over all evictions.
EntriesReachableSync == ~lasync => EntriesReachable

\* A flush that does not meet a page being read for a request ends.
FlushEnds ==
  (pm = "flush" /\ \A r \in Readers : jump[r] # "list") ~> (pm = "idle")

=============================================================================
