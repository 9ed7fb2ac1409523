-------------------------- MODULE Interface_proofs --------------------------
(***************************************************************************)
(* Proofs about module Interface: for any number of clients, keys and      *)
(* requests and any queue depth, over every interleaving of the clients,   *)
(* p_main, the algorithm and the bench's thread,                           *)
(*  - a request is in exactly one place until it ends (EachRequestOnce),   *)
(*  - a queue never overflows (RoomInQueues),                              *)
(*  - the tree of queued SETs is exact (QManagerExact),                    *)
(*  - every queued request has one wake-up (WakeupsMatchWork),             *)
(*  - a GET does not pass a queued SET of its key (ReadsSeeQueuedWrites).  *)
(***************************************************************************)
EXTENDS Interface, TLAPS, FiniteSetTheorems

\* A request as the threads hand it around.
Rec == [id : Nat, type : {"set", "get", "del"}, key : Keys, tries : Nat, seen : Nat]

\* Client c holds its request: it is in inf_make_req and has not queued it yet.
Holds(c) == cl[c].pc \in {"assign", "enqueue", "end"}

\* p_main holds a request that the algorithm does not have yet.
MainHolds == pm.pc \in {"delete", "call"}

\* Where request i is.
AtClient(i) == \E c \in Clients : Holds(c) /\ cl[c].req.id = i
InQueue(q, i) == \E j \in DOMAIN q : q[j].id = i
AtMain(i) == MainHolds /\ pm.req.id = i
InAlgo(i) == \E r \in inalgo : r.id = i

\* No queue has two requests with the same id.
DistinctIds(q) == \A j, k \in DOMAIN q : q[j].id = q[k].id => j = k

Truth(p) == IF p THEN 1 ELSE 0

\* In how many kinds of places request i is, its end included.
Spots(i) ==
  Truth(AtClient(i)) + Truth(InQueue(req_q, i)) + Truth(InQueue(req_rq, i))
  + Truth(InQueue(retry_q, i)) + Truth(AtMain(i)) + Truth(InAlgo(i))
  + Truth(i \in done)

-----------------------------------------------------------------------------
(* The invariant.                                                          *)

ClientType ==
  /\ cl \in [Clients -> [pc : {"idle", "assign", "enqueue", "end", "release"},
                         req : Rec \cup {NoReq}]]
  /\ \A c \in Clients : cl[c].pc = "idle" <=> cl[c].req = NoReq

MainType ==
  /\ pm \in [pc : {"grap", "retry", "read", "write", "giveback", "delete", "call",
                   "return", "exit", "abort"},
             req : Rec \cup {NoReq}]
  /\ MainHolds => pm.req \in Rec

DataType ==
  /\ flying \in Int /\ inf_cond \in Int /\ made \in Nat
  /\ req_q \in Seq(Rec) /\ req_rq \in Seq(Rec) /\ retry_q \in Seq(Rec)
  /\ qmanager \subseteq Rec /\ inalgo \subseteq Rec /\ retrying \subseteq Rec
  /\ stopflag \in BOOLEAN /\ done \subseteq 1 .. made
  /\ acc \in [Keys -> Nat] /\ app \in [Keys -> Nat]

TypeInv == ClientType /\ MainType /\ DataType

\* Requests wait in the queue of their type.
QueueTypes ==
  /\ \A r \in Elems(req_q) : r.type = "set"
  /\ \A r \in Elems(req_rq) : r.type # "set"
  /\ \A r \in Elems(retry_q) : r.type = "get"
  /\ pm.pc = "delete" => pm.req.type = "set"

OnceInv ==
  /\ \A i \in 1 .. made : Spots(i) = 1
  /\ \A i : AtClient(i) \/ InQueue(req_q, i) \/ InQueue(req_rq, i) \/ InQueue(retry_q, i)
            \/ AtMain(i) \/ InAlgo(i) => i \in 1 .. made
  /\ \A c, d \in Clients : Holds(c) /\ Holds(d) /\ cl[c].req.id = cl[d].req.id => c = d
  /\ DistinctIds(req_q) /\ DistinctIds(req_rq) /\ DistinctIds(retry_q)
  /\ \A r, s \in inalgo : r.id = s.id => r = s
  /\ flying = made - Cardinality(done) /\ flying <= QDEPTH

\* The requests that some thread, queue or the algorithm holds.
Held ==
  {cl[c].req : c \in {d \in Clients : Holds(d)}}
  \cup Elems(req_q) \cup Elems(req_rq) \cup Elems(retry_q)
  \cup {r \in {pm.req} : MainHolds} \cup inalgo

\* A wake-up of inf_assign_try is older than the request it is for, so the algorithm
\* never puts a request back that is equal to one not announced yet.
TriesInv ==
  /\ \A a \in retrying : a.id \in 1 .. made
  /\ \A a \in retrying, r \in Held : a.id = r.id => a.tries <= r.tries
  /\ IsFiniteSet(retrying)

\* p_main calls algo->write for a SET of key k.
Writing(k) == pm.pc = "call" /\ pm.req.type = "set" /\ pm.req.key = k

\* SETs leave qmanager before they reach the algorithm, one at a time, and a GET was
\* queued when none of its key was in qmanager.
SeenInv ==
  /\ \A k \in Keys : acc[k] = app[k] + Truth(Queued(k)) + Truth(Writing(k))
  /\ \A r \in Held : r.type = "get" => r.seen <= app[r.key] + Truth(Writing(r.key))

IInv ==
  /\ TypeInv /\ QueueTypes /\ OnceInv /\ TriesInv /\ QManagerExact /\ SeenInv
  /\ WakeupsMatchWork

-----------------------------------------------------------------------------
(* Queues.                                                                 *)

\* q_dequeue.
LEMMA TailLemma ==
  ASSUME NEW q \in Seq(Rec), q # << >>, DistinctIds(q)
  PROVE  /\ Head(q) \in Rec /\ Tail(q) \in Seq(Rec) /\ Len(Tail(q)) = Len(q) - 1
         /\ InQueue(q, Head(q).id) /\ DistinctIds(Tail(q))
         /\ \A i : InQueue(Tail(q), i) <=> InQueue(q, i) /\ i # Head(q).id
         /\ Elems(q) = Elems(Tail(q)) \cup {Head(q)}
<1>1. /\ Len(q) \in Nat /\ Len(q) > 0 /\ DOMAIN q = 1 .. Len(q)
      /\ Head(q) = q[1] /\ Head(q) \in Rec
      /\ Tail(q) \in Seq(Rec) /\ Len(Tail(q)) = Len(q) - 1
      /\ DOMAIN Tail(q) = 1 .. Len(q) - 1
      /\ \A i \in 1 .. Len(q) - 1 : Tail(q)[i] = q[i + 1]
  OBVIOUS
<1>2. 1 \in DOMAIN q
  BY <1>1
<1>3. DistinctIds(Tail(q))
  BY <1>1 DEF DistinctIds
<1>4. ASSUME NEW i PROVE InQueue(Tail(q), i) <=> InQueue(q, i) /\ i # Head(q).id
  <2>1. ASSUME InQueue(Tail(q), i) PROVE InQueue(q, i) /\ i # Head(q).id
    <3>1. PICK j \in 1 .. Len(q) - 1 : q[j + 1].id = i
      BY <2>1, <1>1, Zenon DEF InQueue
    <3>2. j + 1 \in DOMAIN q /\ j + 1 # 1
      BY <1>1
    <3>3. QED
      BY <3>1, <3>2, <1>1, <1>2, Zenon DEF InQueue, DistinctIds
  <2>2. ASSUME InQueue(q, i), i # Head(q).id PROVE InQueue(Tail(q), i)
    <3>1. PICK j \in DOMAIN q : q[j].id = i
      BY <2>2, Zenon DEF InQueue
    <3>2. j - 1 \in DOMAIN Tail(q) /\ Tail(q)[j - 1].id = i
      BY <3>1, <2>2, <1>1
    <3>3. QED
      BY <3>2, Zenon DEF InQueue
  <2>3. QED
    BY <2>1, <2>2, Zenon
<1>5. Elems(q) = Elems(Tail(q)) \cup {Head(q)}
  <2>1. ASSUME NEW x \in Elems(q) PROVE x \in Elems(Tail(q)) \cup {Head(q)}
    <3>1. PICK j \in 1 .. Len(q) : q[j] = x
      BY <1>1, Zenon DEF Elems
    <3>2. CASE j = 1
      BY <3>1, <3>2, <1>1, Zenon
    <3>3. CASE j # 1
      <4>1. j - 1 \in DOMAIN Tail(q) /\ Tail(q)[j - 1] = x
        BY <3>1, <3>3, <1>1
      <4>2. QED
        BY <4>1, Zenon DEF Elems
    <3>4. QED
      BY <3>2, <3>3, Zenon
  <2>2. ASSUME NEW x \in Elems(Tail(q)) PROVE x \in Elems(q)
    <3>1. PICK j \in 1 .. Len(q) - 1 : q[j + 1] = x
      BY <1>1, Zenon DEF Elems
    <3>2. j + 1 \in DOMAIN q
      BY <1>1
    <3>3. QED
      BY <3>1, <3>2, Zenon DEF Elems
  <2>3. Head(q) \in Elems(q)
    BY <1>1, <1>2, Zenon DEF Elems
  <2>4. QED
    BY <2>1, <2>2, <2>3, Zenon
<1>6. QED
  BY <1>1, <1>2, <1>3, <1>4, <1>5, Zenon DEF InQueue

\* q_enqueue with room.
LEMMA AppendLemma ==
  ASSUME NEW q \in Seq(Rec), NEW r \in Rec, DistinctIds(q), ~InQueue(q, r.id)
  PROVE  /\ Append(q, r) \in Seq(Rec) /\ Len(Append(q, r)) = Len(q) + 1
         /\ DistinctIds(Append(q, r))
         /\ \A i : InQueue(Append(q, r), i) <=> InQueue(q, i) \/ i = r.id
         /\ Elems(Append(q, r)) = Elems(q) \cup {r}
<1>1. /\ Len(q) \in Nat /\ Append(q, r) \in Seq(Rec) /\ DOMAIN q = 1 .. Len(q)
      /\ Len(Append(q, r)) = Len(q) + 1 /\ DOMAIN Append(q, r) = 1 .. Len(q) + 1
      /\ \A i \in 1 .. Len(q) : Append(q, r)[i] = q[i]
      /\ Append(q, r)[Len(q) + 1] = r
  OBVIOUS
<1>2. DOMAIN Append(q, r) = DOMAIN q \cup {Len(q) + 1}
  BY <1>1
<1>3. DistinctIds(Append(q, r))
  BY <1>1, <1>2, Zenon DEF DistinctIds, InQueue
<1>4. ASSUME NEW i PROVE InQueue(Append(q, r), i) <=> InQueue(q, i) \/ i = r.id
  BY <1>1, <1>2, Zenon DEF InQueue
<1>5. Elems(Append(q, r)) = Elems(q) \cup {r}
  BY <1>1, <1>2 DEF Elems
<1>6. QED
  BY <1>1, <1>3, <1>4, <1>5, Zenon

\* How many entries of a queue have id i.
LEMMA QueueCount ==
  ASSUME NEW q, DistinctIds(q), NEW i
  PROVE  Cardinality({j \in DOMAIN q : q[j].id = i}) = Truth(InQueue(q, i))
<1>1. CASE InQueue(q, i)
  <2>1. PICK j \in DOMAIN q : q[j].id = i
    BY <1>1, Zenon DEF InQueue
  <2>2. {k \in DOMAIN q : q[k].id = i} = {j}
    BY <2>1, Zenon DEF DistinctIds
  <2>3. QED
    BY <1>1, <2>2, FS_Singleton, Zenon DEF Truth
<1>2. CASE ~InQueue(q, i)
  <2>1. {k \in DOMAIN q : q[k].id = i} = {}
    BY <1>2, Zenon DEF InQueue
  <2>2. QED
    BY <1>2, <2>1, FS_EmptySet, Zenon DEF Truth
<1>3. QED
  BY <1>1, <1>2, Zenon

-----------------------------------------------------------------------------
(* Clients.                                                                *)

\* All clients but c stay as they are.
OthersSame(c) == \A d \in Clients \ {c} : cl'[d] = cl[d]

\* Client c gives its request away: to a queue, or it ends.
LEMMA ClientGives ==
  ASSUME NEW c \in Clients, OnceInv, Holds(c), OthersSame(c), ~Holds(c)'
  PROVE  /\ AtClient(cl[c].req.id)
         /\ \A i : AtClient(i)' <=> AtClient(i) /\ i # cl[c].req.id
         /\ \A d, e \in Clients :
              (Holds(d) /\ Holds(e) /\ cl[d].req.id = cl[e].req.id)' => d = e
BY DEF OnceInv, AtClient, Holds, OthersSame

\* Client c keeps its request.
LEMMA ClientKeeps ==
  ASSUME NEW c \in Clients, OnceInv, Holds(c), OthersSame(c), Holds(c)',
         cl'[c].req.id = cl[c].req.id
  PROVE  /\ \A i : AtClient(i)' <=> AtClient(i)
         /\ \A d, e \in Clients :
              (Holds(d) /\ Holds(e) /\ cl[d].req.id = cl[e].req.id)' => d = e
BY DEF OnceInv, AtClient, Holds, OthersSame

\* Client c makes a request.
LEMMA ClientMakes ==
  ASSUME NEW c \in Clients, OnceInv, ~Holds(c), OthersSame(c), Holds(c)',
         ~AtClient(cl'[c].req.id)
  PROVE  /\ \A i : AtClient(i)' <=> AtClient(i) \/ i = cl'[c].req.id
         /\ \A d, e \in Clients :
              (Holds(d) /\ Holds(e) /\ cl[d].req.id = cl[e].req.id)' => d = e
BY DEF OnceInv, AtClient, Holds, OthersSame

-----------------------------------------------------------------------------
(* Types.                                                                  *)

\* Only an idle client has no request.
LEMMA HeldTypes ==
  ASSUME ClientType, NEW c \in Clients, cl[c].pc # "idle"
  PROVE  cl[c].req \in Rec
BY Zenon DEF ClientType

\* The fields of a request.
LEMMA RecFields ==
  ASSUME NEW r \in Rec
  PROVE  /\ r.id \in Nat /\ r.type \in {"set", "get", "del"} /\ r.key \in Keys
         /\ r.tries \in Nat /\ r.seen \in Nat
BY Zenon DEF Rec

\* The head and the tail of a queue.
LEMMA SeqTypes ==
  ASSUME NEW q \in Seq(Rec), q # << >>
  PROVE  Head(q) \in Rec /\ Tail(q) \in Seq(Rec)
OBVIOUS

\* An idle thread's request is none.
LEMMA NoReqIsNone == NoReq \notin Rec
BY DEF Rec, NoReq

\* Clients' steps keep the types.
LEMMA ClientStepType ==
  ASSUME TypeInv, OnceInv, NEW c \in Clients, ClientStep(c)
  PROVE  TypeInv'
<1>0. ClientType /\ MainType /\ DataType
  BY Zenon DEF TypeInv
<1>1. pm' = pm
  BY Zenon DEF ClientStep, MakeReq, WriteChecking, ReadChecking, Enqueue, Announce, EndAtOnce
<1>2. MainType'
  BY <1>0, <1>1, Zenon DEF MainType, MainHolds
<1>3. CASE MakeReq(c)
  <2>1. PICK t \in Types, k \in Keys : cl' = [cl EXCEPT ![c] =
          [pc |-> "assign",
           req |-> [id |-> made + 1, type |-> t, key |-> k, tries |-> 0, seen |-> 0]]]
    BY <1>3, Zenon DEF MakeReq
  <2>2. [id |-> made + 1, type |-> t, key |-> k, tries |-> 0, seen |-> 0] \in Rec
    BY <1>0, InterfaceAssumption DEF Rec, DataType
  <2>3. ClientType'
    BY <1>0, <2>1, <2>2, NoReqIsNone, Zenon DEF ClientType
  <2>4. DataType'
    BY <1>0, <1>3 DEF MakeReq, DataType, queues, history
  <2>5. QED
    BY <1>2, <2>3, <2>4, Zenon DEF TypeInv
<1>4. CASE WriteChecking(c)
  <2>1. cl[c].req \in Rec
    BY <1>0, <1>4, HeldTypes, Zenon DEF WriteChecking
  <2>2. ClientType'
    BY <1>0, <1>4 DEF WriteChecking, ClientType
  <2>3. acc' \in [Keys -> Nat]
    <3>1. acc \in [Keys -> Nat] /\ cl[c].req.key \in Keys
      BY <1>0, <2>1, RecFields, Zenon DEF DataType
    <3>2. acc' = acc \/ acc' = [acc EXCEPT ![cl[c].req.key] = @ + 1]
      BY <1>4, Zenon DEF WriteChecking
    <3>3. QED
      BY <3>1, <3>2
  <2>4. DataType'
    BY <1>0, <1>4, <2>1, <2>3, Zenon DEF WriteChecking, DataType, queues
  <2>5. QED
    BY <1>2, <2>2, <2>4, Zenon DEF TypeInv
<1>5. CASE ReadChecking(c)
  <2>1. cl[c].req \in Rec
    BY <1>0, <1>5, HeldTypes, Zenon DEF ReadChecking
  <2>2. [cl[c].req EXCEPT !.seen = acc[cl[c].req.key]] \in Rec
    BY <1>0, <2>1, Zenon DEF Rec, DataType
  <2>3. ClientType'
    BY <1>0, <1>5, <2>1, <2>2, NoReqIsNone, Zenon DEF ReadChecking, ClientType
  <2>4. DataType'
    BY <1>0, <1>5, Zenon DEF ReadChecking, DataType, queues
  <2>5. QED
    BY <1>2, <2>3, <2>4, Zenon DEF TypeInv
<1>6. CASE Enqueue(c)
  <2>1. cl[c].req \in Rec
    BY <1>0, <1>6, HeldTypes, Zenon DEF Enqueue
  <2>2. ClientType'
    BY <1>0, <1>6, Zenon DEF Enqueue, ClientType
  <2>3. DataType'
    BY <1>0, <1>6, <2>1 DEF Enqueue, DataType, history
  <2>4. QED
    BY <1>2, <2>2, <2>3, Zenon DEF TypeInv
<1>7. CASE Announce(c)
  <2>1. ClientType'
    BY <1>0, <1>7, Zenon DEF Announce, ClientType, Idle
  <2>2. DataType'
    BY <1>0, <1>7 DEF Announce, DataType, queues, history
  <2>3. QED
    BY <1>2, <2>1, <2>2, Zenon DEF TypeInv
<1>8. CASE EndAtOnce(c)
  <2>1. ClientType'
    BY <1>0, <1>8, Zenon DEF EndAtOnce, ClientType, Idle
  <2>2. cl[c].req.id \in 1 .. made
    BY <1>8, Zenon DEF EndAtOnce, OnceInv, AtClient, Holds
  <2>3. done' \subseteq 1 .. made' /\ flying' \in Int
    <3>1. /\ done' = done \cup {cl[c].req.id} /\ flying' = flying - 1 /\ made' = made
          /\ done \subseteq 1 .. made /\ flying \in Int
      BY <1>0, <1>8, Zenon DEF EndAtOnce, EndReq, DataType
    <3>2. done' \subseteq 1 .. made'
      BY <2>2, <3>1, Zenon
    <3>3. flying' \in Int
      BY <3>1
    <3>4. QED
      BY <3>2, <3>3, Zenon
  <2>4. DataType'
    BY <1>0, <1>8, <2>3, Zenon DEF EndAtOnce, DataType, queues, history
  <2>5. QED
    BY <1>2, <2>1, <2>4, Zenon DEF TypeInv
<1>9. QED
  BY <1>3, <1>4, <1>5, <1>6, <1>7, <1>8, Zenon DEF ClientStep

\* So do those of p_main.
LEMMA PMainType ==
  ASSUME TypeInv, PMain
  PROVE  TypeInv'
<1>0. ClientType /\ MainType /\ DataType
  BY Zenon DEF TypeInv
<1>1. cl' = cl
  BY Zenon DEF PMain, PGrap, PRetry, PRead, PWrite, PGiveBack, PDelete, PCall, PReturn
<1>2. ClientType'
  BY <1>0, <1>1, Zenon DEF ClientType
<1>3. CASE PGrap \/ PGiveBack \/ PReturn
  <2>1. MainType'
    <3>1. CASE PGrap
      BY <1>0, <3>1, Zenon DEF PGrap, MainType, MainHolds
    <3>2. CASE PGiveBack
      BY <1>0, <3>2, Zenon DEF PGiveBack, MainType, MainHolds
    <3>3. CASE PReturn
      BY <1>0, <3>3, Zenon DEF PReturn, MainType, MainHolds
    <3>4. QED
      BY <1>3, <3>1, <3>2, <3>3, Zenon
  <2>2. DataType'
    <3>1. CASE PGrap
      BY <1>0, <3>1 DEF PGrap, DataType, queues, history
    <3>2. CASE PGiveBack
      BY <1>0, <3>2 DEF PGiveBack, DataType, queues, history
    <3>3. CASE PReturn
      BY <1>0, <3>3, Zenon DEF PReturn, DataType, queues, history
    <3>4. QED
      BY <1>3, <3>1, <3>2, <3>3, Zenon
  <2>3. QED
    BY <1>2, <2>1, <2>2, Zenon DEF TypeInv
<1>4. CASE PRetry
  <2>1. retry_q # << >> => Head(retry_q) \in Rec /\ Tail(retry_q) \in Seq(Rec)
    BY <1>0, SeqTypes, Zenon DEF DataType
  <2>2. MainType'
    BY <1>0, <1>4, <2>1 DEF PRetry, MainType, MainHolds
  <2>3. retry_q' \in Seq(Rec)
    BY <1>0, <1>4, <2>1, Zenon DEF PRetry, DataType
  <2>4. DataType'
    BY <1>0, <1>4, <2>3, Zenon DEF PRetry, DataType, history
  <2>5. QED
    BY <1>2, <2>2, <2>4, Zenon DEF TypeInv
<1>5. CASE PRead
  <2>1. req_rq # << >> => Head(req_rq) \in Rec /\ Tail(req_rq) \in Seq(Rec)
    BY <1>0, SeqTypes, Zenon DEF DataType
  <2>2. MainType'
    BY <1>0, <1>5, <2>1 DEF PRead, MainType, MainHolds
  <2>3. req_rq' \in Seq(Rec)
    BY <1>0, <1>5, <2>1, Zenon DEF PRead, DataType
  <2>4. DataType'
    BY <1>0, <1>5, <2>3, Zenon DEF PRead, DataType, history
  <2>5. QED
    BY <1>2, <2>2, <2>4, Zenon DEF TypeInv
<1>6. CASE PWrite
  <2>1. req_q # << >> => Head(req_q) \in Rec /\ Tail(req_q) \in Seq(Rec)
    BY <1>0, SeqTypes, Zenon DEF DataType
  <2>2. MainType'
    BY <1>0, <1>6, <2>1 DEF PWrite, MainType, MainHolds
  <2>3. req_q' \in Seq(Rec)
    BY <1>0, <1>6, <2>1, Zenon DEF PWrite, DataType
  <2>4. DataType'
    BY <1>0, <1>6, <2>3, Zenon DEF PWrite, DataType, history
  <2>5. QED
    BY <1>2, <2>2, <2>4, Zenon DEF TypeInv
<1>7. CASE PDelete
  <2>1. MainType'
    BY <1>0, <1>7, Zenon DEF PDelete, MainType, MainHolds
  <2>2. DataType'
    BY <1>0, <1>7, Zenon DEF PDelete, DataType, queues, history
  <2>3. QED
    BY <1>2, <2>1, <2>2, Zenon DEF TypeInv
<1>8. CASE PCall
  <2>1. pm.req \in Rec
    BY <1>0, <1>8, Zenon DEF PCall, MainType, MainHolds
  <2>2. MainType'
    BY <1>0, <1>8, Zenon DEF PCall, MainType, MainHolds
  <2>3. app' \in [Keys -> Nat]
    <3>1. app \in [Keys -> Nat]
      BY <1>0, Zenon DEF DataType
    <3>2. pm.req.key \in Keys
      BY <2>1, Zenon DEF Rec
    <3>3. app' = app \/ app' = [app EXCEPT ![pm.req.key] = @ + 1]
      BY <1>8, Zenon DEF PCall
    <3>4. app[pm.req.key] + 1 \in Nat
      BY <3>1, <3>2
    <3>5. QED
      BY <3>1, <3>2, <3>3, <3>4, Zenon
  <2>4. DataType'
    BY <1>0, <1>8, <2>1, <2>3, Zenon DEF PCall, DataType, queues
  <2>5. QED
    BY <1>2, <2>2, <2>4, Zenon DEF TypeInv
<1>9. QED
  BY <1>3, <1>4, <1>5, <1>6, <1>7, <1>8, Zenon DEF PMain

\* And those of the algorithm and the bench's thread.
LEMMA OthersType ==
  ASSUME TypeInv, OnceInv,
         \/ \E r \in inalgo : AlgoEnd(r) \/ AlgoRetry(r)
         \/ \E r \in retrying : AlgoAnnounce(r)
         \/ Drain \/ Stop \/ WakeToStop \/ UNCHANGED vars
  PROVE  TypeInv'
<1>0. ClientType /\ MainType /\ DataType
  BY Zenon DEF TypeInv
<1>1. cl' = cl /\ pm' = pm
  BY Zenon DEF AlgoEnd, AlgoRetry, AlgoAnnounce, Drain, Stop, WakeToStop, vars
<1>2. ClientType' /\ MainType'
  BY <1>0, <1>1, Zenon DEF ClientType, MainType, MainHolds
<1>3. ASSUME NEW r \in inalgo, AlgoEnd(r) PROVE DataType'
  <2>1. r.id \in 1 .. made
    BY Zenon DEF OnceInv, InAlgo
  <2>2. done' \subseteq 1 .. made' /\ flying' \in Int
    <3>1. /\ done' = done \cup {r.id} /\ flying' = flying - 1 /\ made' = made
          /\ done \subseteq 1 .. made /\ flying \in Int
      BY <1>0, <1>3, Zenon DEF AlgoEnd, EndReq, DataType
    <3>2. done' \subseteq 1 .. made'
      BY <2>1, <3>1, Zenon
    <3>3. flying' \in Int
      BY <3>1
    <3>4. QED
      BY <3>2, <3>3, Zenon
  <2>3. QED
    BY <1>0, <1>3, <2>2, Zenon DEF AlgoEnd, DataType, queues, history
<1>4. ASSUME NEW r \in inalgo, AlgoRetry(r) PROVE DataType'
  <2>1. [r EXCEPT !.tries = @ + 1] \in Rec
    <3>1. r \in Rec
      BY <1>0, Zenon DEF DataType
    <3>2. QED
      BY <3>1 DEF Rec
  <2>2. retry_q' \in Seq(Rec)
    BY <1>0, <1>4, <2>1 DEF AlgoRetry, DataType
  <2>3. QED
    BY <1>0, <1>4, <2>1, <2>2, Zenon DEF AlgoRetry, DataType, history
<1>5. ASSUME NEW r \in retrying, AlgoAnnounce(r) PROVE DataType'
  BY <1>0, <1>5 DEF AlgoAnnounce, DataType, queues, history
<1>6. ASSUME Drain \/ Stop \/ WakeToStop \/ UNCHANGED vars PROVE DataType'
  <2>1. CASE Drain
    BY <1>0, <2>1, Zenon DEF Drain, DataType, queues, history
  <2>2. CASE Stop
    BY <1>0, <2>2, Zenon DEF Stop, DataType, queues, history
  <2>3. CASE WakeToStop
    BY <1>0, <2>3 DEF WakeToStop, DataType, queues, history
  <2>4. CASE UNCHANGED vars
    BY <1>0, <2>4, Zenon DEF vars, DataType, queues, history
  <2>5. QED
    BY <1>6, <2>1, <2>2, <2>3, <2>4, Zenon
<1>7. DataType'
  BY <1>3, <1>4, <1>5, <1>6, Zenon
<1>8. QED
  BY <1>2, <1>7, Zenon DEF TypeInv

-----------------------------------------------------------------------------
(* Every request is in one place.                                          *)

\* A request with one holder has no other one, and has not ended.
LEMMA Exclusive ==
  ASSUME OnceInv, NEW i \in 1 .. made
  PROVE  /\ AtClient(i) => /\ ~InQueue(req_q, i) /\ ~InQueue(req_rq, i)
                           /\ ~InQueue(retry_q, i) /\ ~AtMain(i) /\ ~InAlgo(i)
         /\ InQueue(req_q, i) => /\ ~InQueue(req_rq, i) /\ ~InQueue(retry_q, i)
                                 /\ ~AtMain(i) /\ ~InAlgo(i)
         /\ InQueue(req_rq, i) => ~InQueue(retry_q, i) /\ ~AtMain(i) /\ ~InAlgo(i)
         /\ InQueue(retry_q, i) => ~AtMain(i) /\ ~InAlgo(i)
         /\ AtMain(i) => ~InAlgo(i)
         /\ i \in done => /\ ~AtClient(i) /\ ~InQueue(req_q, i) /\ ~InQueue(req_rq, i)
                          /\ ~InQueue(retry_q, i) /\ ~AtMain(i) /\ ~InAlgo(i)
<1>1. Spots(i) = 1
  BY Zenon DEF OnceInv
<1>2. QED
  BY <1>1 DEF Spots, Truth

\* A step that moves no request.
LEMMA OnceSame ==
  ASSUME OnceInv, UNCHANGED <<made, done, flying, req_q, req_rq, retry_q, inalgo>>,
         \A i : AtClient(i)' <=> AtClient(i),
         \A i : AtMain(i)' <=> AtMain(i),
         \A c, d \in Clients :
            (Holds(c) /\ Holds(d) /\ cl[c].req.id = cl[d].req.id)' => c = d
  PROVE  OnceInv'
<1>1. \A i : InAlgo(i)' <=> InAlgo(i)
  BY Zenon DEF InAlgo
<1>2. ASSUME NEW i \in 1 .. made' PROVE Spots(i)' = 1
  <2>1. i \in 1 .. made /\ Spots(i) = 1
    BY Zenon DEF OnceInv
  <2>2. QED
    BY <1>1, <2>1, Zenon DEF Spots, Truth
<1>3. QED
  BY <1>1, <1>2, Zenon DEF OnceInv

\* The requests that ended are finitely many.
LEMMA DoneFinite ==
  ASSUME TypeInv
  PROVE  IsFiniteSet(done) /\ Cardinality(done) \in Nat
<1>1. done \subseteq 1 .. made /\ made \in Nat
  BY Zenon DEF TypeInv, DataType
<1>2. IsFiniteSet(1 .. made)
  BY <1>1, FS_Interval
<1>3. IsFiniteSet(done)
  BY <1>1, <1>2, FS_Subset, Zenon
<1>4. QED
  BY <1>3, FS_CardinalityType, Zenon

\* The end of request n, which was at a client or in the algorithm.
LEMMA EndCounts ==
  ASSUME TypeInv, OnceInv, NEW n \in 1 .. made, n \notin done,
         done' = done \cup {n}, flying' = flying - 1, made' = made
  PROVE  flying' = made' - Cardinality(done') /\ flying' <= QDEPTH
<1>1. made \in Nat
  BY Zenon DEF TypeInv, DataType
<1>2. IsFiniteSet(done) /\ Cardinality(done) \in Nat
  BY DoneFinite, Zenon
<1>3. Cardinality(done') = Cardinality(done) + 1 /\ Cardinality(done) \in Nat
  BY <1>2, FS_AddElement, Zenon
<1>4. QED
  BY <1>1, <1>3, InterfaceAssumption DEF OnceInv

\* cl_grap(flying) and the request that a client makes.
LEMMA MadeReq ==
  ASSUME ClientType, NEW c \in Clients, MakeReq(c)
  PROVE  /\ cl[c].pc = "idle" /\ cl'[c].pc = "assign" /\ cl'[c].req.id = made + 1
         /\ OthersSame(c) /\ made' = made + 1 /\ flying' = flying + 1 /\ flying # QDEPTH
         /\ UNCHANGED <<req_q, req_rq, retry_q, done, qmanager, inf_cond>>
<1>1. PICK r : cl' = [cl EXCEPT ![c] = [pc |-> "assign", req |-> r]] /\ r.id = made + 1
  <2>1. PICK t \in Types, k \in Keys : cl' = [cl EXCEPT ![c] =
          [pc |-> "assign",
           req |-> [id |-> made + 1, type |-> t, key |-> k, tries |-> 0, seen |-> 0]]]
    BY Zenon DEF MakeReq
  <2> DEFINE q == [id |-> made + 1, type |-> t, key |-> k, tries |-> 0, seen |-> 0]
  <2>2. q.id = made + 1 /\ cl' = [cl EXCEPT ![c] = [pc |-> "assign", req |-> q]]
    BY <2>1, Zenon
  <2> HIDE DEF q
  <2>3. QED
    BY <2>2, Zenon
<1>2. cl'[c].pc = "assign" /\ cl'[c].req.id = made + 1
  BY <1>1, Zenon DEF ClientType
<1>3. OthersSame(c)
  BY <1>1, Zenon DEF OthersSame, ClientType
<1>4. QED
  BY <1>2, <1>3, Zenon DEF MakeReq, queues

\* A client's step keeps every request in one place.
LEMMA ClientOnce ==
  ASSUME TypeInv, OnceInv, NEW c \in Clients, ClientStep(c)
  PROVE  OnceInv'
<1> DEFINE n == cl[c].req.id
<1>0. /\ ClientType /\ made \in Nat /\ pm' = pm /\ inalgo' = inalgo
      /\ \A i : AtMain(i)' <=> AtMain(i)
      /\ \A i : InAlgo(i)' <=> InAlgo(i)
  BY Zenon DEF ClientStep, MakeReq, WriteChecking, ReadChecking, Enqueue, Announce, EndAtOnce,
         AtMain, MainHolds, InAlgo, TypeInv, DataType
<1>1. CASE MakeReq(c)
  <2>1. /\ cl'[c].pc = "assign" /\ cl'[c].req.id = made + 1 /\ OthersSame(c)
        /\ cl[c].pc = "idle" /\ made' = made + 1 /\ flying' = flying + 1 /\ flying # QDEPTH
        /\ UNCHANGED <<req_q, req_rq, retry_q, done>>
    BY <1>0, <1>1, MadeReq, Zenon
  <2>2. /\ ~AtClient(made + 1) /\ ~InQueue(req_q, made + 1) /\ ~InQueue(req_rq, made + 1)
        /\ ~InQueue(retry_q, made + 1) /\ ~AtMain(made + 1) /\ ~InAlgo(made + 1)
        /\ made + 1 \notin done
    BY <1>0 DEF OnceInv, TypeInv, DataType
  <2>3. /\ \A i : AtClient(i)' <=> AtClient(i) \/ i = made + 1
        /\ \A d, e \in Clients :
              (Holds(d) /\ Holds(e) /\ cl[d].req.id = cl[e].req.id)' => d = e
    BY <2>1, <2>2, ClientMakes, Zenon DEF Holds
  <2>4. ASSUME NEW i \in 1 .. made' PROVE Spots(i)' = 1
    <3>1. CASE i = made + 1
      BY <1>0, <2>1, <2>2, <2>3, <3>1 DEF Spots, Truth
    <3>2. CASE i # made + 1
      <4>1. i \in 1 .. made /\ Spots(i) = 1
        BY SMTT(30), <1>0, <2>1, <3>2 DEF OnceInv
      <4>2. QED
        BY <1>0, <2>1, <2>3, <3>2, <4>1, Zenon DEF Spots, Truth
    <3>3. QED
      BY <3>1, <3>2, Zenon
  <2>5. \A i : (AtClient(i) \/ InQueue(req_q, i) \/ InQueue(req_rq, i)
                \/ InQueue(retry_q, i) \/ AtMain(i) \/ InAlgo(i))' => i \in 1 .. made'
    <3>1. \A i : AtClient(i) \/ InQueue(req_q, i) \/ InQueue(req_rq, i) \/ InQueue(retry_q, i)
                 \/ AtMain(i) \/ InAlgo(i) => i \in 1 .. made
      BY Zenon DEF OnceInv
    <3>2. made + 1 \in 1 .. made' /\ \A i \in 1 .. made : i \in 1 .. made'
      BY <1>0, <2>1
    <3>3. ASSUME NEW i
          PROVE  (AtClient(i) \/ InQueue(req_q, i) \/ InQueue(req_rq, i)
                  \/ InQueue(retry_q, i) \/ AtMain(i) \/ InAlgo(i))' =>
                 AtClient(i) \/ InQueue(req_q, i) \/ InQueue(req_rq, i)
                 \/ InQueue(retry_q, i) \/ AtMain(i) \/ InAlgo(i) \/ i = made + 1
      BY <1>0, <2>1, <2>3, Zenon
    <3>4. QED
      BY <3>1, <3>2, <3>3, Zenon
  <2>6. flying' = made' - Cardinality(done') /\ flying' <= QDEPTH
    BY SMTT(30), <2>1, <1>0, DoneFinite, InterfaceAssumption DEF OnceInv, TypeInv, DataType
  <2>7. QED
    BY <1>0, <2>1, <2>3, <2>4, <2>5, <2>6, Zenon DEF OnceInv
<1>2. CASE WriteChecking(c) \/ ReadChecking(c)
  <2>1. /\ cl[c].pc = "assign" /\ OthersSame(c)
        /\ cl'[c].pc \in {"enqueue", "end"} /\ cl'[c].req.id = n
        /\ UNCHANGED <<made, done, flying, req_q, req_rq, retry_q>>
    BY <1>0, <1>2 DEF WriteChecking, ReadChecking, OthersSame, ClientType, queues, Rec
  <2>2. /\ \A i : AtClient(i)' <=> AtClient(i)
        /\ \A d, e \in Clients :
              (Holds(d) /\ Holds(e) /\ cl[d].req.id = cl[e].req.id)' => d = e
    BY <2>1, ClientKeeps, Zenon DEF Holds
  <2>3. QED
    BY <1>0, <2>1, <2>2, OnceSame, Zenon
<1>3. CASE Announce(c)
  <2>1. /\ cl[c].pc = "release" /\ OthersSame(c) /\ cl'[c].pc = "idle"
        /\ UNCHANGED <<made, done, flying, req_q, req_rq, retry_q>>
    BY <1>0, <1>3, Zenon DEF Announce, OthersSame, ClientType, queues, Idle
  <2>2. /\ \A i : AtClient(i)' <=> AtClient(i)
        /\ \A d, e \in Clients :
              (Holds(d) /\ Holds(e) /\ cl[d].req.id = cl[e].req.id)' => d = e
    BY <2>1 DEF AtClient, Holds, OthersSame, OnceInv
  <2>3. QED
    BY <1>0, <2>1, <2>2, OnceSame, Zenon
<1>4. CASE Enqueue(c)
  <2>1. /\ cl[c].pc = "enqueue" /\ OthersSame(c) /\ cl'[c].req.id = n
        /\ n \in 1 .. made /\ cl[c].req \in Rec
        /\ UNCHANGED <<made, done, flying, retry_q>>
    BY SMTT(30), <1>0, <1>4 DEF Enqueue, OthersSame, ClientType, OnceInv, AtClient, Holds
  <2>2. CASE cl'[c].pc = "assign"
    <3>1. req_q' = req_q /\ req_rq' = req_rq
      BY <1>0, <1>4, <2>2, Zenon DEF Enqueue, ClientType
    <3>2. /\ \A i : AtClient(i)' <=> AtClient(i)
          /\ \A d, e \in Clients :
                (Holds(d) /\ Holds(e) /\ cl[d].req.id = cl[e].req.id)' => d = e
      BY SMTT(30), <2>1, <2>2, ClientKeeps DEF Holds
    <3>3. QED
      BY <1>0, <2>1, <3>1, <3>2, OnceSame, Zenon
  <2>3. CASE cl'[c].pc # "assign"
    <3>1. cl'[c].pc = "release"
      BY SMTT(30), <1>0, <1>4, <2>3 DEF Enqueue, ClientType
    <3>2. /\ AtClient(n) /\ \A i : AtClient(i)' <=> AtClient(i) /\ i # n
          /\ \A d, e \in Clients :
                (Holds(d) /\ Holds(e) /\ cl[d].req.id = cl[e].req.id)' => d = e
      BY SMTT(30), <2>1, <3>1, ClientGives DEF Holds
    <3>3. ~InQueue(req_q, n) /\ ~InQueue(req_rq, n)
      BY <2>1, <3>2, Exclusive, Zenon
    <3>4. \/ req_q' = Append(req_q, cl[c].req) /\ req_rq' = req_rq
          \/ req_rq' = Append(req_rq, cl[c].req) /\ req_q' = req_q
      BY <1>0, <1>4, <3>1, Zenon DEF Enqueue, ClientType
    <3>5. /\ DistinctIds(req_q') /\ DistinctIds(req_rq')
          /\ \A i : InQueue(req_q', i) \/ InQueue(req_rq', i)
                      <=> InQueue(req_q, i) \/ InQueue(req_rq, i) \/ i = n
          /\ \A i : i # n => /\ InQueue(req_q', i) <=> InQueue(req_q, i)
                             /\ InQueue(req_rq', i) <=> InQueue(req_rq, i)
          /\ ~(InQueue(req_q', n) /\ InQueue(req_rq', n))
      <4>1. /\ req_q \in Seq(Rec) /\ req_rq \in Seq(Rec)
            /\ DistinctIds(req_q) /\ DistinctIds(req_rq)
        BY Zenon DEF OnceInv, TypeInv, DataType
      <4>2. CASE req_q' = Append(req_q, cl[c].req) /\ req_rq' = req_rq
        <5>1. /\ DistinctIds(req_q')
              /\ \A i : InQueue(req_q', i) <=> InQueue(req_q, i) \/ i = n
          BY <2>1, <3>3, <4>1, <4>2, AppendLemma, Zenon
        <5>2. QED
          BY <3>3, <4>1, <4>2, <5>1, Zenon
      <4>3. CASE req_rq' = Append(req_rq, cl[c].req) /\ req_q' = req_q
        <5>1. /\ DistinctIds(req_rq')
              /\ \A i : InQueue(req_rq', i) <=> InQueue(req_rq, i) \/ i = n
          BY SMTT(30), <2>1, <3>3, <4>1, <4>3, AppendLemma
        <5>2. QED
          BY <3>3, <4>1, <4>3, <5>1, Zenon
      <4>4. QED
        BY <3>4, <4>2, <4>3, Zenon
    <3>6. ASSUME NEW i \in 1 .. made' PROVE Spots(i)' = 1
      <4>1. i \in 1 .. made /\ Spots(i) = 1
        BY ZenonT(60), <2>1 DEF OnceInv
      <4>2. /\ AtClient(i)' <=> AtClient(i) /\ i # n
            /\ i # n => /\ InQueue(req_q', i) <=> InQueue(req_q, i)
                        /\ InQueue(req_rq', i) <=> InQueue(req_rq, i)
            /\ i = n => /\ InQueue(req_q', i) \/ InQueue(req_rq', i)
                        /\ ~(InQueue(req_q', i) /\ InQueue(req_rq', i))
        BY <3>2, <3>5, Zenon
      <4>3. /\ InQueue(retry_q', i) <=> InQueue(retry_q, i)
            /\ AtMain(i)' <=> AtMain(i)
            /\ InAlgo(i)' <=> InAlgo(i)
            /\ (i \in done)' <=> i \in done
        BY <1>0, <2>1, Zenon
      <4>4. i = n => AtClient(i) /\ ~InQueue(req_q, i) /\ ~InQueue(req_rq, i)
        BY <3>2, <3>3, Zenon
      <4>5. QED
        BY <4>1, <4>2, <4>3, <4>4 DEF Spots, Truth
    <3>7. QED
      BY <1>0, <2>1, <3>2, <3>5, <3>6, Zenon DEF OnceInv
  <2>4. QED
    BY <2>2, <2>3, Zenon
<1>5. CASE EndAtOnce(c)
  <2>1. /\ cl[c].pc = "end" /\ OthersSame(c) /\ cl'[c].pc = "idle"
        /\ n \in 1 .. made
        /\ done' = done \cup {n} /\ flying' = flying - 1
        /\ UNCHANGED <<made, req_q, req_rq, retry_q>>
    BY <1>0, <1>5, Zenon DEF EndAtOnce, EndReq, OthersSame, ClientType, OnceInv, AtClient, Holds,
                      queues, Idle
  <2>2. /\ AtClient(n) /\ \A i : AtClient(i)' <=> AtClient(i) /\ i # n
        /\ \A d, e \in Clients :
              (Holds(d) /\ Holds(e) /\ cl[d].req.id = cl[e].req.id)' => d = e
    BY <2>1, ClientGives, Zenon DEF Holds
  <2>3. n \notin done
    BY <2>1, <2>2, Exclusive, Zenon
  <2>4. ASSUME NEW i \in 1 .. made' PROVE Spots(i)' = 1
    <3>1. i \in 1 .. made /\ Spots(i) = 1
      BY <2>1, Zenon DEF OnceInv
    <3>2. i \in done' <=> i \in done \/ i = n
      BY <2>1, Zenon
    <3>3. /\ AtClient(i)' <=> AtClient(i) /\ i # n
          /\ InQueue(req_q', i) <=> InQueue(req_q, i)
          /\ InQueue(req_rq', i) <=> InQueue(req_rq, i)
          /\ InQueue(retry_q', i) <=> InQueue(retry_q, i)
          /\ AtMain(i)' <=> AtMain(i)
          /\ InAlgo(i)' <=> InAlgo(i)
          /\ i = n => AtClient(i) /\ i \notin done
      BY <1>0, <2>1, <2>2, <2>3, Zenon
    <3>4. QED
      BY <3>1, <3>2, <3>3 DEF Spots, Truth
  <2>5. flying' = made' - Cardinality(done') /\ flying' <= QDEPTH
    BY <2>1, <2>3, EndCounts, Zenon
  <2>6. QED
    BY <1>0, <2>1, <2>2, <2>4, <2>5, Zenon DEF OnceInv
<1>6. QED
  BY <1>1, <1>2, <1>3, <1>4, <1>5, Zenon DEF ClientStep

\* p_main takes the head of a queue.
LEMMA MainTakes ==
  ASSUME NEW q \in Seq(Rec), q # << >>, DistinctIds(q), ~MainHolds,
         pm'.pc \in {"delete", "call"}, pm'.req = Head(q)
  PROVE  /\ InQueue(q, Head(q).id) /\ DistinctIds(Tail(q))
         /\ \A i : InQueue(Tail(q), i) <=> InQueue(q, i) /\ i # Head(q).id
         /\ \A i : ~AtMain(i) /\ (AtMain(i)' <=> i = Head(q).id)
<1>1. /\ InQueue(q, Head(q).id) /\ DistinctIds(Tail(q))
      /\ \A i : InQueue(Tail(q), i) <=> InQueue(q, i) /\ i # Head(q).id
  BY TailLemma, Zenon
<1>2. QED
  BY <1>1, Zenon DEF AtMain, MainHolds

\* So does a step of p_main, which only moves requests.
LEMMA PMainOnce ==
  ASSUME TypeInv, OnceInv, QManagerExact, PMain
  PROVE  OnceInv'
<1>0. /\ MainType /\ made \in Nat /\ UNCHANGED <<cl, made, done, flying>>
      /\ req_q \in Seq(Rec) /\ req_rq \in Seq(Rec) /\ retry_q \in Seq(Rec)
      /\ DistinctIds(req_q) /\ DistinctIds(req_rq) /\ DistinctIds(retry_q)
  BY Zenon DEF PMain, PGrap, PRetry, PRead, PWrite, PGiveBack, PDelete, PCall, PReturn,
         TypeInv, DataType, OnceInv
<1>1. /\ \A i : AtClient(i)' <=> AtClient(i)
      /\ \A d, e \in Clients :
            (Holds(d) /\ Holds(e) /\ cl[d].req.id = cl[e].req.id)' => d = e
  BY <1>0, Zenon DEF AtClient, Holds, OnceInv
<1>2. ASSUME UNCHANGED <<req_q, req_rq, retry_q, inalgo>>, ~MainHolds, ~MainHolds'
      PROVE  OnceInv'
  <2>1. \A i : AtMain(i)' <=> AtMain(i)
    BY <1>2, Zenon DEF AtMain
  <2>2. QED
    BY <1>0, <1>1, <1>2, <2>1, OnceSame, Zenon
<1>3. CASE PGrap
  BY <1>0, <1>2, <1>3, Zenon DEF PGrap, queues, MainHolds, MainType
<1>4. CASE PGiveBack
  BY <1>0, <1>2, <1>4, Zenon DEF PGiveBack, queues, MainHolds, MainType
<1>5. CASE PReturn
  BY <1>0, <1>2, <1>5, Zenon DEF PReturn, queues, MainHolds, MainType
<1>6. CASE PDelete
  <2>1. /\ UNCHANGED <<req_q, req_rq, retry_q, inalgo>>
        /\ pm.pc = "delete" /\ pm'.req = pm.req
        /\ pm'.pc = IF Queued(pm.req.key) THEN "call" ELSE "abort"
    BY <1>0, <1>6, Zenon DEF PDelete, queues, MainType
  <2>2. Queued(pm.req.key)
    <3>1. pm.req \in qmanager
      BY <2>1, Zenon DEF QManagerExact
    <3>2. QED
      BY <3>1, Zenon DEF Queued
  <2>3. \A i : AtMain(i)' <=> AtMain(i)
    BY <2>1, <2>2, Zenon DEF AtMain, MainHolds
  <2>4. QED
    BY <1>0, <1>1, <2>1, <2>3, OnceSame, Zenon
<1>7. CASE PRetry
  <2>1. CASE retry_q = << >>
    BY <1>0, <1>2, <1>7, <2>1, Zenon DEF PRetry, MainHolds, MainType
  <2>2. CASE retry_q # << >>
    <3>1. /\ pm'.pc = "call" /\ pm'.req = Head(retry_q) /\ ~MainHolds
          /\ retry_q' = Tail(retry_q) /\ UNCHANGED <<req_q, req_rq, inalgo>>
      BY SMTT(30), <1>7, <2>2 DEF PRetry, MainHolds
    <3>2. /\ InQueue(retry_q, Head(retry_q).id) /\ DistinctIds(retry_q')
          /\ \A i : InQueue(retry_q', i) <=> InQueue(retry_q, i) /\ i # Head(retry_q).id
          /\ \A i : ~AtMain(i) /\ (AtMain(i)' <=> i = Head(retry_q).id)
      BY <1>0, <2>2, <3>1, MainTakes, Zenon
    <3>3. \A i : InAlgo(i)' <=> InAlgo(i)
      BY <3>1, Zenon DEF InAlgo
    <3>4. ASSUME NEW i \in 1 .. made' PROVE Spots(i)' = 1
      <4>1. i \in 1 .. made /\ Spots(i) = 1
        BY <1>0, Zenon DEF OnceInv
      <4>2. QED
        BY <1>0, <1>1, <3>1, <3>2, <3>3, <4>1 DEF Spots, Truth
    <3>5. QED
      BY <1>0, <1>1, <3>1, <3>2, <3>3, <3>4, Zenon DEF OnceInv
  <2>3. QED
    BY <2>1, <2>2, Zenon
<1>8. CASE PRead
  <2>1. CASE req_rq = << >>
    BY <1>0, <1>2, <1>8, <2>1, Zenon DEF PRead, MainHolds, MainType
  <2>2. CASE req_rq # << >>
    <3>1. /\ pm'.pc = "call" /\ pm'.req = Head(req_rq) /\ ~MainHolds
          /\ req_rq' = Tail(req_rq) /\ UNCHANGED <<req_q, retry_q, inalgo>>
      BY SMTT(30), <1>8, <2>2 DEF PRead, MainHolds
    <3>2. /\ InQueue(req_rq, Head(req_rq).id) /\ DistinctIds(req_rq')
          /\ \A i : InQueue(req_rq', i) <=> InQueue(req_rq, i) /\ i # Head(req_rq).id
          /\ \A i : ~AtMain(i) /\ (AtMain(i)' <=> i = Head(req_rq).id)
      BY <1>0, <2>2, <3>1, MainTakes, Zenon
    <3>3. \A i : InAlgo(i)' <=> InAlgo(i)
      BY <3>1, Zenon DEF InAlgo
    <3>4. ASSUME NEW i \in 1 .. made' PROVE Spots(i)' = 1
      <4>1. i \in 1 .. made /\ Spots(i) = 1
        BY <1>0, Zenon DEF OnceInv
      <4>2. QED
        BY <1>0, <1>1, <3>1, <3>2, <3>3, <4>1 DEF Spots, Truth
    <3>5. QED
      BY <1>0, <1>1, <3>1, <3>2, <3>3, <3>4, Zenon DEF OnceInv
  <2>3. QED
    BY <2>1, <2>2, Zenon
<1>9. CASE PWrite
  <2>1. CASE ~(retry_q = << >> /\ ~write_stop /\ req_q # << >>)
    BY <1>0, <1>2, <1>9, <2>1, Zenon DEF PWrite, MainHolds, MainType
  <2>2. CASE retry_q = << >> /\ ~write_stop /\ req_q # << >>
    <3>1. /\ pm'.pc = "delete" /\ pm'.req = Head(req_q) /\ ~MainHolds
          /\ req_q' = Tail(req_q) /\ UNCHANGED <<req_rq, retry_q, inalgo>>
      BY SMTT(30), <1>9, <2>2 DEF PWrite, MainHolds
    <3>2. /\ InQueue(req_q, Head(req_q).id) /\ DistinctIds(req_q')
          /\ \A i : InQueue(req_q', i) <=> InQueue(req_q, i) /\ i # Head(req_q).id
          /\ \A i : ~AtMain(i) /\ (AtMain(i)' <=> i = Head(req_q).id)
      BY <1>0, <2>2, <3>1, MainTakes, Zenon
    <3>3. \A i : InAlgo(i)' <=> InAlgo(i)
      BY <3>1, Zenon DEF InAlgo
    <3>4. ASSUME NEW i \in 1 .. made' PROVE Spots(i)' = 1
      <4>1. i \in 1 .. made /\ Spots(i) = 1
        BY <1>0, Zenon DEF OnceInv
      <4>2. QED
        BY SMTT(30), <1>0, <1>1, <3>1, <3>2, <3>3, <4>1 DEF Spots, Truth
    <3>5. QED
      BY <1>0, <1>1, <3>1, <3>2, <3>3, <3>4, Zenon DEF OnceInv
  <2>3. QED
    BY <2>1, <2>2, Zenon
<1>10. CASE PCall
  <2>1. /\ pm.pc = "call" /\ inalgo' = inalgo \cup {pm.req} /\ ~MainHolds'
        /\ UNCHANGED <<req_q, req_rq, retry_q>>
    BY <1>0, <1>10, Zenon DEF PCall, queues, MainHolds, MainType
  <2>2. /\ AtMain(pm.req.id) /\ pm.req.id \in 1 .. made
        /\ \A i : AtMain(i) <=> i = pm.req.id
        /\ \A i : ~AtMain(i)'
    BY <2>1, Zenon DEF AtMain, MainHolds, OnceInv
  <2>3. \A i : InAlgo(i)' <=> InAlgo(i) \/ i = pm.req.id
    BY <2>1, Zenon DEF InAlgo
  <2>4. ~InAlgo(pm.req.id)
    BY <2>2, Exclusive, Zenon
  <2>5. \A r, s \in inalgo' : r.id = s.id => r = s
    BY <2>1, <2>4, Zenon DEF OnceInv, InAlgo
  <2>6. ASSUME NEW i \in 1 .. made' PROVE Spots(i)' = 1
    <3>1. i \in 1 .. made /\ Spots(i) = 1
      BY <1>0, Zenon DEF OnceInv
    <3>2. QED
      BY <1>0, <1>1, <2>1, <2>2, <2>3, <2>4, <3>1 DEF Spots, Truth
  <2>7. QED
    BY <1>0, <1>1, <2>1, <2>2, <2>3, <2>5, <2>6, Zenon DEF OnceInv
<1>11. QED
  BY <1>3, <1>4, <1>5, <1>6, <1>7, <1>8, <1>9, <1>10, Zenon DEF PMain

\* So do inf_end_req, inf_assign_try and the bench's thread.
LEMMA OthersOnce ==
  ASSUME TypeInv, OnceInv,
         \/ \E r \in inalgo : AlgoEnd(r) \/ AlgoRetry(r)
         \/ \E r \in retrying : AlgoAnnounce(r)
         \/ Drain \/ Stop \/ WakeToStop \/ UNCHANGED vars
  PROVE  OnceInv'
<1>0. UNCHANGED <<cl, pm, made, req_q, req_rq>>
  BY Zenon DEF AlgoEnd, AlgoRetry, AlgoAnnounce, Drain, Stop, WakeToStop, vars, queues
<1>1. /\ \A i : AtClient(i)' <=> AtClient(i)
      /\ \A i : AtMain(i)' <=> AtMain(i)
      /\ \A d, e \in Clients :
            (Holds(d) /\ Holds(e) /\ cl[d].req.id = cl[e].req.id)' => d = e
  BY <1>0, Zenon DEF AtClient, Holds, AtMain, MainHolds, OnceInv
<1>2. ASSUME NEW r \in inalgo, AlgoEnd(r) PROVE OnceInv'
  <2>1. /\ inalgo' = inalgo \ {r} /\ retry_q' = retry_q
        /\ done' = done \cup {r.id} /\ flying' = flying - 1
    BY <1>2, Zenon DEF AlgoEnd, EndReq, queues
  <2>2. InAlgo(r.id) /\ r.id \in 1 .. made
    BY Zenon DEF InAlgo, OnceInv
  <2>3. r.id \notin done
    BY <2>2, Exclusive, Zenon
  <2>4. \A i : InAlgo(i)' <=> InAlgo(i) /\ i # r.id
    BY <2>1, Zenon DEF InAlgo, OnceInv
  <2>5. ASSUME NEW i \in 1 .. made' PROVE Spots(i)' = 1
    <3>1. i \in 1 .. made /\ Spots(i) = 1
      BY <1>0, Zenon DEF OnceInv
    <3>2. i \in done' <=> i \in done \/ i = r.id
      BY <2>1, Zenon
    <3>3. QED
      BY <1>0, <1>1, <2>1, <2>2, <2>3, <2>4, <3>1, <3>2 DEF Spots, Truth
  <2>6. flying' = made' - Cardinality(done') /\ flying' <= QDEPTH
    BY SMTT(30), <1>0, <2>1, <2>2, <2>3, EndCounts
  <2>7. QED
    BY <1>0, <1>1, <2>1, <2>4, <2>5, <2>6, Zenon DEF OnceInv
<1>3. ASSUME NEW r \in inalgo, AlgoRetry(r) PROVE OnceInv'
  <2> DEFINE again == [r EXCEPT !.tries = @ + 1]
  <2>1. /\ inalgo' = inalgo \ {r} /\ retry_q' = Append(retry_q, again)
        /\ done' = done /\ flying' = flying
    BY <1>3, Zenon DEF AlgoRetry
  <2>2. InAlgo(r.id) /\ r.id \in 1 .. made
    BY Zenon DEF InAlgo, OnceInv
  <2>3. ~InQueue(retry_q, r.id)
    BY <2>2, Exclusive, Zenon
  <2>4. again \in Rec /\ again.id = r.id
    <3>1. r \in Rec
      BY Zenon DEF TypeInv, DataType
    <3>2. QED
      BY <3>1 DEF Rec
  <2>5. retry_q \in Seq(Rec) /\ DistinctIds(retry_q)
    BY Zenon DEF TypeInv, DataType, OnceInv
  <2> HIDE DEF again
  <2>6. /\ DistinctIds(retry_q')
        /\ \A i : InQueue(retry_q', i) <=> InQueue(retry_q, i) \/ i = r.id
    BY <2>1, <2>3, <2>4, <2>5, AppendLemma, Zenon
  <2>7. \A i : InAlgo(i)' <=> InAlgo(i) /\ i # r.id
    BY <2>1, Zenon DEF InAlgo, OnceInv
  <2>8. ASSUME NEW i \in 1 .. made' PROVE Spots(i)' = 1
    <3>1. i \in 1 .. made /\ Spots(i) = 1
      BY <1>0, Zenon DEF OnceInv
    <3>2. QED
      BY <1>0, <1>1, <2>1, <2>2, <2>3, <2>6, <2>7, <3>1 DEF Spots, Truth
  <2>9. QED
    BY <1>0, <1>1, <2>1, <2>2, <2>6, <2>7, <2>8, Zenon DEF OnceInv
<1>4. ASSUME UNCHANGED <<done, flying, retry_q, inalgo>> PROVE OnceInv'
  BY <1>0, <1>1, <1>4, OnceSame, Zenon
<1>5. ASSUME NEW r \in retrying, AlgoAnnounce(r) PROVE OnceInv'
  BY <1>4, <1>5, Zenon DEF AlgoAnnounce, queues
<1>6. CASE Drain \/ Stop \/ WakeToStop \/ UNCHANGED vars
  BY <1>4, <1>6, Zenon DEF Drain, Stop, WakeToStop, vars, queues
<1>7. QED
  BY <1>2, <1>3, <1>5, <1>6, Zenon

-----------------------------------------------------------------------------
(* Queues have room.                                                       *)

\* The first n numbers are n.
LEMMA FirstNaturals ==
  ASSUME NEW n \in Nat
  PROVE  IsFiniteSet(1 .. n) /\ Cardinality(1 .. n) = n
BY FS_Interval

\* While some client holds a request, a queue of other requests in flight is shorter
\* than QDEPTH.
LEMMA QueueShort ==
  ASSUME TypeInv, OnceInv, NEW c \in Clients, Holds(c),
         NEW q \in Seq(Rec), DistinctIds(q),
         \A i : InQueue(q, i) => i \in 1 .. made /\ i \notin done /\ ~AtClient(i)
  PROVE  Len(q) < QSIZE
<1> DEFINE n == cl[c].req.id
           Flying == (1 .. made) \ done
           Others == Flying \ {n}
           ids == [j \in 1 .. Len(q) |-> q[j].id]
<1>0. made \in Nat /\ Len(q) \in Nat /\ DOMAIN q = 1 .. Len(q) /\ done \subseteq 1 .. made
  BY DEF TypeInv, DataType
<1>1. AtClient(n) /\ n \in 1 .. made
  BY Zenon DEF AtClient, OnceInv
<1>2. n \in Flying
  BY <1>1, Exclusive, Zenon
<1>3. IsFiniteSet(1 .. made) /\ Cardinality(1 .. made) = made
  <2>1. made \in Nat
    BY <1>0, Zenon
  <2>2. QED
    BY <2>1, FirstNaturals, Zenon
<1>4. IsFiniteSet(done) /\ Cardinality(done) \in Nat
  BY DoneFinite, Zenon
<1>5. IsFiniteSet(Flying) /\ Cardinality(Flying) = made - Cardinality(done)
  <2>1. (1 .. made) \cap done = done
    BY <1>0, Zenon
  <2>2. IsFiniteSet((1 .. made) \ done)
        /\ Cardinality((1 .. made) \ done)
             = Cardinality(1 .. made) - Cardinality((1 .. made) \cap done)
    BY <1>3, FS_Difference, Zenon
  <2>3. QED
    BY <1>3, <2>1, <2>2, Zenon
<1>6. IsFiniteSet(Others) /\ Cardinality(Others) = Cardinality(Flying) - 1
  <2> HIDE DEF Flying
  <2>1. QED
    BY <1>2, <1>5, FS_RemoveElement, Zenon
<1>7. Cardinality(Others) < QDEPTH /\ Cardinality(Others) \in Nat
  <2>1. Cardinality(Others) \in Nat
    BY <1>6, FS_CardinalityType, Zenon
  <2>2. QED
    BY <1>0, <1>4, <1>5, <1>6, <2>1, InterfaceAssumption DEF OnceInv
<1>8. ids \in [1 .. Len(q) -> Others]
  <2>1. ASSUME NEW j \in 1 .. Len(q) PROVE q[j].id \in Others
    <3>1. InQueue(q, q[j].id)
      BY <1>0, Zenon DEF InQueue
    <3>2. QED
      BY <1>1, <3>1, Zenon
  <2>2. QED
    BY <2>1, Zenon
<1>9. IsFiniteSet(1 .. Len(q)) /\ Cardinality(1 .. Len(q)) = Len(q)
  BY <1>0, FirstNaturals, Zenon
<1>10. Len(q) <= Cardinality(Others)
  <2>1. SUFFICES ASSUME Cardinality(Others) < Len(q) PROVE FALSE
    BY <1>0, <1>7
  <2> HIDE DEF Others, ids
  <2>2. \E x, y \in 1 .. Len(q) : x # y /\ ids[x] = ids[y]
    BY <1>6, <1>8, <1>9, <2>1, FS_PigeonHole
  <2>3. QED
    BY <1>0, <2>2, Zenon DEF ids, DistinctIds
<1>11. QED
  BY <1>0, <1>7, <1>10, InterfaceAssumption

\* q_enqueue finds room.
LEMMA RoomLemma ==
  ASSUME TypeInv, OnceInv
  PROVE  RoomInQueues
<1>1. SUFFICES ASSUME NEW c \in Clients, cl[c].pc = "enqueue"
               PROVE  Len(req_q) < QSIZE /\ Len(req_rq) < QSIZE
  BY Zenon DEF RoomInQueues
<1>2. Holds(c) /\ req_q \in Seq(Rec) /\ req_rq \in Seq(Rec)
      /\ DistinctIds(req_q) /\ DistinctIds(req_rq)
  BY <1>1, Zenon DEF Holds, TypeInv, DataType, OnceInv
<1>3. \A i : InQueue(req_q, i) => i \in 1 .. made /\ i \notin done /\ ~AtClient(i)
  <2>1. ASSUME NEW i, InQueue(req_q, i)
        PROVE  i \in 1 .. made /\ i \notin done /\ ~AtClient(i)
    <3>1. i \in 1 .. made
      BY <2>1, Zenon DEF OnceInv
    <3>2. QED
      BY <2>1, <3>1, Exclusive, Zenon
  <2>2. QED
    BY <2>1, Zenon
<1>4. \A i : InQueue(req_rq, i) => i \in 1 .. made /\ i \notin done /\ ~AtClient(i)
  <2>1. ASSUME NEW i, InQueue(req_rq, i)
        PROVE  i \in 1 .. made /\ i \notin done /\ ~AtClient(i)
    <3>1. i \in 1 .. made
      BY <2>1, Zenon DEF OnceInv
    <3>2. QED
      BY <2>1, <3>1, Exclusive, Zenon
  <2>2. QED
    BY <2>1, Zenon
<1>5. Len(req_q) < QSIZE
  BY <1>2, <1>3, QueueShort, Zenon
<1>6. Len(req_rq) < QSIZE
  BY <1>2, <1>4, QueueShort, Zenon
<1>7. QED
  BY <1>5, <1>6, Zenon

\* An Enqueue therefore queues its request.
LEMMA EnqueueQueues ==
  ASSUME TypeInv, OnceInv, NEW c \in Clients, Enqueue(c)
  PROVE  /\ cl[c].pc = "enqueue" /\ cl[c].req \in Rec
         /\ cl' = [cl EXCEPT ![c].pc = "release"]
         /\ cl[c].req.type = "set" => /\ req_q' = Append(req_q, cl[c].req)
                                      /\ req_rq' = req_rq
                                      /\ Len(req_q') = Len(req_q) + 1
                                      /\ Elems(req_q') = Elems(req_q) \cup {cl[c].req}
         /\ cl[c].req.type # "set" => /\ req_q' = req_q
                                      /\ req_rq' = Append(req_rq, cl[c].req)
                                      /\ Len(req_rq') = Len(req_rq) + 1
                                      /\ Elems(req_rq') = Elems(req_rq) \cup {cl[c].req}
<1>1. /\ cl[c].pc = "enqueue" /\ ClientType
      /\ req_q \in Seq(Rec) /\ req_rq \in Seq(Rec) /\ DistinctIds(req_q) /\ DistinctIds(req_rq)
  BY Zenon DEF Enqueue, TypeInv, DataType, OnceInv
<1>2. cl[c].req \in Rec
  BY <1>1, HeldTypes, Zenon
<1>3. Len(IF cl[c].req.type = "set" THEN req_q ELSE req_rq) # QSIZE
  <2>1. Len(IF cl[c].req.type = "set" THEN req_q ELSE req_rq) < QSIZE
    BY <1>1, RoomLemma, Zenon DEF RoomInQueues
  <2>2. Len(req_q) \in Nat /\ Len(req_rq) \in Nat
    BY <1>1
  <2>3. QED
    BY <2>1, <2>2, InterfaceAssumption
<1>4. /\ cl' = [cl EXCEPT ![c].pc = "release"]
      /\ req_q'  = IF cl[c].req.type = "set" THEN Append(req_q, cl[c].req) ELSE req_q
      /\ req_rq' = IF cl[c].req.type # "set" THEN Append(req_rq, cl[c].req) ELSE req_rq
  BY <1>3, Zenon DEF Enqueue
<1>5. AtClient(cl[c].req.id) /\ cl[c].req.id \in 1 .. made
  BY <1>1, Zenon DEF AtClient, Holds, OnceInv
<1>6. ~InQueue(req_q, cl[c].req.id) /\ ~InQueue(req_rq, cl[c].req.id)
  BY <1>5, Exclusive, Zenon
<1>7. /\ Len(Append(req_q, cl[c].req)) = Len(req_q) + 1
      /\ Elems(Append(req_q, cl[c].req)) = Elems(req_q) \cup {cl[c].req}
  BY <1>1, <1>2, <1>6, AppendLemma, Zenon
<1>8. /\ Len(Append(req_rq, cl[c].req)) = Len(req_rq) + 1
      /\ Elems(Append(req_rq, cl[c].req)) = Elems(req_rq) \cup {cl[c].req}
  BY <1>1, <1>2, <1>6, AppendLemma, Zenon
<1>9. QED
  BY <1>1, <1>2, <1>4, <1>7, <1>8, Zenon

-----------------------------------------------------------------------------
(* Requests wait in the queue of their type.                               *)

\* Of the elements of a queue, its head and its tail.
LEMMA TailElems ==
  ASSUME NEW q \in Seq(Rec), q # << >>
  PROVE  Head(q) \in Elems(q) /\ Elems(Tail(q)) \subseteq Elems(q)
         /\ Elems(q) = Elems(Tail(q)) \cup {Head(q)}
         /\ Len(q) \in Nat /\ Len(Tail(q)) = Len(q) - 1
<1>1. /\ Len(q) \in Nat /\ Len(q) > 0 /\ DOMAIN q = 1 .. Len(q)
      /\ Head(q) = q[1] /\ Len(Tail(q)) = Len(q) - 1
      /\ DOMAIN Tail(q) = 1 .. Len(q) - 1
      /\ \A i \in 1 .. Len(q) - 1 : Tail(q)[i] = q[i + 1]
  OBVIOUS
<1>2. \A i \in 1 .. Len(q) - 1 : i + 1 \in 1 .. Len(q)
  BY <1>1
<1>3. \A j \in 1 .. Len(q) : j = 1 \/ (j - 1 \in 1 .. Len(q) - 1 /\ (j - 1) + 1 = j)
  BY <1>1
<1>4. 1 \in 1 .. Len(q)
  BY <1>1
<1>5. Head(q) \in Elems(q) /\ Elems(Tail(q)) \subseteq Elems(q)
  BY <1>1, <1>2, <1>4 DEF Elems
<1>6. ASSUME NEW x \in Elems(q) PROVE x \in Elems(Tail(q)) \cup {Head(q)}
  <2>1. PICK j \in 1 .. Len(q) : x = q[j]
    BY <1>1, Zenon DEF Elems
  <2>2. CASE j = 1
    BY <1>1, <2>1, <2>2, Zenon
  <2>3. CASE j - 1 \in 1 .. Len(q) - 1 /\ (j - 1) + 1 = j
    <3>1. Tail(q)[j - 1] = x
      BY <1>1, <2>1, <2>3, Zenon
    <3>2. j - 1 \in DOMAIN Tail(q)
      BY <1>1, <2>3, Zenon
    <3>3. QED
      BY ZenonT(60), <3>1, <3>2 DEF Elems
  <2>4. QED
    BY <1>3, <2>2, <2>3, Zenon
<1>7. QED
  BY <1>1, <1>5, <1>6, Zenon

\* The elements of a queue after q_enqueue.
LEMMA AppendElems ==
  ASSUME NEW q \in Seq(Rec), NEW r \in Rec
  PROVE  Elems(Append(q, r)) = Elems(q) \cup {r} /\ Len(q) \in Nat
         /\ Len(Append(q, r)) = Len(q) + 1
<1>1. /\ Len(q) \in Nat /\ DOMAIN q = 1 .. Len(q)
      /\ Len(Append(q, r)) = Len(q) + 1 /\ DOMAIN Append(q, r) = 1 .. Len(q) + 1
      /\ \A i \in 1 .. Len(q) : Append(q, r)[i] = q[i]
      /\ Append(q, r)[Len(q) + 1] = r
  OBVIOUS
<1>2. DOMAIN Append(q, r) = DOMAIN q \cup {Len(q) + 1}
  BY <1>1
<1>3. QED
  BY <1>1, <1>2 DEF Elems

\* What the queues hold after a step of p_main.
LEMMA PMainQueues ==
  ASSUME TypeInv, PMain
  PROVE  /\ Elems(req_q') \subseteq Elems(req_q) /\ Elems(req_rq') \subseteq Elems(req_rq)
         /\ Elems(retry_q') \subseteq Elems(retry_q)
         /\ MainHolds' => \/ pm'.req \in Elems(req_q) /\ pm'.pc = "delete" /\ PWrite
                          \/ /\ pm'.req \in Elems(req_rq) \cup Elems(retry_q)
                             /\ pm'.pc = "call" /\ (PRead \/ PRetry)
                          \/ pm'.req = pm.req /\ pm.pc = "delete" /\ pm'.pc = "call" /\ PDelete
<1>0. /\ MainType /\ req_q \in Seq(Rec) /\ req_rq \in Seq(Rec) /\ retry_q \in Seq(Rec)
  BY Zenon DEF TypeInv, DataType
<1>1. CASE PGrap
  BY <1>0, <1>1, Zenon DEF PGrap, MainHolds, MainType, queues
<1>2. CASE PRetry
  <2>1. CASE retry_q = << >>
    BY <1>0, <1>2, <2>1, Zenon DEF PRetry, MainHolds, MainType
  <2>2. CASE retry_q # << >>
    <3>1. /\ pm'.pc = "call" /\ pm'.req = Head(retry_q) /\ retry_q' = Tail(retry_q)
          /\ UNCHANGED <<req_q, req_rq>>
      BY <1>2, <2>2 DEF PRetry
    <3>2. Head(retry_q) \in Elems(retry_q) /\ Elems(Tail(retry_q)) \subseteq Elems(retry_q)
      BY <1>0, <2>2, TailElems, Zenon
    <3>3. QED
      BY <1>2, <3>1, <3>2, Zenon
  <2>3. QED
    BY <2>1, <2>2, Zenon
<1>3. CASE PRead
  <2>1. CASE req_rq = << >>
    BY <1>0, <1>3, <2>1, Zenon DEF PRead, MainHolds, MainType
  <2>2. CASE req_rq # << >>
    <3>1. /\ pm'.pc = "call" /\ pm'.req = Head(req_rq) /\ req_rq' = Tail(req_rq)
          /\ UNCHANGED <<req_q, retry_q>>
      BY <1>3, <2>2 DEF PRead
    <3>2. Head(req_rq) \in Elems(req_rq) /\ Elems(Tail(req_rq)) \subseteq Elems(req_rq)
      BY <1>0, <2>2, TailElems, Zenon
    <3>3. QED
      BY <1>3, <3>1, <3>2, Zenon
  <2>3. QED
    BY <2>1, <2>2, Zenon
<1>4. CASE PWrite
  <2>1. CASE ~(retry_q = << >> /\ ~write_stop /\ req_q # << >>)
    BY <1>0, <1>4, <2>1, Zenon DEF PWrite, MainHolds, MainType
  <2>2. CASE retry_q = << >> /\ ~write_stop /\ req_q # << >>
    <3>1. /\ pm'.pc = "delete" /\ pm'.req = Head(req_q) /\ req_q' = Tail(req_q)
          /\ UNCHANGED <<req_rq, retry_q>>
      BY <1>4, <2>2 DEF PWrite
    <3>2. Head(req_q) \in Elems(req_q) /\ Elems(Tail(req_q)) \subseteq Elems(req_q)
      BY <1>0, <2>2, TailElems, Zenon
    <3>3. QED
      BY <1>4, <3>1, <3>2, Zenon
  <2>3. QED
    BY <2>1, <2>2, Zenon
<1>5. CASE PGiveBack
  BY <1>0, <1>5, Zenon DEF PGiveBack, MainHolds, MainType, queues
<1>6. CASE PDelete
  <2>1. /\ UNCHANGED queues /\ pm.pc = "delete" /\ pm'.req = pm.req
        /\ pm'.pc \in {"call", "abort"}
    BY <1>0, <1>6, Zenon DEF PDelete, MainType
  <2>2. QED
    BY <1>6, <2>1, Zenon DEF MainHolds, queues
<1>7. CASE PCall
  BY <1>0, <1>7, Zenon DEF PCall, MainHolds, MainType, queues
<1>8. CASE PReturn
  BY <1>0, <1>8, Zenon DEF PReturn, MainHolds, MainType, queues
<1>9. QED
  BY <1>1, <1>2, <1>3, <1>4, <1>5, <1>6, <1>7, <1>8, Zenon DEF PMain

\* assign_req puts SETs in req_q, others in req_rq; only reads are put back.
LEMMA QueueTypesKept ==
  ASSUME TypeInv, QueueTypes, OnceInv, [Next]_vars
  PROVE  QueueTypes'
<1>0. retry_q \in Seq(Rec) /\ inalgo \subseteq Rec
  BY Zenon DEF TypeInv, DataType
<1>1. ASSUME NEW c \in Clients, Enqueue(c) PROVE QueueTypes'
  <2>1. pm' = pm /\ retry_q' = retry_q
    BY <1>1, Zenon DEF Enqueue
  <2>2. CASE cl[c].req.type = "set"
    <3>1. Elems(req_q') = Elems(req_q) \cup {cl[c].req} /\ req_rq' = req_rq
      BY <1>1, <2>2, EnqueueQueues, Zenon
    <3>2. QED
      BY <2>1, <2>2, <3>1, Zenon DEF QueueTypes
  <2>3. CASE cl[c].req.type # "set"
    <3>1. Elems(req_rq') = Elems(req_rq) \cup {cl[c].req} /\ req_q' = req_q
      BY <1>1, <2>3, EnqueueQueues, Zenon
    <3>2. QED
      BY <2>1, <2>3, <3>1, Zenon DEF QueueTypes
  <2>4. QED
    BY <2>2, <2>3, Zenon
<1>2. ASSUME UNCHANGED <<queues, pm>> PROVE QueueTypes'
  BY <1>2, Zenon DEF QueueTypes, queues
<1>3. ASSUME NEW c \in Clients, ClientStep(c) PROVE QueueTypes'
  <2>1. CASE MakeReq(c)
    BY <1>2, <2>1, Zenon DEF MakeReq
  <2>2. CASE WriteChecking(c)
    BY <1>2, <2>2, Zenon DEF WriteChecking
  <2>3. CASE ReadChecking(c)
    BY <1>2, <2>3, Zenon DEF ReadChecking
  <2>4. CASE Announce(c)
    BY <1>2, <2>4, Zenon DEF Announce
  <2>5. CASE EndAtOnce(c)
    BY <1>2, <2>5, Zenon DEF EndAtOnce
  <2>6. QED
    BY <1>1, <1>3, <2>1, <2>2, <2>3, <2>4, <2>5, Zenon DEF ClientStep
<1>4. CASE PMain
  <2>1. /\ Elems(req_q') \subseteq Elems(req_q) /\ Elems(req_rq') \subseteq Elems(req_rq)
        /\ Elems(retry_q') \subseteq Elems(retry_q)
        /\ pm'.pc = "delete" => pm'.req \in Elems(req_q)
    BY <1>4, PMainQueues, Zenon DEF MainHolds
  <2>2. QED
    BY <2>1, Zenon DEF QueueTypes
<1>5. ASSUME NEW r \in inalgo, AlgoRetry(r) PROVE QueueTypes'
  <2> DEFINE again == [r EXCEPT !.tries = @ + 1]
  <2>1. /\ retry_q' = Append(retry_q, again) /\ UNCHANGED <<req_q, req_rq, pm>>
        /\ r.type = "get"
    BY <1>5, Zenon DEF AlgoRetry
  <2>2. again \in Rec /\ again.type = "get"
    BY <1>0, <2>1 DEF Rec
  <2> HIDE DEF again
  <2>3. Elems(retry_q') = Elems(retry_q) \cup {again}
    BY <1>0, <2>1, <2>2, AppendElems, Zenon
  <2>4. QED
    BY <2>1, <2>2, <2>3, Zenon DEF QueueTypes
<1>6. ASSUME NEW r \in inalgo, AlgoEnd(r) PROVE QueueTypes'
  BY <1>2, <1>6, Zenon DEF AlgoEnd
<1>7. ASSUME NEW r \in retrying, AlgoAnnounce(r) PROVE QueueTypes'
  BY <1>2, <1>7, Zenon DEF AlgoAnnounce
<1>8. CASE Drain \/ Stop \/ WakeToStop \/ UNCHANGED vars
  BY SMTT(30), <1>2, <1>8 DEF Drain, Stop, WakeToStop, vars
<1>9. QED
  BY <1>3, <1>4, <1>5, <1>6, <1>7, <1>8, Zenon DEF Next, Finished

-----------------------------------------------------------------------------
(* The requests held, and their tries.                                     *)

\* A client's step adds at most what the client holds after it.
LEMMA ClientHeld ==
  ASSUME TypeInv, OnceInv, NEW c \in Clients, ClientStep(c), NEW r \in Held'
  PROVE  r \in Held \/ (Holds(c)' /\ r = cl'[c].req)
<1>0. ClientType
  BY Zenon DEF TypeInv
<1>1. UNCHANGED <<pm, inalgo, retry_q>>
  BY Zenon DEF ClientStep, MakeReq, WriteChecking, ReadChecking, Enqueue, Announce, EndAtOnce,
         queues
<1>2. OthersSame(c)
  BY <1>0, Zenon DEF ClientStep, MakeReq, WriteChecking, ReadChecking, Enqueue, Announce,
         EndAtOnce, OthersSame, ClientType
<1>3. /\ Elems(req_q') \subseteq Elems(req_q) \cup {x \in {cl[c].req} : Holds(c)}
      /\ Elems(req_rq') \subseteq Elems(req_rq) \cup {x \in {cl[c].req} : Holds(c)}
  <2>1. CASE Enqueue(c)
    <3>1. Holds(c)
      BY <2>1, Zenon DEF Enqueue, Holds
    <3>2. QED
      BY <2>1, <3>1, EnqueueQueues, Zenon
  <2>2. CASE ~Enqueue(c)
    <3>1. UNCHANGED <<req_q, req_rq>>
      BY <2>2, Zenon DEF ClientStep, MakeReq, WriteChecking, ReadChecking, Announce, EndAtOnce,
                  queues
    <3>2. QED
      BY <3>1, Zenon
  <2>3. QED
    BY <2>1, <2>2, Zenon
<1>4. CASE r \in {cl'[d].req : d \in {e \in Clients : Holds(e)'}}
  BY SMTT(30), <1>2, <1>4 DEF Held, Holds, OthersSame
<1>5. CASE r \in Elems(req_q') \cup Elems(req_rq')
  BY <1>3, <1>5, Zenon DEF Held
<1>6. CASE r \in Elems(retry_q') \cup {p \in {pm'.req} : MainHolds'} \cup inalgo'
  BY SMTT(30), <1>1, <1>6 DEF Held, MainHolds
<1>7. QED
  BY <1>4, <1>5, <1>6, Zenon DEF Held

\* A step of p_main moves requests and makes none.
LEMMA PMainHeld ==
  ASSUME TypeInv, PMain
  PROVE  Held' \subseteq Held
<1>0. cl' = cl
  BY Zenon DEF PMain, PGrap, PRetry, PRead, PWrite, PGiveBack, PDelete, PCall, PReturn
<1>1. /\ Elems(req_q') \subseteq Elems(req_q) /\ Elems(req_rq') \subseteq Elems(req_rq)
      /\ Elems(retry_q') \subseteq Elems(retry_q)
      /\ MainHolds' => \/ pm'.req \in Elems(req_q) \cup Elems(req_rq) \cup Elems(retry_q)
                       \/ pm'.req = pm.req /\ MainHolds
  BY PMainQueues, Zenon DEF MainHolds
<1>2. inalgo' \subseteq inalgo \cup {p \in {pm.req} : MainHolds}
  <2>1. CASE PCall
    BY <2>1, Zenon DEF PCall, MainHolds
  <2>2. CASE ~PCall
    BY <2>2, Zenon DEF PMain, PGrap, PRetry, PRead, PWrite, PGiveBack, PDelete, PReturn
  <2>3. QED
    BY <2>1, <2>2, Zenon
<1>3. SUFFICES ASSUME NEW r \in Held' PROVE r \in Held
  OBVIOUS
<1>4. CASE r \in {cl'[d].req : d \in {e \in Clients : Holds(e)'}}
  BY <1>0, <1>4, Zenon DEF Held, Holds
<1>5. CASE r \in Elems(req_q') \cup Elems(req_rq') \cup Elems(retry_q')
  BY <1>1, <1>5, Zenon DEF Held
<1>6. CASE r \in {p \in {pm'.req} : MainHolds'}
  BY <1>1, <1>6, Zenon DEF Held
<1>7. CASE r \in inalgo'
  BY <1>2, <1>7, Zenon DEF Held
<1>8. QED
  BY <1>4, <1>5, <1>6, <1>7, Zenon DEF Held

\* So do the steps of the algorithm and of the bench, but for inf_assign_try.
LEMMA OthersHeld ==
  ASSUME TypeInv,
         \/ \E r \in inalgo : AlgoEnd(r)
         \/ \E r \in retrying : AlgoAnnounce(r)
         \/ Drain \/ Stop \/ WakeToStop \/ UNCHANGED vars
  PROVE  Held' \subseteq Held
<1>1. UNCHANGED <<cl, pm, req_q, req_rq, retry_q>> /\ inalgo' \subseteq inalgo
  BY Zenon DEF AlgoEnd, AlgoAnnounce, Drain, Stop, WakeToStop, vars, queues
<1>2. QED
  BY <1>1 DEF Held, Holds, MainHolds

\* inf_assign_try puts r back with one more try; nothing else has its id.
LEMMA RetryHeld ==
  ASSUME TypeInv, OnceInv, NEW r \in inalgo, AlgoRetry(r),
         NEW again, again = [r EXCEPT !.tries = @ + 1]
  PROVE  /\ r \in Held /\ r \in Rec /\ again \in Rec
         /\ again.id = r.id /\ again.tries = r.tries + 1 /\ again.type = r.type
         /\ again.key = r.key /\ again.seen = r.seen
         /\ Len(retry_q') = Len(retry_q) + 1 /\ Len(retry_q) \in Nat
         /\ \A s \in Held' : s \in Held \/ s = again
         /\ \A s \in Held' : s.id = r.id => s = again
<1>1. r \in Held
  BY Zenon DEF Held
<1>2. r \in Rec /\ retry_q \in Seq(Rec)
  BY Zenon DEF TypeInv, DataType
<1>3. /\ again \in Rec /\ again.id = r.id /\ again.tries = r.tries + 1 /\ again.type = r.type
      /\ again.key = r.key /\ again.seen = r.seen
  BY <1>2 DEF Rec
<1>4. /\ inalgo' = inalgo \ {r} /\ retry_q' = Append(retry_q, again)
      /\ UNCHANGED <<cl, pm, req_q, req_rq>>
  BY Zenon DEF AlgoRetry
<1>5. /\ Elems(retry_q') = Elems(retry_q) \cup {again}
      /\ Len(retry_q') = Len(retry_q) + 1 /\ Len(retry_q) \in Nat
  BY <1>2, <1>3, <1>4, AppendElems, Zenon
<1>6. ASSUME NEW s \in Held' PROVE s = again \/ (s \in Held /\ s # r) \/ (s = r /\ s \notin inalgo')
  BY <1>4, <1>5 DEF Held, Holds, MainHolds
<1>7. ASSUME NEW s \in Held', s.id = r.id, s # again PROVE FALSE
  <2>1. InAlgo(r.id) /\ r.id \in 1 .. made
    BY Zenon DEF InAlgo, OnceInv
  <2>2. \/ s \in {cl[c].req : c \in {d \in Clients : Holds(d)}}
        \/ s \in Elems(req_q) \/ s \in Elems(req_rq) \/ s \in Elems(retry_q)
        \/ s \in {p \in {pm.req} : MainHolds} \/ s \in inalgo \ {r}
    BY <1>4, <1>5, <1>7, Zenon DEF Held, Holds, MainHolds
  <2>3. AtClient(r.id) \/ InQueue(req_q, r.id) \/ InQueue(req_rq, r.id)
        \/ InQueue(retry_q, r.id) \/ AtMain(r.id) \/ s \in inalgo \ {r}
    <3>1. CASE s \in {cl[c].req : c \in {d \in Clients : Holds(d)}}
      BY <1>7, <3>1, Zenon DEF AtClient
    <3>2. CASE s \in Elems(req_q) \/ s \in Elems(req_rq) \/ s \in Elems(retry_q)
      BY <1>7, <3>2, Zenon DEF InQueue, Elems
    <3>3. CASE s \in {p \in {pm.req} : MainHolds}
      BY <1>7, <3>3, Zenon DEF AtMain
    <3>4. QED
      BY <2>2, <3>1, <3>2, <3>3, Zenon
  <2>4. s \in inalgo \ {r}
    BY <2>1, <2>3, Exclusive, Zenon
  <2>5. QED
    BY <1>7, <2>4, Zenon DEF OnceInv
<1>8. \A s \in Held' : s \in Held \/ s = again
  BY SMTT(30), <1>1, <1>6
<1>9. QED
  BY <1>1, <1>2, <1>3, <1>5, <1>7, <1>8, Zenon

\* What a client holds after a step: a new request, the one it had, or the one it had
\* with the count of SETs that a read found queued.
LEMMA ClientHolds ==
  ASSUME TypeInv, OnceInv, NEW c \in Clients, ClientStep(c), Holds(c)',
         NEW r, r = cl'[c].req
  PROVE  \/ /\ MakeReq(c) /\ r.id = made + 1 /\ r.seen = 0 /\ r.key \in Keys
         \/ cl[c].req \in Held /\ r = cl[c].req /\ WriteChecking(c)
         \/ /\ cl[c].req \in Held /\ ReadChecking(c)
            /\ r.id = cl[c].req.id /\ r.tries = cl[c].req.tries /\ r.key = cl[c].req.key
            /\ r.type = cl[c].req.type /\ r.key \in Keys
            /\ \/ r = cl[c].req
               \/ r.seen = acc[r.key] /\ (r.type = "get" => ~Queued(r.key))
<1>0. ClientType
  BY Zenon DEF TypeInv
<1>1. CASE MakeReq(c)
  <2>1. PICK t \in Types, k \in Keys : cl' = [cl EXCEPT ![c] =
          [pc |-> "assign",
           req |-> [id |-> made + 1, type |-> t, key |-> k, tries |-> 0, seen |-> 0]]]
    BY <1>1, Zenon DEF MakeReq
  <2>2. r = [id |-> made + 1, type |-> t, key |-> k, tries |-> 0, seen |-> 0]
    BY <1>0, <2>1, Zenon DEF ClientType
  <2>3. r.id = made + 1 /\ r.seen = 0 /\ r.key \in Keys
    BY SMTT(30), <2>2
  <2>4. QED
    BY <1>1, <2>3, Zenon
<1>2. CASE WriteChecking(c)
  <2>1. cl'[c].req = cl[c].req /\ Holds(c)
    BY <1>0, <1>2 DEF WriteChecking, ClientType, Holds
  <2>2. cl[c].req \in Held
    BY ZenonT(60), <2>1 DEF Held
  <2>3. QED
    BY <1>2, <2>1, <2>2, Zenon
<1>3. CASE ReadChecking(c)
  <2>1. Holds(c) /\ cl[c].req \in Rec
    <3>1. cl[c].pc = "assign"
      BY <1>3, Zenon DEF ReadChecking
    <3>2. QED
      BY <1>0, <3>1, HeldTypes, Zenon DEF Holds
  <2>2. cl[c].req \in Held
    BY <2>1, Zenon DEF Held
  <2>3. r = IF cl[c].req.type = "get" /\ Queued(cl[c].req.key)
            THEN cl[c].req
            ELSE [cl[c].req EXCEPT !.seen = acc[cl[c].req.key]]
    BY <1>0, <1>3, Zenon DEF ReadChecking, ClientType
  <2>4. CASE cl[c].req.type = "get" /\ Queued(cl[c].req.key)
    <3>1. r = cl[c].req
      BY <2>3, <2>4, Zenon
    <3>2. QED
      BY <1>3, <2>1, <2>2, <3>1, RecFields, Zenon
  <2>5. CASE ~(cl[c].req.type = "get" /\ Queued(cl[c].req.key))
    <3>1. r = [cl[c].req EXCEPT !.seen = acc[cl[c].req.key]]
      BY <2>3, <2>5, Zenon
    <3>2. /\ r.id = cl[c].req.id /\ r.tries = cl[c].req.tries /\ r.key = cl[c].req.key
          /\ r.type = cl[c].req.type /\ r.seen = acc[cl[c].req.key] /\ r.key \in Keys
      BY <2>1, <3>1, Zenon DEF Rec
    <3>3. QED
      BY <1>3, <2>2, <2>5, <3>2, Zenon
  <2>6. QED
    BY <2>4, <2>5, Zenon
<1>4. CASE Enqueue(c)
  <2>1. cl' = [cl EXCEPT ![c].pc = "release"]
    BY SMTT(30), <1>4, EnqueueQueues
  <2>2. QED
    BY <1>0, <2>1, Zenon DEF Holds, ClientType
<1>5. CASE Announce(c)
  BY ZenonT(60), <1>0, <1>5 DEF Announce, Holds, ClientType, Idle
<1>6. CASE EndAtOnce(c)
  BY <1>0, <1>6, Zenon DEF EndAtOnce, Holds, ClientType, Idle
<1>7. QED
  BY <1>1, <1>2, <1>3, <1>4, <1>5, <1>6, Zenon DEF ClientStep

\* A request put back has one more try than any wake-up on its way for it.
LEMMA TriesKept ==
  ASSUME TypeInv, OnceInv, TriesInv, [Next]_vars
  PROVE  TriesInv'
<1>0. made \in Nat /\ inalgo \subseteq Rec /\ retrying \subseteq Rec
  BY Zenon DEF TypeInv, DataType
<1>1. ASSUME made' = made, retrying' \subseteq retrying, Held' \subseteq Held
      PROVE  TriesInv'
  <2>1. IsFiniteSet(retrying')
    BY <1>1, FS_Subset, Zenon DEF TriesInv
  <2>2. QED
    BY <1>1, <2>1, Zenon DEF TriesInv
<1>2. ASSUME NEW c \in Clients, ClientStep(c) PROVE TriesInv'
  <2>1. retrying' = retrying
    BY <1>2, Zenon DEF ClientStep, MakeReq, WriteChecking, ReadChecking, Enqueue, Announce,
                EndAtOnce
  <2>2. made' \in {made, made + 1}
    BY <1>2, Zenon DEF ClientStep, MakeReq, WriteChecking, ReadChecking, Enqueue, Announce,
                EndAtOnce
  <2>3. ASSUME NEW a \in retrying, NEW r \in Held', a.id = r.id
        PROVE  a.tries <= r.tries
    <3>1. CASE r \in Held
      BY <2>3, <3>1, Zenon DEF TriesInv
    <3>2. CASE Holds(c)' /\ r = cl'[c].req
      <4>1. \/ r.id = made + 1
            \/ cl[c].req \in Held /\ r.id = cl[c].req.id /\ r.tries = cl[c].req.tries
        BY <1>2, <3>2, ClientHolds, Zenon
      <4>2. a.id # made + 1
        BY <1>0 DEF TriesInv
      <4>3. QED
        BY SMTT(30), <2>3, <4>1, <4>2 DEF TriesInv
    <3>3. QED
      BY <1>2, <3>1, <3>2, ClientHeld, Zenon
  <2>4. \A a \in retrying : a.id \in 1 .. made'
    BY <1>0, <2>2 DEF TriesInv
  <2>5. QED
    BY <2>1, <2>3, <2>4, Zenon DEF TriesInv
<1>3. CASE PMain
  <2>1. made' = made /\ retrying' = retrying
    BY <1>3, Zenon DEF PMain, PGrap, PRetry, PRead, PWrite, PGiveBack, PDelete, PCall, PReturn
  <2>2. QED
    BY <1>1, <1>3, <2>1, PMainHeld, Zenon
<1>4. ASSUME NEW r \in inalgo, AlgoRetry(r) PROVE TriesInv'
  <2> DEFINE again == [r EXCEPT !.tries = @ + 1]
  <2>1. made' = made /\ retrying' = retrying \cup {again}
    BY <1>4, Zenon DEF AlgoRetry
  <2>2. /\ r \in Held /\ r \in Rec /\ again.id = r.id /\ again.tries = r.tries + 1
        /\ \A s \in Held' : s \in Held \/ s = again
        /\ \A s \in Held' : s.id = r.id => s = again
    BY <1>4, RetryHeld, Zenon
  <2> HIDE DEF again
  <2>3. r.id \in 1 .. made
    BY Zenon DEF OnceInv, InAlgo
  <2>4. r.tries \in Nat /\ \A a \in retrying : a.tries \in Nat
    BY <1>0, <2>2, RecFields, Zenon
  <2>5. ASSUME NEW a \in retrying', NEW s \in Held', a.id = s.id PROVE a.tries <= s.tries
    <3>1. CASE a = again
      BY <2>2, <2>4, <2>5, <3>1
    <3>2. CASE a \in retrying /\ s \in Held
      BY <2>5, <3>2, Zenon DEF TriesInv
    <3>3. CASE a \in retrying /\ s = again
      <4>1. a.tries <= r.tries
        BY <2>2, <2>5, <3>3, Zenon DEF TriesInv
      <4>2. QED
        BY <2>2, <2>4, <3>3, <4>1
    <3>4. QED
      BY <2>1, <2>2, <3>1, <3>2, <3>3, Zenon
  <2>6. IsFiniteSet(retrying')
    BY <2>1, FS_AddElement, Zenon DEF TriesInv
  <2>7. QED
    BY <2>1, <2>2, <2>3, <2>5, <2>6, Zenon DEF TriesInv
<1>5. CASE (\E r \in inalgo : AlgoEnd(r)) \/ (\E r \in retrying : AlgoAnnounce(r))
           \/ Drain \/ Stop \/ WakeToStop \/ UNCHANGED vars
  <2>1. made' = made /\ retrying' \subseteq retrying
    BY SMTT(30), <1>5 DEF AlgoEnd, AlgoAnnounce, Drain, Stop, WakeToStop, vars
  <2>2. QED
    BY <1>1, <1>5, <2>1, OthersHeld, Zenon
<1>6. QED
  BY <1>2, <1>3, <1>4, <1>5, Zenon DEF Next, Finished

-----------------------------------------------------------------------------
(* The tree of queued SETs.                                                *)

\* The SETs between qmanager_write_checking and q_enqueue, and between q_dequeue and
\* qmanager_delete.
EnqSets == {cl[c].req : c \in {d \in Clients : cl[d].pc = "enqueue" /\ cl[d].req.type = "set"}}
MainSet == {p \in {pm.req} : pm.pc = "delete"}

\* A step that leaves the tree and the SETs it is about alone.
LEMMA QManSame ==
  ASSUME QManagerExact, UNCHANGED <<qmanager, req_q>>, EnqSets' = EnqSets, MainSet' = MainSet,
         pm'.pc # "abort"
  PROVE  QManagerExact'
BY Zenon DEF QManagerExact, EnqSets, MainSet

\* qmanager_write_checking, and the way of a SET to req_q.
LEMMA ClientQMan ==
  ASSUME TypeInv, OnceInv, QManagerExact, NEW c \in Clients, ClientStep(c)
  PROVE  QManagerExact'
<1> DEFINE r == cl[c].req
<1>0. ClientType /\ qmanager = Elems(req_q) \cup EnqSets \cup MainSet
      /\ (\A s, t \in qmanager : s.key = t.key => s = t) /\ pm.pc # "abort"
  BY Zenon DEF TypeInv, QManagerExact, EnqSets, MainSet
<1>1. pm' = pm /\ MainSet' = MainSet
  BY Zenon DEF ClientStep, MakeReq, WriteChecking, ReadChecking, Enqueue, Announce, EndAtOnce,
         MainSet
<1>2. OthersSame(c)
  BY <1>0, Zenon DEF ClientStep, MakeReq, WriteChecking, ReadChecking, Enqueue, Announce,
         EndAtOnce, OthersSame, ClientType
<1>3. ASSUME UNCHANGED <<qmanager, req_q>>,
             ~(cl[c].pc = "enqueue" /\ cl[c].req.type = "set"),
             ~(cl'[c].pc = "enqueue" /\ cl'[c].req.type = "set")
      PROVE  QManagerExact'
  <2>1. EnqSets' = EnqSets
    BY <1>2, <1>3, Zenon DEF EnqSets, OthersSame
  <2>2. QED
    BY <1>0, <1>1, <1>3, <2>1, QManSame, Zenon
<1>4. CASE MakeReq(c)
  <2>1. cl'[c].pc = "assign" /\ cl[c].pc = "idle" /\ UNCHANGED <<qmanager, req_q>>
    BY <1>0, <1>4, MadeReq, Zenon
  <2>2. QED
    BY <1>3, <2>1, Zenon
<1>5. CASE WriteChecking(c)
  <2>1. cl[c].pc = "assign" /\ cl[c].req.type = "set" /\ req_q' = req_q
    BY <1>5, Zenon DEF WriteChecking, queues
  <2>2. CASE Queued(cl[c].req.key)
    <3>1. cl'[c].pc = "end" /\ qmanager' = qmanager
      BY SMTT(30), <1>0, <1>5, <2>2 DEF WriteChecking, ClientType
    <3>2. QED
      BY <1>3, <2>1, <3>1, Zenon
  <2>3. CASE ~Queued(cl[c].req.key)
    <3>1. /\ cl'[c].pc = "enqueue" /\ cl'[c].req = cl[c].req
          /\ qmanager' = qmanager \cup {cl[c].req}
      BY <1>0, <1>5, <2>3 DEF WriteChecking, ClientType
    <3>2. EnqSets' = EnqSets \cup {cl[c].req}
      BY <1>2, <2>1, <3>1 DEF EnqSets, OthersSame
    <3>3. \A s, t \in qmanager' : s.key = t.key => s = t
      BY SMTT(30), <1>0, <2>3, <3>1 DEF Queued
    <3>4. qmanager' = Elems(req_q)' \cup EnqSets' \cup MainSet'
      BY SMTT(30), <1>0, <1>1, <2>1, <3>1, <3>2 DEF Elems
    <3>5. QED
      BY <1>0, <1>1, <3>3, <3>4, Zenon DEF QManagerExact, EnqSets, MainSet
  <2>4. QED
    BY <2>2, <2>3, Zenon
<1>6. CASE ReadChecking(c)
  <2>1. cl[c].pc = "assign" /\ cl[c].req.type # "set" /\ UNCHANGED <<qmanager, req_q>>
    BY <1>6, Zenon DEF ReadChecking, queues
  <2>2. cl'[c].req.type = cl[c].req.type
    <3>1. cl[c].req \in Rec
      BY <1>0, <2>1, HeldTypes, Zenon
    <3>2. cl'[c].req \in {cl[c].req, [cl[c].req EXCEPT !.seen = acc[cl[c].req.key]]}
      BY <1>0, <1>6, Zenon DEF ReadChecking, ClientType
    <3>3. QED
      BY <3>1, <3>2, Zenon DEF Rec
  <2>3. QED
    BY <1>3, <2>1, <2>2, Zenon
<1>7. CASE Enqueue(c)
  <2>0. qmanager' = qmanager
    BY <1>7, Zenon DEF Enqueue
  <2>1. /\ cl[c].pc = "enqueue" /\ cl'[c].pc = "release"
        /\ r.type = "set" => Elems(req_q') = Elems(req_q) \cup {r}
        /\ r.type # "set" => req_q' = req_q
    BY <1>0, <1>7, EnqueueQueues DEF ClientType
  <2>2. CASE r.type # "set"
    BY SMTT(30), <1>3, <2>0, <2>1, <2>2
  <2>3. CASE r.type = "set"
    <3>1. EnqSets = EnqSets' \cup {r}
      BY <1>2, <2>1, <2>3 DEF EnqSets, OthersSame
    <3>2. Elems(req_q)' = Elems(req_q) \cup {r}
      BY <2>1, <2>3, Zenon DEF Elems
    <3>3. qmanager' = Elems(req_q)' \cup EnqSets' \cup MainSet'
      BY <1>0, <1>1, <2>0, <3>1, <3>2, Zenon
    <3>4. QED
      BY SMTT(30), <1>0, <1>1, <2>0, <3>3 DEF QManagerExact, EnqSets, MainSet
  <2>4. QED
    BY <2>2, <2>3, Zenon
<1>8. CASE Announce(c)
  <2>1. cl[c].pc = "release" /\ cl'[c].pc = "idle" /\ UNCHANGED <<qmanager, req_q>>
    BY SMTT(30), <1>0, <1>8 DEF Announce, ClientType, queues, Idle
  <2>2. QED
    BY <1>3, <2>1, Zenon
<1>9. CASE EndAtOnce(c)
  <2>1. cl[c].pc = "end" /\ cl'[c].pc = "idle" /\ UNCHANGED <<qmanager, req_q>>
    BY <1>0, <1>9, Zenon DEF EndAtOnce, ClientType, queues, Idle
  <2>2. QED
    BY <1>3, <2>1, Zenon
<1>10. QED
  BY <1>4, <1>5, <1>6, <1>7, <1>8, <1>9, Zenon DEF ClientStep

\* q_dequeue and qmanager_delete.  The SET just dequeued is in no other place, so the
\* entry found by its key is its own.
LEMMA PMainQMan ==
  ASSUME TypeInv, OnceInv, QManagerExact, PMain
  PROVE  QManagerExact'
<1>0. /\ MainType /\ req_q \in Seq(Rec)
      /\ qmanager = Elems(req_q) \cup EnqSets \cup MainSet
      /\ (\A s, t \in qmanager : s.key = t.key => s = t) /\ pm.pc # "abort"
  BY Zenon DEF TypeInv, DataType, QManagerExact, EnqSets, MainSet
<1>1. EnqSets' = EnqSets
  BY Zenon DEF PMain, PGrap, PRetry, PRead, PWrite, PGiveBack, PDelete, PCall, PReturn, EnqSets
<1>2. ASSUME UNCHANGED <<qmanager, req_q>>, pm.pc # "delete", pm'.pc \notin {"delete", "abort"}
      PROVE  QManagerExact'
  <2>1. MainSet' = MainSet
    BY <1>2, Zenon DEF MainSet
  <2>2. QED
    BY <1>1, <1>2, <2>1, QManSame, Zenon
<1>3. CASE PGrap
  BY <1>0, <1>2, <1>3, Zenon DEF PGrap, queues, MainType
<1>4. CASE PRetry
  BY <1>0, <1>2, <1>4 DEF PRetry, MainType
<1>5. CASE PRead
  BY <1>0, <1>2, <1>5 DEF PRead, MainType
<1>6. CASE PGiveBack
  BY <1>0, <1>2, <1>6, Zenon DEF PGiveBack, queues, MainType
<1>7. CASE PCall
  BY <1>0, <1>2, <1>7, Zenon DEF PCall, queues, MainType
<1>8. CASE PReturn
  BY <1>0, <1>2, <1>8, Zenon DEF PReturn, queues, MainType
<1>9. CASE PWrite
  <2>1. CASE ~(retry_q = << >> /\ ~write_stop /\ req_q # << >>)
    BY SMTT(30), <1>0, <1>2, <1>9, <2>1 DEF PWrite, MainType
  <2>2. CASE retry_q = << >> /\ ~write_stop /\ req_q # << >>
    <3>1. /\ pm'.pc = "delete" /\ pm'.req = Head(req_q) /\ req_q' = Tail(req_q)
          /\ qmanager' = qmanager /\ pm.pc = "write"
      BY <1>9, <2>2 DEF PWrite
    <3>2. Elems(req_q) = Elems(Tail(req_q)) \cup {Head(req_q)}
      BY <1>0, <2>2, TailElems, Zenon
    <3>3. MainSet = {} /\ MainSet' = {Head(req_q)}
      BY <3>1, Zenon DEF MainSet
    <3>4. Elems(req_q)' = Elems(Tail(req_q))
      BY <3>1, Zenon DEF Elems
    <3>5. qmanager' = Elems(req_q)' \cup EnqSets' \cup MainSet'
      BY <1>0, <1>1, <3>1, <3>2, <3>3, <3>4, Zenon
    <3>6. QED
      BY <1>0, <3>1, <3>5, Zenon DEF QManagerExact, EnqSets, MainSet
  <2>3. QED
    BY <2>1, <2>2, Zenon
<1>10. CASE PDelete
  <2>1. /\ pm.pc = "delete" /\ qmanager' = {r \in qmanager : r.key # pm.req.key}
        /\ pm'.pc = (IF Queued(pm.req.key) THEN "call" ELSE "abort") /\ req_q' = req_q
    BY <1>0, <1>10, Zenon DEF PDelete, queues, MainType
  <2>2. MainSet = {pm.req} /\ pm.req \in qmanager
    BY <1>0, <2>1, Zenon DEF MainSet
  <2>3. pm'.pc = "call" /\ MainSet' = {}
    BY <2>1, <2>2, Zenon DEF Queued, MainSet
  <2>4. qmanager' = qmanager \ {pm.req}
    BY SMTT(30), <1>0, <2>1, <2>2
  <2>5. AtMain(pm.req.id) /\ pm.req.id \in 1 .. made
    BY ZenonT(60), <2>1 DEF AtMain, MainHolds, OnceInv
  <2>6. ~AtClient(pm.req.id) /\ ~InQueue(req_q, pm.req.id)
    BY ZenonT(60), <2>5, Exclusive
  <2>7. pm.req \notin Elems(req_q) \cup EnqSets
    BY <2>6, Zenon DEF AtClient, Holds, InQueue, Elems, EnqSets
  <2>8. qmanager' = Elems(req_q)' \cup EnqSets' \cup MainSet'
    <3>1. Elems(req_q)' = Elems(req_q)
      BY <2>1, Zenon DEF Elems
    <3>2. QED
      BY <1>0, <1>1, <2>2, <2>3, <2>4, <2>7, <3>1
  <2>9. QED
    BY <1>0, <2>1, <2>3, <2>8, Zenon DEF QManagerExact, EnqSets, MainSet
<1>11. QED
  BY SMTT(30), <1>3, <1>4, <1>5, <1>6, <1>7, <1>8, <1>9, <1>10 DEF PMain

\* Every step keeps qmanager exact.
LEMMA QManKept ==
  ASSUME TypeInv, OnceInv, QManagerExact, [Next]_vars
  PROVE  QManagerExact'
<1>1. ASSUME UNCHANGED <<qmanager, req_q, cl, pm>> PROVE QManagerExact'
  BY <1>1 DEF QManagerExact, Elems
<1>2. ASSUME NEW r \in inalgo, AlgoEnd(r) \/ AlgoRetry(r) PROVE QManagerExact'
  BY <1>1, <1>2, Zenon DEF AlgoEnd, AlgoRetry, queues
<1>3. CASE (\E r \in retrying : AlgoAnnounce(r)) \/ Drain \/ Stop \/ WakeToStop
           \/ UNCHANGED vars
  BY SMTT(30), <1>1, <1>3 DEF AlgoAnnounce, Drain, Stop, WakeToStop, vars, queues
<1>4. QED
  BY <1>2, <1>3, ClientQMan, PMainQMan, Zenon DEF Next, Finished

-----------------------------------------------------------------------------
(* Reads and the SETs queued before them.                                  *)

\* What is held is a request.
LEMMA HeldRec ==
  ASSUME TypeInv, NEW r \in Held
  PROVE  r \in Rec
<1>1. ClientType /\ MainType /\ DataType
  BY Zenon DEF TypeInv
<1>2. CASE r \in {cl[c].req : c \in {d \in Clients : Holds(d)}}
  BY <1>1, <1>2, HeldTypes, Zenon DEF Holds
<1>3. CASE r \in Elems(req_q)
  BY <1>1, <1>3 DEF Elems, DataType
<1>4. CASE r \in Elems(req_rq)
  BY <1>1, <1>4 DEF Elems, DataType
<1>5. CASE r \in Elems(retry_q)
  BY <1>1, <1>5 DEF Elems, DataType
<1>6. CASE r \in {p \in {pm.req} : MainHolds}
  BY <1>1, <1>6, Zenon DEF MainType
<1>7. QED
  BY <1>1, <1>2, <1>3, <1>4, <1>5, <1>6, Zenon DEF Held, DataType

\* The counters, Queued and Writing do not change, and no request is added.
LEMMA SeenSame ==
  ASSUME SeenInv, UNCHANGED <<acc, app, qmanager>>, Held' \subseteq Held,
         \A k : Writing(k)' <=> Writing(k)
  PROVE  SeenInv'
BY SMTT(30) DEF SeenInv, Queued, Truth

\* A GET that is queued saw no SET of its key in qmanager.
LEMMA ClientSeen ==
  ASSUME TypeInv, OnceInv, SeenInv, NEW c \in Clients, ClientStep(c)
  PROVE  SeenInv'
<1>0. ClientType /\ acc \in [Keys -> Nat] /\ app \in [Keys -> Nat]
  BY Zenon DEF TypeInv, DataType
<1>1. pm' = pm /\ app' = app
  BY Zenon DEF ClientStep, MakeReq, WriteChecking, ReadChecking, Enqueue, Announce, EndAtOnce,
         history
<1>2. \A k : Writing(k)' <=> Writing(k)
  BY <1>1, Zenon DEF Writing
<1>3. ASSUME NEW r \in Held', r.type = "get"
      PROVE  r.seen <= app[r.key] + Truth(Writing(r.key))
  <2>1. CASE r \in Held
    BY <1>3, <2>1, Zenon DEF SeenInv
  <2>2. CASE Holds(c)' /\ r = cl'[c].req
    <3>1. \/ r.seen = 0 /\ r.key \in Keys
          \/ r \in Held
          \/ r.seen = acc[r.key] /\ ~Queued(r.key) /\ r.key \in Keys
      BY <1>3, <2>2, ClientHolds, Zenon
    <3>2. CASE r.seen = 0 /\ r.key \in Keys
      BY <1>0, <3>2 DEF Truth
    <3>3. CASE r.seen = acc[r.key] /\ ~Queued(r.key) /\ r.key \in Keys
      BY <1>0, <3>3 DEF SeenInv, Truth
    <3>4. QED
      BY SMTT(30), <2>1, <3>1, <3>2, <3>3
  <2>3. QED
    BY <2>1, <2>2, ClientHeld, Zenon
<1>4. ASSUME NEW k \in Keys PROVE acc'[k] = app[k] + Truth(Queued(k)') + Truth(Writing(k))
  <2>1. CASE UNCHANGED <<acc, qmanager>>
    BY <2>1, Zenon DEF SeenInv, Queued, Truth
  <2>2. CASE WriteChecking(c) /\ ~Queued(cl[c].req.key)
    <3>1. /\ acc' = [acc EXCEPT ![cl[c].req.key] = @ + 1]
          /\ qmanager' = qmanager \cup {cl[c].req} /\ cl[c].pc = "assign"
      BY <2>2, Zenon DEF WriteChecking
    <3>2. cl[c].req \in Rec
      BY <1>0, <3>1, HeldTypes, Zenon
    <3>3. cl[c].req.key \in Keys
      BY <3>2, RecFields, Zenon
    <3>4. Queued(k)' <=> Queued(k) \/ k = cl[c].req.key
      BY <3>1, Zenon DEF Queued
    <3>5. QED
      BY <1>0, <2>2, <3>1, <3>3, <3>4 DEF SeenInv, Truth
  <2>3. CASE WriteChecking(c) /\ Queued(cl[c].req.key)
    BY <2>1, <2>3, Zenon DEF WriteChecking
  <2>4. CASE ~WriteChecking(c)
    BY <2>1, <2>4, Zenon DEF ClientStep, MakeReq, ReadChecking, Enqueue, Announce, EndAtOnce,
                      history
  <2>5. QED
    BY <2>2, <2>3, <2>4, Zenon
<1>5. QED
  BY <1>1, <1>2, <1>3, <1>4, Zenon DEF SeenInv, Truth

\* A SET leaves qmanager in the step that makes it p_main's next write.
LEMMA PMainSeen ==
  ASSUME TypeInv, QueueTypes, QManagerExact, SeenInv, PMain
  PROVE  SeenInv'
<1>0. MainType /\ acc \in [Keys -> Nat] /\ app \in [Keys -> Nat] /\ Held' \subseteq Held
      /\ req_q \in Seq(Rec) /\ req_rq \in Seq(Rec) /\ retry_q \in Seq(Rec)
  BY PMainHeld, Zenon DEF TypeInv, DataType
<1>1. ASSUME UNCHANGED <<acc, app, qmanager>>, pm.pc # "call",
             pm'.pc = "call" => pm'.req.type # "set"
      PROVE  SeenInv'
  <2>1. \A k : Writing(k)' <=> Writing(k)
    BY <1>1, Zenon DEF Writing
  <2>2. QED
    BY <1>0, <1>1, <2>1, SeenSame, Zenon
<1>2. CASE PGrap
  BY <1>0, <1>1, <1>2, Zenon DEF PGrap, history, MainType
<1>3. CASE PRetry
  <2>1. UNCHANGED <<acc, app, qmanager>> /\ pm.pc = "retry"
    BY <1>3, Zenon DEF PRetry, history
  <2>2. pm'.pc = "call" => pm'.req.type # "set"
    <3>1. CASE retry_q = << >>
      BY <1>0, <1>3, <3>1, Zenon DEF PRetry, MainType
    <3>2. CASE retry_q # << >>
      <4>1. pm'.req \in Elems(retry_q)
        BY <1>0, <1>3, <3>2, TailElems DEF PRetry
      <4>2. QED
        BY <4>1, Zenon DEF QueueTypes
    <3>3. QED
      BY <3>1, <3>2, Zenon
  <2>3. QED
    BY <1>1, <2>1, <2>2, Zenon
<1>4. CASE PRead
  <2>1. UNCHANGED <<acc, app, qmanager>> /\ pm.pc = "read"
    BY <1>4, Zenon DEF PRead, history
  <2>2. pm'.pc = "call" => pm'.req.type # "set"
    <3>1. CASE req_rq = << >>
      BY <1>0, <1>4, <3>1, Zenon DEF PRead, MainType
    <3>2. CASE req_rq # << >>
      <4>1. pm'.req \in Elems(req_rq)
        BY <1>0, <1>4, <3>2, TailElems DEF PRead
      <4>2. QED
        BY <4>1, Zenon DEF QueueTypes
    <3>3. QED
      BY <3>1, <3>2, Zenon
  <2>3. QED
    BY <1>1, <2>1, <2>2, Zenon
<1>5. CASE PWrite
  <2>1. UNCHANGED <<acc, app, qmanager>> /\ pm.pc = "write"
    BY <1>5, Zenon DEF PWrite, history
  <2>2. pm'.pc # "call"
    BY <1>0, <1>5 DEF PWrite, MainType
  <2>3. QED
    BY <1>1, <2>1, <2>2, Zenon
<1>6. CASE PGiveBack
  BY <1>0, <1>1, <1>6, Zenon DEF PGiveBack, history, MainType
<1>7. CASE PReturn
  BY <1>0, <1>1, <1>7, Zenon DEF PReturn, history, MainType
<1>8. CASE PDelete
  <2>1. /\ pm.pc = "delete" /\ qmanager' = {r \in qmanager : r.key # pm.req.key}
        /\ pm'.pc = (IF Queued(pm.req.key) THEN "call" ELSE "abort")
        /\ pm'.req = pm.req /\ UNCHANGED <<acc, app>>
    BY SMTT(30), <1>0, <1>8 DEF PDelete, history, MainType
  <2>2. pm.req \in qmanager /\ pm.req.type = "set"
    BY <2>1, Zenon DEF QManagerExact, QueueTypes
  <2>3. Queued(pm.req.key)
    BY <2>2, Zenon DEF Queued
  <2>4. \A k : (Queued(k)' <=> Queued(k) /\ k # pm.req.key)
    BY <2>1, Zenon DEF Queued
  <2>5. \A k : ~Writing(k) /\ (Writing(k)' <=> k = pm.req.key)
    BY SMTT(30), <2>1, <2>2, <2>3 DEF Writing
  <2>6. ASSUME NEW k \in Keys PROVE acc'[k] = app'[k] + Truth(Queued(k)') + Truth(Writing(k)')
    BY SMTT(30), <1>0, <2>1, <2>3, <2>4, <2>5 DEF SeenInv, Truth
  <2>7. ASSUME NEW r \in Held', r.type = "get"
        PROVE  r.seen <= app'[r.key] + Truth(Writing(r.key)')
    <3>1. r \in Held /\ r.seen \in Nat /\ r.key \in Keys
      BY SMTT(30), <1>0, HeldRec, RecFields
    <3>2. r.seen <= app[r.key] + 0
      BY <2>5, <2>7, <3>1, Zenon DEF SeenInv, Truth
    <3>3. app[r.key] \in Nat
      BY <1>0, <3>1, Zenon
    <3>4. QED
      BY <2>1, <3>1, <3>2, <3>3 DEF Truth
  <2>8. QED
    BY <2>6, <2>7, Zenon DEF SeenInv, Truth
<1>9. CASE PCall
  <2>1. pm.pc = "call" /\ pm'.pc # "call" /\ UNCHANGED <<acc, qmanager>>
        /\ app' = IF pm.req.type = "set" THEN [app EXCEPT ![pm.req.key] = @ + 1] ELSE app
    BY <1>0, <1>9, Zenon DEF PCall, MainType
  <2>2. pm.req.key \in Keys
    <3>1. pm.req \in Rec
      BY <1>0, <2>1, Zenon DEF MainType, MainHolds
    <3>2. QED
      BY <3>1, RecFields, Zenon
  <2>3. \A k : ~Writing(k)' /\ (Writing(k) <=> pm.req.type = "set" /\ pm.req.key = k)
    BY <2>1, Zenon DEF Writing
  <2>4. \A k \in Keys : app'[k] = app[k] + Truth(Writing(k))
    BY <1>0, <2>1, <2>2, <2>3 DEF Truth
  <2>5. \A k : Queued(k)' <=> Queued(k)
    BY <2>1, Zenon DEF Queued
  <2>6. ASSUME NEW k \in Keys PROVE acc'[k] = app'[k] + Truth(Queued(k)') + Truth(Writing(k)')
    <3>1. acc[k] = app[k] + Truth(Queued(k)) + Truth(Writing(k)) /\ app[k] \in Nat
      BY <1>0, Zenon DEF SeenInv
    <3>2. QED
      BY <2>1, <2>3, <2>4, <2>5, <3>1 DEF Truth
  <2>7. ASSUME NEW r \in Held', r.type = "get"
        PROVE  r.seen <= app'[r.key] + Truth(Writing(r.key)')
    <3>1. r \in Held /\ r.seen \in Nat /\ r.key \in Keys
      BY <1>0, HeldRec, RecFields, Zenon
    <3>2. r.seen <= app'[r.key]
      BY <2>4, <2>7, <3>1, Zenon DEF SeenInv
    <3>3. app'[r.key] \in Nat
      <4>1. app[r.key] \in Nat /\ app'[r.key] = app[r.key] + Truth(Writing(r.key))
        BY <1>0, <2>4, <3>1, Zenon
      <4>2. QED
        BY <4>1 DEF Truth
    <3>4. QED
      BY <2>3, <3>2, <3>3 DEF Truth
  <2>8. QED
    BY <2>6, <2>7, Zenon DEF SeenInv, Truth
<1>10. QED
  BY <1>2, <1>3, <1>4, <1>5, <1>6, <1>7, <1>8, <1>9 DEF PMain

\* Every step keeps reads behind the SETs queued before them.
LEMMA SeenKept ==
  ASSUME TypeInv, QueueTypes, OnceInv, QManagerExact, SeenInv, [Next]_vars
  PROVE  SeenInv'
<1>1. ASSUME NEW r \in inalgo, AlgoRetry(r) PROVE SeenInv'
  <2> DEFINE again == [r EXCEPT !.tries = @ + 1]
  <2>1. UNCHANGED <<acc, app, qmanager, pm>>
    BY <1>1, Zenon DEF AlgoRetry, history
  <2>2. \A k : Writing(k)' <=> Writing(k)
    BY <2>1, Zenon DEF Writing
  <2>3. /\ r \in Held /\ again.type = r.type /\ again.key = r.key /\ again.seen = r.seen
        /\ \A s \in Held' : s \in Held \/ s = again
    BY ZenonT(60), <1>1, RetryHeld
  <2> HIDE DEF again
  <2>4. QED
    BY <2>1, <2>2, <2>3 DEF SeenInv, Queued, Truth
<1>2. CASE (\E r \in inalgo : AlgoEnd(r)) \/ (\E r \in retrying : AlgoAnnounce(r))
           \/ Drain \/ Stop \/ WakeToStop \/ UNCHANGED vars
  <2>1. UNCHANGED <<acc, app, qmanager, pm>>
    BY <1>2, Zenon DEF AlgoEnd, AlgoAnnounce, Drain, Stop, WakeToStop, vars, history
  <2>2. \A k : Writing(k)' <=> Writing(k)
    BY <2>1, Zenon DEF Writing
  <2>3. QED
    BY <1>2, <2>1, <2>2, OthersHeld, SeenSame, Zenon
<1>3. QED
  BY <1>1, <1>2, ClientSeen, PMainSeen, Zenon DEF Next, Finished

-----------------------------------------------------------------------------
(* Wake-ups.                                                               *)

Work == Len(req_q) + Len(req_rq) + Len(retry_q)
Turn == IF HoldsTurn THEN 1 ELSE 0

\* The terms of WakeupsMatchWork are numbers.
LEMMA WakeTypes ==
  ASSUME TypeInv, TriesInv
  PROVE  /\ Len(req_q) \in Nat /\ Len(req_rq) \in Nat /\ Len(retry_q) \in Nat
         /\ IsFiniteSet(Announcing) /\ Cardinality(Announcing) \in Nat
         /\ IsFiniteSet(retrying) /\ Cardinality(retrying) \in Nat
         /\ inf_cond \in Int /\ Work \in Nat /\ Turn \in Nat
<1>1. /\ Len(req_q) \in Nat /\ Len(req_rq) \in Nat /\ Len(retry_q) \in Nat
      /\ inf_cond \in Int
  BY DEF TypeInv, DataType
<1>2. IsFiniteSet(Announcing)
  BY InterfaceAssumption, FS_Subset, Zenon DEF Announcing
<1>3. IsFiniteSet(retrying)
  BY Zenon DEF TriesInv
<1>4. Work \in Nat /\ Turn \in Nat
  BY <1>1 DEF Work, Turn
<1>5. QED
  BY <1>1, <1>2, <1>3, <1>4, FS_CardinalityType, Zenon

\* A client queues a request, then announces it.
LEMMA ClientWake ==
  ASSUME TypeInv, OnceInv, TriesInv, WakeupsMatchWork, NEW c \in Clients, ClientStep(c)
  PROVE  WakeupsMatchWork'
<1>0. /\ ClientType
      /\ Len(req_q) \in Nat /\ Len(req_rq) \in Nat /\ Len(retry_q) \in Nat
      /\ IsFiniteSet(Announcing) /\ Cardinality(Announcing) \in Nat
      /\ Cardinality(retrying) \in Nat /\ inf_cond \in Int
  BY WakeTypes, Zenon DEF TypeInv
<1>1. UNCHANGED <<pm, retrying, stopflag, retry_q>> /\ (HoldsTurn' <=> HoldsTurn)
  BY Zenon DEF ClientStep, MakeReq, WriteChecking, ReadChecking, Enqueue, Announce, EndAtOnce,
         HoldsTurn, queues
<1>2. OthersSame(c)
  BY <1>0, Zenon DEF ClientStep, MakeReq, WriteChecking, ReadChecking, Enqueue, Announce,
         EndAtOnce, OthersSame, ClientType
<1>3. ASSUME UNCHANGED <<inf_cond, req_q, req_rq>>, cl[c].pc # "release", cl'[c].pc # "release"
      PROVE  WakeupsMatchWork'
  <2>1. Announcing' = Announcing
    BY <1>2, <1>3, Zenon DEF Announcing, OthersSame
  <2>2. QED
    BY <1>1, <1>3, <2>1, Zenon DEF WakeupsMatchWork
<1>4. CASE MakeReq(c)
  <2>1. /\ cl[c].pc = "idle" /\ cl'[c].pc = "assign"
        /\ UNCHANGED <<inf_cond, req_q, req_rq>>
    BY <1>0, <1>4, MadeReq, Zenon
  <2>2. QED
    BY SMTT(30), <1>3, <2>1
<1>5. CASE WriteChecking(c)
  <2>1. /\ cl[c].pc = "assign" /\ cl'[c].pc \in {"end", "enqueue"}
        /\ UNCHANGED <<inf_cond, req_q, req_rq>>
    BY <1>0, <1>5 DEF WriteChecking, queues, ClientType
  <2>2. QED
    BY <1>3, <2>1, Zenon
<1>6. CASE ReadChecking(c)
  <2>1. /\ cl[c].pc = "assign" /\ cl'[c].pc \in {"end", "enqueue"}
        /\ UNCHANGED <<inf_cond, req_q, req_rq>>
    BY <1>0, <1>6, Zenon DEF ReadChecking, queues, ClientType
  <2>2. QED
    BY <1>3, <2>1, Zenon
<1>7. CASE Enqueue(c)
  <2>1. /\ cl[c].pc = "enqueue" /\ cl'[c].pc = "release" /\ inf_cond' = inf_cond
        /\ Len(req_q') + Len(req_rq') = Len(req_q) + Len(req_rq) + 1
        /\ Len(req_q') \in Nat /\ Len(req_rq') \in Nat
    <3>0. inf_cond' = inf_cond
      BY <1>7, Zenon DEF Enqueue
    <3>1. cl[c].pc = "enqueue" /\ cl'[c].pc = "release" /\ inf_cond' = inf_cond
      BY <1>0, <1>7, <3>0, EnqueueQueues DEF ClientType
    <3>2. \/ Len(req_q') = Len(req_q) + 1 /\ req_rq' = req_rq
          \/ Len(req_rq') = Len(req_rq) + 1 /\ req_q' = req_q
      BY <1>7, EnqueueQueues, Zenon
    <3>3. QED
      BY <1>0, <3>1, <3>2
  <2>2. Announcing' = Announcing \cup {c} /\ c \notin Announcing
    BY <1>2, <2>1, Zenon DEF Announcing, OthersSame
  <2>3. Cardinality(Announcing') = Cardinality(Announcing) + 1
    BY <1>0, <2>2, FS_AddElement, Zenon
  <2>4. Turn' = Turn /\ Work' = Work + 1
    <3>1. Turn' = Turn
      BY <1>1, Zenon DEF Turn
    <3>2. Len(retry_q') = Len(retry_q)
      BY <1>1, Zenon
    <3>3. QED
      BY <1>0, <2>1, <3>1, <3>2 DEF Work
  <2>5. ~stopflag => inf_cond + Turn + Cardinality(Announcing) + Cardinality(retrying) = Work
    BY Zenon DEF WakeupsMatchWork, Turn, Work
  <2>6. ~stopflag => inf_cond' + Turn' + Cardinality(Announcing') + Cardinality(retrying')
                       = Work'
    <3>1. /\ inf_cond' = inf_cond /\ Cardinality(retrying') = Cardinality(retrying)
          /\ Turn \in Nat /\ Work \in Nat
      BY <1>1, <2>1, WakeTypes, Zenon
    <3>2. inf_cond \in Int /\ Cardinality(Announcing) \in Nat /\ Cardinality(retrying) \in Nat
      BY <1>0, Zenon
    <3>3. QED
      BY <2>3, <2>4, <2>5, <3>1, <3>2
  <2>7. QED
    BY <1>1, <2>6, Zenon DEF WakeupsMatchWork, Turn, Work
<1>8. CASE Announce(c)
  <2>1. /\ cl[c].pc = "release" /\ cl'[c].pc = "idle" /\ inf_cond' = inf_cond + 1
        /\ UNCHANGED <<req_q, req_rq>>
    BY <1>0, <1>8, Zenon DEF Announce, ClientType, queues, Idle
  <2>2. Announcing' = Announcing \ {c} /\ c \in Announcing
    BY <1>2, <2>1, Zenon DEF Announcing, OthersSame
  <2>3. Cardinality(Announcing') = Cardinality(Announcing) - 1
    BY <1>0, <2>2, FS_RemoveElement, Zenon
  <2>4. QED
    BY <1>0, <1>1, <2>1, <2>3 DEF WakeupsMatchWork
<1>9. CASE EndAtOnce(c)
  <2>1. /\ cl[c].pc = "end" /\ cl'[c].pc = "idle"
        /\ UNCHANGED <<inf_cond, req_q, req_rq>>
    BY <1>0, <1>9, Zenon DEF EndAtOnce, ClientType, queues, Idle
  <2>2. QED
    BY <1>3, <2>1, Zenon
<1>10. QED
  BY <1>4, <1>5, <1>6, <1>7, <1>8, <1>9, Zenon DEF ClientStep

\* p_main turns a wake-up into a request of some queue or gives it back.
LEMMA PMainWake ==
  ASSUME TypeInv, TriesInv, WakeupsMatchWork, PMain
  PROVE  WakeupsMatchWork'
<1>0. /\ MainType /\ req_q \in Seq(Rec) /\ req_rq \in Seq(Rec) /\ retry_q \in Seq(Rec)
      /\ Len(req_q) \in Nat /\ Len(req_rq) \in Nat /\ Len(retry_q) \in Nat
      /\ Cardinality(Announcing) \in Nat /\ Cardinality(retrying) \in Nat /\ inf_cond \in Int
  BY WakeTypes, Zenon DEF TypeInv, DataType
<1>1. /\ UNCHANGED <<retrying, stopflag>> /\ Announcing' = Announcing
  BY Zenon DEF PMain, PGrap, PRetry, PRead, PWrite, PGiveBack, PDelete, PCall, PReturn, Announcing
<1>2. CASE PGrap
  <2>1. /\ pm.pc = "grap" /\ inf_cond' = inf_cond - 1 /\ UNCHANGED queues
        /\ ~stopflag => pm'.pc = "retry"
    BY <1>0, <1>2, Zenon DEF PGrap, MainType
  <2>2. QED
    BY <1>0, <1>1, <2>1 DEF WakeupsMatchWork, HoldsTurn, queues
<1>3. CASE PGiveBack
  <2>1. /\ pm.pc = "giveback" /\ inf_cond' = inf_cond + 1 /\ UNCHANGED queues
        /\ pm'.pc = "grap"
    BY <1>0, <1>3, Zenon DEF PGiveBack, MainType
  <2>2. QED
    BY <1>0, <1>1, <2>1 DEF WakeupsMatchWork, HoldsTurn, queues
<1>4. ASSUME UNCHANGED <<inf_cond, queues>>, HoldsTurn' <=> HoldsTurn
      PROVE  WakeupsMatchWork'
  BY <1>1, <1>4, Zenon DEF WakeupsMatchWork, queues
<1>5. CASE PDelete
  <2>1. pm.pc = "delete" /\ pm'.pc \in {"call", "abort"} /\ UNCHANGED <<inf_cond, queues>>
    BY <1>0, <1>5, Zenon DEF PDelete, MainType
  <2>2. QED
    BY <1>4, <2>1, Zenon DEF HoldsTurn
<1>6. CASE PCall
  <2>1. pm.pc = "call" /\ pm'.pc \in {"return", "grap"} /\ UNCHANGED <<inf_cond, queues>>
    BY <1>0, <1>6, Zenon DEF PCall, MainType
  <2>2. QED
    BY <1>4, <2>1, Zenon DEF HoldsTurn
<1>7. CASE PReturn
  <2>1. pm.pc = "return" /\ pm'.pc = "grap" /\ UNCHANGED <<inf_cond, queues>>
    BY <1>0, <1>7, Zenon DEF PReturn, MainType
  <2>2. QED
    BY <1>4, <2>1, Zenon DEF HoldsTurn
<1>8. ASSUME inf_cond' = inf_cond, HoldsTurn, ~HoldsTurn', Work' = Work - 1
      PROVE  WakeupsMatchWork'
  <2>1. Turn = 1 /\ Turn' = 0
    BY <1>8, Zenon DEF Turn
  <2>2. ~stopflag => inf_cond + Turn + Cardinality(Announcing) + Cardinality(retrying) = Work
    BY Zenon DEF WakeupsMatchWork, Turn, Work
  <2>3. ~stopflag => inf_cond' + Turn' + Cardinality(Announcing') + Cardinality(retrying')
                       = Work'
    BY <1>0, <1>1, <1>8, <2>1, <2>2, WakeTypes
  <2>4. QED
    BY <1>1, <2>3, Zenon DEF WakeupsMatchWork, Turn, Work
<1>9. CASE PRetry
  <2>1. CASE retry_q = << >>
    <3>1. pm.pc = "retry" /\ pm'.pc = "read" /\ UNCHANGED <<inf_cond, queues>>
      BY <1>0, <1>9, <2>1, Zenon DEF PRetry, MainType, queues
    <3>2. QED
      BY <1>4, <3>1, Zenon DEF HoldsTurn
  <2>2. CASE retry_q # << >>
    <3>1. /\ pm.pc = "retry" /\ pm'.pc = "call" /\ retry_q' = Tail(retry_q)
          /\ UNCHANGED <<inf_cond, req_q, req_rq>>
      BY <1>9, <2>2 DEF PRetry
    <3>2. Len(Tail(retry_q)) = Len(retry_q) - 1
      BY <1>0, <2>2, TailElems, Zenon
    <3>3. Work' = Work - 1
      <4>1. Len(req_q') = Len(req_q) /\ Len(req_rq') = Len(req_rq) /\ Len(retry_q') = Len(retry_q) - 1
        BY <3>1, <3>2, Zenon
      <4>2. QED
        BY <1>0, <4>1 DEF Work
    <3>4. HoldsTurn /\ ~HoldsTurn'
      BY <3>1, Zenon DEF HoldsTurn
    <3>5. QED
      BY <1>8, <3>1, <3>3, <3>4, Zenon
  <2>3. QED
    BY <2>1, <2>2, Zenon
<1>10. CASE PRead
  <2>1. CASE req_rq = << >>
    <3>1. pm.pc = "read" /\ pm'.pc = "write" /\ UNCHANGED <<inf_cond, queues>>
      BY <1>0, <1>10, <2>1, Zenon DEF PRead, MainType, queues
    <3>2. QED
      BY <1>4, <3>1, Zenon DEF HoldsTurn
  <2>2. CASE req_rq # << >>
    <3>1. /\ pm.pc = "read" /\ pm'.pc = "call" /\ req_rq' = Tail(req_rq)
          /\ UNCHANGED <<inf_cond, req_q, retry_q>>
      BY <1>10, <2>2 DEF PRead
    <3>2. Len(Tail(req_rq)) = Len(req_rq) - 1
      BY <1>0, <2>2, TailElems, Zenon
    <3>3. Work' = Work - 1
      <4>1. Len(req_q') = Len(req_q) /\ Len(req_rq') = Len(req_rq) - 1 /\ Len(retry_q') = Len(retry_q)
        BY <3>1, <3>2, Zenon
      <4>2. QED
        BY <1>0, <4>1 DEF Work
    <3>4. HoldsTurn /\ ~HoldsTurn'
      BY <3>1, Zenon DEF HoldsTurn
    <3>5. QED
      BY <1>8, <3>1, <3>3, <3>4, Zenon
  <2>3. QED
    BY <2>1, <2>2, Zenon
<1>11. CASE PWrite
  <2>1. CASE ~(retry_q = << >> /\ ~write_stop /\ req_q # << >>)
    <3>1. pm.pc = "write" /\ pm'.pc = "giveback" /\ UNCHANGED <<inf_cond, queues>>
      BY <1>0, <1>11, <2>1, Zenon DEF PWrite, MainType, queues
    <3>2. QED
      BY <1>4, <3>1, Zenon DEF HoldsTurn
  <2>2. CASE retry_q = << >> /\ ~write_stop /\ req_q # << >>
    <3>1. /\ pm.pc = "write" /\ pm'.pc = "delete" /\ req_q' = Tail(req_q)
          /\ UNCHANGED <<inf_cond, req_rq, retry_q>>
      BY <1>11, <2>2 DEF PWrite
    <3>2. Len(Tail(req_q)) = Len(req_q) - 1
      BY <1>0, <2>2, TailElems, Zenon
    <3>3. Work' = Work - 1
      <4>1. Len(req_q') = Len(req_q) - 1 /\ Len(req_rq') = Len(req_rq) /\ Len(retry_q') = Len(retry_q)
        BY <3>1, <3>2, Zenon
      <4>2. QED
        BY <1>0, <4>1 DEF Work
    <3>4. HoldsTurn /\ ~HoldsTurn'
      BY <3>1, Zenon DEF HoldsTurn
    <3>5. QED
      BY <1>8, <3>1, <3>3, <3>4, Zenon
  <2>3. QED
    BY <2>1, <2>2, Zenon
<1>12. QED
  BY <1>2, <1>3, <1>5, <1>6, <1>7, <1>9, <1>10, <1>11 DEF PMain

\* Every step keeps wake-ups and queued requests in balance.
LEMMA WakeKept ==
  ASSUME TypeInv, OnceInv, TriesInv, WakeupsMatchWork, [Next]_vars
  PROVE  WakeupsMatchWork'
<1>0. /\ Len(req_q) \in Nat /\ Len(req_rq) \in Nat /\ Len(retry_q) \in Nat
      /\ Cardinality(Announcing) \in Nat /\ IsFiniteSet(retrying)
      /\ Cardinality(retrying) \in Nat /\ inf_cond \in Int
  BY WakeTypes, Zenon
<1>1. ASSUME NEW r \in inalgo, AlgoRetry(r) PROVE WakeupsMatchWork'
  <2> DEFINE again == [r EXCEPT !.tries = @ + 1]
  <2>1. /\ UNCHANGED <<cl, pm, inf_cond, stopflag, req_q, req_rq>>
        /\ retrying' = retrying \cup {again}
    BY <1>1, Zenon DEF AlgoRetry
  <2>2. /\ r \in Held /\ r \in Rec /\ again.id = r.id /\ again.tries = r.tries + 1
        /\ Len(retry_q') = Len(retry_q) + 1
    BY <1>1, RetryHeld, Zenon
  <2> HIDE DEF again
  <2>3. again \notin retrying
    <3>1. r.tries \in Nat
      BY <2>2, RecFields, Zenon
    <3>2. QED
      BY <2>2, <3>1 DEF TriesInv
  <2>4. Cardinality(retrying') = Cardinality(retrying) + 1
    BY <1>0, <2>1, <2>3, FS_AddElement, Zenon
  <2>5. Announcing' = Announcing /\ (HoldsTurn' <=> HoldsTurn)
    BY <2>1, Zenon DEF Announcing, HoldsTurn
  <2>6. QED
    BY SMTT(30), <1>0, <2>1, <2>2, <2>4, <2>5 DEF WakeupsMatchWork
<1>2. ASSUME NEW r \in retrying, AlgoAnnounce(r) PROVE WakeupsMatchWork'
  <2>1. /\ UNCHANGED <<cl, pm, stopflag, req_q, req_rq, retry_q>>
        /\ inf_cond' = inf_cond + 1 /\ retrying' = retrying \ {r}
    BY <1>2, Zenon DEF AlgoAnnounce, queues
  <2>2. Cardinality(retrying') = Cardinality(retrying) - 1
    BY <1>0, <2>1, FS_RemoveElement, Zenon
  <2>3. Announcing' = Announcing /\ (HoldsTurn' <=> HoldsTurn)
    BY <2>1, Zenon DEF Announcing, HoldsTurn
  <2>4. QED
    BY <1>0, <2>1, <2>2, <2>3 DEF WakeupsMatchWork
<1>3. ASSUME UNCHANGED <<cl, pm, inf_cond, retrying, stopflag, queues>> PROVE WakeupsMatchWork'
  BY <1>3, Zenon DEF WakeupsMatchWork, HoldsTurn, Announcing, queues
<1>4. ASSUME NEW r \in inalgo, AlgoEnd(r) PROVE WakeupsMatchWork'
  BY <1>3, <1>4, Zenon DEF AlgoEnd
<1>5. CASE Drain \/ UNCHANGED vars
  BY <1>3, <1>5, Zenon DEF Drain, vars
<1>6. CASE Stop \/ WakeToStop
  BY <1>6 DEF Stop, WakeToStop, WakeupsMatchWork
<1>7. QED
  BY <1>1, <1>2, <1>4, <1>5, <1>6, ClientWake, PMainWake, Zenon DEF Next, Finished

-----------------------------------------------------------------------------
(* The properties.                                                         *)

\* inf_init.
LEMMA InitIInv ==
  ASSUME Init
  PROVE  IInv
<1>1. /\ req_q = << >> /\ req_rq = << >> /\ retry_q = << >> /\ inalgo = {} /\ retrying = {}
      /\ qmanager = {} /\ done = {} /\ made = 0 /\ flying = 0 /\ inf_cond = 0
      /\ stopflag = FALSE /\ pm = [pc |-> "grap", req |-> NoReq]
      /\ acc = [k \in Keys |-> 0] /\ app = [k \in Keys |-> 0]
      /\ cl = [c \in Clients |-> [pc |-> "idle", req |-> NoReq]]
  BY Zenon DEF Init, Idle
<1>2. ClientType
  BY <1>1, Zenon DEF ClientType
<1>3. MainType
  BY <1>1, Zenon DEF MainType, MainHolds
<1>4. DataType
  <2>1. req_q \in Seq(Rec) /\ req_rq \in Seq(Rec) /\ retry_q \in Seq(Rec)
    BY <1>1
  <2>2. acc \in [Keys -> Nat] /\ app \in [Keys -> Nat]
    BY <1>1, Zenon
  <2>3. /\ qmanager \subseteq Rec /\ inalgo \subseteq Rec /\ retrying \subseteq Rec
        /\ done \subseteq 1 .. made /\ stopflag \in BOOLEAN
    BY <1>1, Zenon
  <2>4. flying \in Int /\ inf_cond \in Int /\ made \in Nat
    BY <1>1
  <2>5. QED
    BY <2>1, <2>2, <2>3, <2>4, Zenon DEF DataType
<1>5. Elems(req_q) = {} /\ Elems(req_rq) = {} /\ Elems(retry_q) = {}
  BY <1>1 DEF Elems
<1>6. QueueTypes
  BY <1>1, <1>5, Zenon DEF QueueTypes
<1>7. /\ (\A c \in Clients : ~Holds(c)) /\ ~MainHolds
  BY <1>1, Zenon DEF Holds, MainHolds
<1>8. /\ \A i : ~(AtClient(i) \/ InQueue(req_q, i) \/ InQueue(req_rq, i) \/ InQueue(retry_q, i)
                  \/ AtMain(i) \/ InAlgo(i))
      /\ DistinctIds(req_q) /\ DistinctIds(req_rq) /\ DistinctIds(retry_q)
  <2>1. DOMAIN req_q = {} /\ DOMAIN req_rq = {} /\ DOMAIN retry_q = {}
    BY <1>1
  <2>2. \A i : ~InQueue(req_q, i) /\ ~InQueue(req_rq, i) /\ ~InQueue(retry_q, i)
    BY <2>1, Zenon DEF InQueue
  <2>3. DistinctIds(req_q) /\ DistinctIds(req_rq) /\ DistinctIds(retry_q)
    BY <2>1, Zenon DEF DistinctIds
  <2>4. \A i : ~AtClient(i) /\ ~AtMain(i) /\ ~InAlgo(i)
    BY <1>1, <1>7, Zenon DEF AtClient, AtMain, InAlgo
  <2>5. QED
    BY <2>2, <2>3, <2>4, Zenon
<1>9. Cardinality({}) = 0 /\ IsFiniteSet({})
  BY FS_EmptySet, Zenon
<1>10. OnceInv
  <2>1. 1 .. made = {}
    BY <1>1
  <2>2. flying = made - Cardinality(done) /\ flying <= QDEPTH
    BY <1>1, <1>9, InterfaceAssumption
  <2>3. QED
    BY <1>1, <1>7, <1>8, <2>1, <2>2, Zenon DEF OnceInv
<1>11. Held = {}
  BY <1>1, <1>5, <1>7, Zenon DEF Held
<1>12. TriesInv
  BY <1>1, <1>9, Zenon DEF TriesInv
<1>13. QManagerExact
  BY <1>1, <1>5, Zenon DEF QManagerExact
<1>14. SeenInv
  BY <1>1, <1>11 DEF SeenInv, Queued, Writing, Truth
<1>15. WakeupsMatchWork
  <2>1. Announcing = {}
    BY <1>1, Zenon DEF Announcing
  <2>2. ~HoldsTurn
    BY <1>1, Zenon DEF HoldsTurn
  <2>3. Len(req_q) = 0 /\ Len(req_rq) = 0 /\ Len(retry_q) = 0
    BY <1>1, Zenon
  <2>4. QED
    BY <1>1, <1>9, <2>1, <2>2, <2>3 DEF WakeupsMatchWork
<1>16. QED
  BY <1>2, <1>3, <1>4, <1>6, <1>10, <1>12, <1>13, <1>14, <1>15 DEF IInv, TypeInv

\* The invariant is inductive.
LEMMA NextIInv ==
  ASSUME IInv, [Next]_vars
  PROVE  IInv'
<1>0. /\ TypeInv /\ QueueTypes /\ OnceInv /\ TriesInv /\ QManagerExact /\ SeenInv
      /\ WakeupsMatchWork
  BY Zenon DEF IInv
<1>1. TypeInv'
  BY <1>0, ClientStepType, PMainType, OthersType, Zenon DEF Next, Finished
<1>2. OnceInv'
  BY <1>0, ClientOnce, PMainOnce, OthersOnce, Zenon DEF Next, Finished
<1>3. QueueTypes' /\ TriesInv' /\ QManagerExact' /\ SeenInv' /\ WakeupsMatchWork'
  BY <1>0, QueueTypesKept, TriesKept, QManKept, SeenKept, WakeKept, Zenon
<1>4. QED
  BY <1>1, <1>2, <1>3, Zenon DEF IInv

\* Every reachable state satisfies the inductive invariant: types, one place per
\* request, exact qmanager, the order of retries and of reads, one wake-up per request.
THEOREM Inductive == Spec => []IInv
<1>1. Init => IInv
  BY InitIInv, Zenon
<1>2. IInv /\ [Next]_vars => IInv'
  BY NextIInv, Zenon
<1>3. QED
  BY <1>1, <1>2, PTL DEF Spec

\* The clients that hold request i.
LEMMA ClientCount ==
  ASSUME ClientType, OnceInv, NEW i \in 1 .. made
  PROVE  Cardinality({c \in Clients : cl[c].req.id = i /\ cl[c].pc # "release"})
           = Truth(AtClient(i))
<1>1. ASSUME NEW c \in Clients, cl[c].req.id = i
      PROVE  cl[c].pc # "release" <=> Holds(c)
  <2>1. i # 0
    OBVIOUS
  <2>2. cl[c].pc # "idle"
    BY <1>1, <2>1 DEF ClientType, NoReq
  <2>3. cl[c].pc \in {"idle", "assign", "enqueue", "end", "release"}
    BY Zenon DEF ClientType
  <2>4. QED
    BY <2>2, <2>3, Zenon DEF Holds
<1>2. {c \in Clients : cl[c].req.id = i /\ cl[c].pc # "release"}
        = {c \in Clients : Holds(c) /\ cl[c].req.id = i}
  BY <1>1, Zenon
<1>3. CASE AtClient(i)
  <2>1. PICK c \in Clients : Holds(c) /\ cl[c].req.id = i
    BY <1>3, Zenon DEF AtClient
  <2>2. {d \in Clients : Holds(d) /\ cl[d].req.id = i} = {c}
    BY <2>1, Zenon DEF OnceInv
  <2>3. QED
    BY <1>2, <1>3, <2>2, FS_Singleton, Zenon DEF Truth
<1>4. CASE ~AtClient(i)
  <2>1. {d \in Clients : Holds(d) /\ cl[d].req.id = i} = {}
    BY <1>4, Zenon DEF AtClient
  <2>2. QED
    BY <1>2, <1>4, <2>1, FS_EmptySet, Zenon DEF Truth
<1>5. QED
  BY <1>3, <1>4, Zenon

\* The requests of the algorithm with id i.
LEMMA AlgoCount ==
  ASSUME OnceInv, NEW i
  PROVE  Cardinality({r \in inalgo : r.id = i}) = Truth(InAlgo(i))
<1>1. CASE InAlgo(i)
  <2>1. PICK r \in inalgo : r.id = i
    BY <1>1, Zenon DEF InAlgo
  <2>2. {s \in inalgo : s.id = i} = {r}
    BY <2>1, Zenon DEF OnceInv
  <2>3. QED
    BY <1>1, <2>2, FS_Singleton, Zenon DEF Truth
<1>2. CASE ~InAlgo(i)
  <2>1. {s \in inalgo : s.id = i} = {}
    BY <1>2, Zenon DEF InAlgo
  <2>2. QED
    BY <1>2, <2>1, FS_EmptySet, Zenon DEF Truth
<1>3. QED
  BY <1>1, <1>2, Zenon

\* Until inf_end_req frees it, a request is with its maker, in one queue, with p_main or
\* in the algorithm, and in one of them only; flying counts the ones not yet freed.
THEOREM OnePlace == Spec => []EachRequestOnce
<1>1. ASSUME IInv PROVE EachRequestOnce
  <2>1. ClientType /\ OnceInv
    BY <1>1, Zenon DEF IInv, TypeInv
  <2>2. ASSUME NEW i \in 1 .. made PROVE Places(i) = IF i \in done THEN 0 ELSE 1
    <3>1. /\ Cardinality({c \in Clients : cl[c].req.id = i /\ cl[c].pc # "release"})
               = Truth(AtClient(i))
          /\ Cardinality({r \in inalgo : r.id = i}) = Truth(InAlgo(i))
      BY SMTT(30), <2>1, ClientCount, AlgoCount
    <3>2. /\ Cardinality({j \in DOMAIN req_q : req_q[j].id = i}) = Truth(InQueue(req_q, i))
          /\ Cardinality({j \in DOMAIN req_rq : req_rq[j].id = i}) = Truth(InQueue(req_rq, i))
          /\ Cardinality({j \in DOMAIN retry_q : retry_q[j].id = i}) = Truth(InQueue(retry_q, i))
      BY <2>1, QueueCount, Zenon DEF OnceInv
    <3>3. (IF pm.req.id = i /\ pm.pc \in {"delete", "call"} THEN 1 ELSE 0) = Truth(AtMain(i))
      BY SMTT(30) DEF Truth, AtMain, MainHolds
    <3>4. Places(i) = Truth(AtClient(i)) + Truth(InQueue(req_q, i)) + Truth(InQueue(req_rq, i))
                      + Truth(InQueue(retry_q, i)) + Truth(AtMain(i)) + Truth(InAlgo(i))
      BY <3>1, <3>2, <3>3, Zenon DEF Places
    <3>5. Spots(i) = 1
      BY <2>1, Zenon DEF OnceInv
    <3>6. QED
      BY <3>4, <3>5 DEF Spots, Truth
  <2>3. QED
    BY <2>1, <2>2, Zenon DEF EachRequestOnce, OnceInv
<1>2. QED
  BY <1>1, Inductive, PTL

\* q_enqueue of assign_req never finds its queue full, for any QDEPTH <= QSIZE.
THEOREM QueuesHaveRoom == Spec => []RoomInQueues
<1>1. ASSUME IInv PROVE RoomInQueues
  BY <1>1, RoomLemma, Zenon DEF IInv
<1>2. QED
  BY <1>1, Inductive, PTL

\* qmanager, which has a lock of its own, holds exactly the SETs still to be sent, one
\* per key, and qmanager_delete never aborts.
THEOREM TreeExact == Spec => []QManagerExact
<1>1. ASSUME IInv PROVE QManagerExact
  BY <1>1, Zenon DEF IInv
<1>2. QED
  BY <1>1, Inductive, PTL

\* inf_cond, with the wake-ups on their way, equals the number of queued requests: p_main
\* neither sleeps over one nor spins without one.
THEOREM OneWakeupEach == Spec => []WakeupsMatchWork
<1>1. ASSUME IInv PROVE WakeupsMatchWork
  BY <1>1, Zenon DEF IInv
<1>2. QED
  BY <1>1, Inductive, PTL

\* Although reads overtake queued writes, a GET reaches the algorithm after every SET of
\* its key that was queued when the GET was made.
THEOREM ReadsInOrder == Spec => []ReadsSeeQueuedWrites
<1>1. ASSUME IInv PROVE ReadsSeeQueuedWrites
  <2>1. TypeInv /\ SeenInv
    BY <1>1, Zenon DEF IInv
  <2>2. SUFFICES ASSUME pm.pc = "call", pm.req.type = "get"
                 PROVE  app[pm.req.key] >= pm.req.seen
    BY Zenon DEF ReadsSeeQueuedWrites
  <2>3. pm.req \in Held
    BY <2>2, Zenon DEF Held, MainHolds
  <2>4. pm.req.seen \in Nat /\ pm.req.key \in Keys
    BY <2>1, <2>3, HeldRec, RecFields, Zenon
  <2>5. app[pm.req.key] \in Nat
    BY <2>1, <2>4, Zenon DEF TypeInv, DataType
  <2>6. ~Writing(pm.req.key)
    BY <2>2, Zenon DEF Writing
  <2>7. QED
    BY <2>1, <2>2, <2>3, <2>4, <2>5, <2>6 DEF SeenInv, Truth
<1>2. QED
  BY <1>1, Inductive, PTL

=============================================================================
