------------------------------ MODULE Interface ------------------------------
(***************************************************************************)
(* The interface layer (interface/interface.c with queue.c and the         *)
(* counting locks of cond_lock.c): clients make requests, one thread       *)
(* (p_main) hands them to the algorithm, and the algorithm ends them or    *)
(* puts them back on the retry queue.                                      *)
(*                                                                         *)
(* One step is one critical section: of a lock cl_lock, of a queue, of the *)
(* tree qmanager.  A counting lock is its counter (module CondLock shows   *)
(* that cl_grap and cl_release behave like one).  A value is the id of the *)
(* request that carries it.                                                *)
(***************************************************************************)
EXTENDS Integers, Sequences, FiniteSets

CONSTANTS
  Clients,     \* threads that make requests
  Keys,
  Types,       \* request types in use: "set", "get", "del"
  NREQ,        \* bound: requests made in a behaviour, the bench's m_num
  QDEPTH,      \* requests in flight
  QSIZE,       \* capacity of a queue
  MAXRETRY,    \* bound: times the algorithm puts one request back
  STOPS        \* does algo->write ever ask to stop writes (lsm_set does)

ASSUME InterfaceAssumption ==
  /\ NREQ \in Nat /\ QDEPTH \in Nat \ {0} /\ QSIZE \in Nat /\ MAXRETRY \in Nat
  /\ QDEPTH <= QSIZE
  /\ IsFiniteSet(Clients)
  /\ Types \subseteq {"set", "get", "del"}
  /\ STOPS \in BOOLEAN

VARIABLES
  flying,      \* cl_lock flying: requests in flight
  inf_cond,    \* cl_lock inf_cond: what p_main may still take
  req_q, req_rq, retry_q,
  qmanager,    \* the SETs that a write of the same key merges into
  write_stop,
  cl,          \* of each client: where it is in inf_make_req, and its request
  pm,          \* the same of p_main
  inalgo,      \* requests the algorithm has been given and has not ended
  retrying,    \* requests in inf_assign_try, queued but not announced
  made,        \* number of requests made
  done,        \* ids of the requests that ended
  stopflag,
  acc, app,    \* of each key: SETs queued, SETs written to the algorithm
  store, last  \* of each key: the value the algorithm has, the value last accepted

queues  == <<req_q, req_rq, retry_q>>
history == <<acc, app, store, last>>
vars == <<flying, inf_cond, queues, qmanager, write_stop, cl, pm, inalgo, retrying,
          made, done, stopflag, history>>

Request ==
  [id : 1 .. NREQ, type : {"set", "get", "del"}, key : Keys,
   tries : 0 .. MAXRETRY, seen : 0 .. NREQ]

NoReq == [id |-> 0]

Idle == [pc |-> "idle", req |-> NoReq]

Init ==
  /\ flying = 0 /\ inf_cond = 0
  /\ req_q = << >> /\ req_rq = << >> /\ retry_q = << >>
  /\ qmanager = {}
  /\ write_stop = FALSE
  /\ cl = [c \in Clients |-> Idle]
  /\ pm = [pc |-> "grap", req |-> NoReq]
  /\ inalgo = {} /\ retrying = {}
  /\ made = 0 /\ done = {}
  /\ stopflag = FALSE
  /\ acc = [k \in Keys |-> 0] /\ app = [k \in Keys |-> 0]
  /\ store = [k \in Keys |-> 0] /\ last = [k \in Keys |-> 0]

Queued(k) == \E r \in qmanager : r.key = k

-----------------------------------------------------------------------------
(* Clients: inf_make_req and assign_req.                                   *)

\* Mutant: the request is made without cl_grap(flying).
MakeReqNoGrap(c) ==
  /\ cl[c].pc = "idle" /\ made < NREQ
  /\ flying' = flying + 1
  /\ made' = made + 1
  /\ \E t \in Types, k \in Keys :
       cl' = [cl EXCEPT ![c] =
                [pc |-> "assign",
                 req |-> [id |-> made + 1, type |-> t, key |-> k, tries |-> 0, seen |-> 0]]]
  /\ UNCHANGED <<inf_cond, queues, qmanager, write_stop, pm, inalgo, retrying, done,
                 stopflag, history>>

\* cl_grap(flying) waits while QDEPTH requests are in flight.
MakeReq(c) ==
  /\ cl[c].pc = "idle" /\ made < NREQ
  /\ flying # QDEPTH
  /\ flying' = flying + 1
  /\ made' = made + 1
  /\ \E t \in Types, k \in Keys :
       cl' = [cl EXCEPT ![c] =
                [pc |-> "assign",
                 req |-> [id |-> made + 1, type |-> t, key |-> k, tries |-> 0, seen |-> 0]]]
  /\ UNCHANGED <<inf_cond, queues, qmanager, write_stop, pm, inalgo, retrying, done,
                 stopflag, history>>

\* A SET merges into a queued SET of its key, whose value stays as it is.
WriteChecking(c) ==
  LET r == cl[c].req IN
  /\ cl[c].pc = "assign" /\ r.type = "set"
  /\ last' = [last EXCEPT ![r.key] = r.id]
  /\ IF Queued(r.key)
     THEN /\ cl' = [cl EXCEPT ![c].pc = "end"]
          /\ UNCHANGED <<qmanager, acc>>
     ELSE /\ cl' = [cl EXCEPT ![c].pc = "enqueue"]
          /\ qmanager' = qmanager \cup {r}
          /\ acc' = [acc EXCEPT ![r.key] = @ + 1]
  /\ UNCHANGED <<flying, inf_cond, queues, write_stop, pm, inalgo, retrying, made, done,
                 stopflag, app, store>>

\* Mutant: a GET is queued without a look at the queued SETs.
ReadCheckingSkipped(c) ==
  LET r == cl[c].req IN
  /\ cl[c].pc = "assign" /\ r.type # "set"
  /\ cl' = [cl EXCEPT ![c] = [pc |-> "enqueue", req |-> [r EXCEPT !.seen = acc[r.key]]]]
  /\ UNCHANGED <<flying, inf_cond, queues, qmanager, write_stop, pm, inalgo, retrying,
                 made, done, stopflag, history>>

\* A GET of a key with a queued SET ends at once; other types are queued unseen.
ReadChecking(c) ==
  LET r == cl[c].req IN
  /\ cl[c].pc = "assign" /\ r.type # "set"
  /\ cl' = [cl EXCEPT ![c] =
              IF r.type = "get" /\ Queued(r.key)
              THEN [pc |-> "end", req |-> r]
              ELSE [pc |-> "enqueue", req |-> [r EXCEPT !.seen = acc[r.key]]]]
  /\ last' = IF r.type = "del" THEN [last EXCEPT ![r.key] = 0] ELSE last
  /\ UNCHANGED <<flying, inf_cond, queues, qmanager, write_stop, pm, inalgo, retrying,
                 made, done, stopflag, acc, app, store>>

\* q_enqueue; on a full queue assign_req starts over.
Enqueue(c) ==
  LET r == cl[c].req
      full == Len(IF r.type = "set" THEN req_q ELSE req_rq) = QSIZE
  IN
  /\ cl[c].pc = "enqueue"
  /\ cl' = [cl EXCEPT ![c].pc = IF full THEN "assign" ELSE "release"]
  /\ req_q'  = IF r.type = "set" /\ ~full THEN Append(req_q, r) ELSE req_q
  /\ req_rq' = IF r.type # "set" /\ ~full THEN Append(req_rq, r) ELSE req_rq
  /\ UNCHANGED <<flying, inf_cond, retry_q, qmanager, write_stop, pm, inalgo, retrying,
                 made, done, stopflag, history>>

\* Mutant: assign_req returns without cl_release(inf_cond).
AnnounceForgets(c) ==
  /\ cl[c].pc = "release"
  /\ cl' = [cl EXCEPT ![c] = Idle]
  /\ UNCHANGED <<flying, inf_cond, queues, qmanager, write_stop, pm, inalgo, retrying,
                 made, done, stopflag, history>>

\* cl_release(inf_cond) at the end of assign_req.
Announce(c) ==
  /\ cl[c].pc = "release"
  /\ inf_cond' = inf_cond + 1
  /\ cl' = [cl EXCEPT ![c] = Idle]
  /\ UNCHANGED <<flying, queues, qmanager, write_stop, pm, inalgo, retrying, made, done,
                 stopflag, history>>

\* inf_end_req: the bench counts the request, flying is released.
EndReq(r) == done' = done \cup {r.id} /\ flying' = flying - 1

\* A request that assign_req does not queue ends in the thread that made it.
EndAtOnce(c) ==
  /\ cl[c].pc = "end"
  /\ EndReq(cl[c].req)
  /\ cl' = [cl EXCEPT ![c] = Idle]
  /\ UNCHANGED <<inf_cond, queues, qmanager, write_stop, pm, inalgo, retrying, made,
                 stopflag, history>>

ClientStep(c) ==
  \/ MakeReq(c) \/ WriteChecking(c) \/ ReadChecking(c) \/ Enqueue(c)
  \/ Announce(c) \/ EndAtOnce(c)

-----------------------------------------------------------------------------
(* p_main and get_next_request.  write_stop, a plain int shared with the   *)
(* bench's thread, is read and cleared on the way.                         *)

PGrap ==
  /\ pm.pc = "grap" /\ inf_cond > 0
  /\ inf_cond' = inf_cond - 1
  /\ pm' = [pm EXCEPT !.pc = IF stopflag THEN "exit" ELSE "retry"]
  /\ UNCHANGED <<flying, queues, qmanager, write_stop, cl, inalgo, retrying, made, done,
                 stopflag, history>>

\* Mutant: a full req_q does not clear write_stop.
PRetryKeepsStop ==
  /\ pm.pc = "retry"
  /\ IF retry_q # << >>
     THEN pm' = [pc |-> "call", req |-> Head(retry_q)] /\ retry_q' = Tail(retry_q)
     ELSE pm' = [pm EXCEPT !.pc = "read"] /\ UNCHANGED retry_q
  /\ UNCHANGED <<flying, inf_cond, req_q, req_rq, qmanager, write_stop, cl, inalgo,
                 retrying, made, done, stopflag, history>>

\* write_stop ends when every request in flight is a queued SET.
PRetry ==
  /\ pm.pc = "retry"
  /\ write_stop' = (write_stop /\ Len(req_q) # QDEPTH)
  /\ IF retry_q # << >>
     THEN pm' = [pc |-> "call", req |-> Head(retry_q)] /\ retry_q' = Tail(retry_q)
     ELSE pm' = [pm EXCEPT !.pc = "read"] /\ UNCHANGED retry_q
  /\ UNCHANGED <<flying, inf_cond, req_q, req_rq, qmanager, cl, inalgo, retrying, made,
                 done, stopflag, history>>

PRead ==
  /\ pm.pc = "read"
  /\ IF req_rq # << >>
     THEN pm' = [pc |-> "call", req |-> Head(req_rq)] /\ req_rq' = Tail(req_rq)
     ELSE pm' = [pm EXCEPT !.pc = "write"] /\ UNCHANGED req_rq
  /\ UNCHANGED <<flying, inf_cond, req_q, retry_q, qmanager, write_stop, cl, inalgo,
                 retrying, made, done, stopflag, history>>

\* Mutant: p_main drops its turn when it finds nothing it may send.
PWriteDropsTurn ==
  /\ pm.pc = "write"
  /\ IF retry_q = << >> /\ ~write_stop /\ req_q # << >>
     THEN pm' = [pc |-> "delete", req |-> Head(req_q)] /\ req_q' = Tail(req_q)
     ELSE pm' = [pm EXCEPT !.pc = "grap"] /\ UNCHANGED req_q
  /\ UNCHANGED <<flying, inf_cond, req_rq, retry_q, qmanager, write_stop, cl, inalgo,
                 retrying, made, done, stopflag, history>>

PWrite ==
  /\ pm.pc = "write"
  /\ IF retry_q = << >> /\ ~write_stop /\ req_q # << >>
     THEN pm' = [pc |-> "delete", req |-> Head(req_q)] /\ req_q' = Tail(req_q)
     ELSE pm' = [pm EXCEPT !.pc = "giveback"] /\ UNCHANGED req_q
  /\ UNCHANGED <<flying, inf_cond, req_rq, retry_q, qmanager, write_stop, cl, inalgo,
                 retrying, made, done, stopflag, history>>

\* Nothing to send: cl_release(inf_cond) and around again.
PGiveBack ==
  /\ pm.pc = "giveback"
  /\ inf_cond' = inf_cond + 1
  /\ pm' = [pm EXCEPT !.pc = "grap"]
  /\ UNCHANGED <<flying, queues, qmanager, write_stop, cl, inalgo, retrying, made, done,
                 stopflag, history>>

\* Mutant: the entry of the dequeued SET stays in qmanager.
PDeleteKeeps ==
  /\ pm.pc = "delete"
  /\ pm' = [pm EXCEPT !.pc = "call"]
  /\ UNCHANGED <<flying, inf_cond, queues, qmanager, write_stop, cl, inalgo, retrying,
                 made, done, stopflag, history>>

\* qmanager_delete finds the entry by its key, and aborts when there is none.
PDelete ==
  /\ pm.pc = "delete"
  /\ qmanager' = {r \in qmanager : r.key # pm.req.key}
  /\ pm' = [pm EXCEPT !.pc = IF Queued(pm.req.key) THEN "call" ELSE "abort"]
  /\ UNCHANGED <<flying, inf_cond, queues, write_stop, cl, inalgo, retrying, made, done,
                 stopflag, history>>

\* algo->read, write or remove.  A write or a remove takes effect in the call.
PCall ==
  LET r == pm.req IN
  /\ pm.pc = "call"
  /\ inalgo' = inalgo \cup {r}
  /\ store' = CASE r.type = "set" -> [store EXCEPT ![r.key] = r.id]
                [] r.type = "del" -> [store EXCEPT ![r.key] = 0]
                [] OTHER -> store
  /\ app' = IF r.type = "set" THEN [app EXCEPT ![r.key] = @ + 1] ELSE app
  /\ pm' = IF r.type = "set" THEN [pm EXCEPT !.pc = "return"]
                              ELSE [pc |-> "grap", req |-> NoReq]
  /\ UNCHANGED <<flying, inf_cond, queues, qmanager, write_stop, cl, retrying, made, done,
                 stopflag, acc, last>>

\* write_stop = algo->write(req).
PReturn ==
  /\ pm.pc = "return"
  /\ write_stop' \in IF STOPS THEN BOOLEAN ELSE {FALSE}
  /\ pm' = [pc |-> "grap", req |-> NoReq]
  /\ UNCHANGED <<flying, inf_cond, queues, qmanager, cl, inalgo, retrying, made, done,
                 stopflag, history>>

PMain ==
  \/ PGrap \/ PRetry \/ PRead \/ PWrite \/ PGiveBack \/ PDelete \/ PCall \/ PReturn

-----------------------------------------------------------------------------
(* The algorithm, in p_main's thread or the lower's: it ends a request, or *)
(* puts a read back (inf_assign_try), a queue step and then a lock step.   *)

AlgoEnd(r) ==
  /\ EndReq(r)
  /\ inalgo' = inalgo \ {r}
  /\ UNCHANGED <<inf_cond, queues, qmanager, write_stop, cl, pm, retrying, made,
                 stopflag, history>>

\* Mutant: the request is put back and still worked on.
AlgoRetryKeeps(r) ==
  LET again == [r EXCEPT !.tries = @ + 1] IN
  /\ r.type = "get" /\ r.tries < MAXRETRY
  /\ retry_q' = Append(retry_q, again)
  /\ retrying' = retrying \cup {again}
  /\ UNCHANGED <<flying, inf_cond, req_q, req_rq, qmanager, write_stop, cl, pm, inalgo, made,
                 done, stopflag, history>>

AlgoRetry(r) ==
  LET again == [r EXCEPT !.tries = @ + 1] IN
  /\ r.type = "get" /\ r.tries < MAXRETRY
  /\ inalgo' = inalgo \ {r}
  /\ retry_q' = Append(retry_q, again)
  /\ retrying' = retrying \cup {again}
  /\ UNCHANGED <<flying, inf_cond, req_q, req_rq, qmanager, write_stop, cl, pm, made, done,
                 stopflag, history>>

AlgoAnnounce(r) ==
  /\ inf_cond' = inf_cond + 1
  /\ retrying' = retrying \ {r}
  /\ UNCHANGED <<flying, queues, qmanager, write_stop, cl, pm, inalgo, made, done,
                 stopflag, history>>

-----------------------------------------------------------------------------
(* The bench's thread: get_bench clears write_stop while it waits for the  *)
(* last requests, and inf_free stops p_main once all have ended.  main     *)
(* sleeps before inf_free, so no request is on its way by then.            *)

AllMade == made = NREQ /\ \A c \in Clients : cl[c].pc = "idle"

Drain ==
  /\ AllMade /\ Cardinality(done) # NREQ
  /\ write_stop
  /\ write_stop' = FALSE
  /\ UNCHANGED <<flying, inf_cond, queues, qmanager, cl, pm, inalgo, retrying, made, done,
                 stopflag, history>>

Stop ==
  /\ AllMade /\ Cardinality(done) = NREQ /\ retrying = {}
  /\ ~stopflag
  /\ stopflag' = TRUE
  /\ UNCHANGED <<flying, inf_cond, queues, qmanager, write_stop, cl, pm, inalgo, retrying,
                 made, done, history>>

\* Mutant: inf_free waits for p_main without waking it up.
WakeToStopForgets ==
  /\ stopflag /\ pm.pc # "exit" /\ inf_cond = 0
  /\ UNCHANGED vars

\* inf_free releases inf_cond until p_main is joined; one release at a time here.
WakeToStop ==
  /\ stopflag /\ pm.pc # "exit" /\ inf_cond = 0
  /\ inf_cond' = inf_cond + 1
  /\ UNCHANGED <<flying, queues, qmanager, write_stop, cl, pm, inalgo, retrying, made, done,
                 stopflag, history>>

Finished == pm.pc = "exit" /\ UNCHANGED vars

Next ==
  \/ \E c \in Clients : ClientStep(c)
  \/ PMain
  \/ \E r \in inalgo : AlgoEnd(r) \/ AlgoRetry(r)
  \/ \E r \in retrying : AlgoAnnounce(r)
  \/ Drain \/ Stop \/ WakeToStop
  \/ Finished

Spec == Init /\ [][Next]_vars

\* Threads that can run do: the scheduler starves no client, neither p_main nor the
\* bench's thread, and the algorithm ends or puts back every request it is given.
Fairness ==
  /\ \A c \in Clients : WF_vars(ClientStep(c))
  /\ WF_vars(PMain)
  /\ \A i \in 1 .. NREQ : WF_vars(\E r \in inalgo : r.id = i /\ (AlgoEnd(r) \/ AlgoRetry(r)))
  /\ WF_vars(\E r \in retrying : AlgoAnnounce(r))
  /\ WF_vars(Drain) /\ WF_vars(Stop) /\ WF_vars(WakeToStop)

FairSpec == Spec /\ Fairness

-----------------------------------------------------------------------------
(* Properties.                                                             *)

Elems(q) == {q[i] : i \in DOMAIN q}

\* p_main has a turn of inf_cond that it has not yet turned into a request.
HoldsTurn == pm.pc \in {"retry", "read", "write", "giveback"}

Announcing == {c \in Clients : cl[c].pc = "release"}

\* Every queued request has exactly one wake-up: in inf_cond, in p_main's hands, or
\* on its way in a thread between its q_enqueue and its cl_release(inf_cond).  p_main,
\* which takes requests of other threads' wake-ups, neither loses nor invents one.
WakeupsMatchWork ==
  ~stopflag =>
    inf_cond + (IF HoldsTurn THEN 1 ELSE 0) + Cardinality(Announcing) + Cardinality(retrying)
      = Len(req_q) + Len(req_rq) + Len(retry_q)

\* qmanager holds the SETs on their way to or in req_q, one per key, although it is
\* updated under another lock than the queue: qmanager_delete never aborts, and a
\* write merges only into one that is still to be sent.
QManagerExact ==
  /\ qmanager = Elems(req_q)
                \cup {cl[c].req : c \in {d \in Clients : cl[d].pc = "enqueue"
                                                         /\ cl[d].req.type = "set"}}
                \cup {p \in {pm.req} : pm.pc = "delete"}
  /\ \A r, s \in qmanager : r.key = s.key => r = s
  /\ pm.pc # "abort"

\* The places request i is in: with its maker, in a queue, with p_main, in the algorithm.
Places(i) ==
  Cardinality({c \in Clients : cl[c].req.id = i /\ cl[c].pc # "release"})
  + Cardinality({j \in DOMAIN req_q : req_q[j].id = i})
  + Cardinality({j \in DOMAIN req_rq : req_rq[j].id = i})
  + Cardinality({j \in DOMAIN retry_q : retry_q[j].id = i})
  + (IF pm.req.id = i /\ pm.pc \in {"delete", "call"} THEN 1 ELSE 0)
  + Cardinality({r \in inalgo : r.id = i})

\* A request that has been made and has not ended is in exactly one place, one that
\* has ended in none, and flying counts the former, QDEPTH at most: inf_end_req frees
\* the request.
EachRequestOnce ==
  /\ \A i \in 1 .. made : Places(i) = IF i \in done THEN 0 ELSE 1
  /\ flying = made - Cardinality(done) /\ flying <= QDEPTH

\* q_enqueue of assign_req finds room.  A SET that had to start over would find its
\* own entry in qmanager, and end without being written.
RoomInQueues ==
  \A c \in Clients :
    cl[c].pc = "enqueue" => Len(IF cl[c].req.type = "set" THEN req_q ELSE req_rq) < QSIZE

\* Reads are sent before queued writes, and retried, but a GET never reaches the
\* algorithm before a SET of its key that was queued when the GET was made.
ReadsSeeQueuedWrites ==
  pm.pc = "call" /\ pm.req.type = "get" => app[pm.req.key] >= pm.req.seen

\* Every request that is made ends: no wake-up is lost, and write_stop does not hold
\* queued SETs back forever while the client waits for flying or for the bench's end.
EveryRequestEnds == \A i \in 1 .. NREQ : (made >= i) ~> (i \in done)

\* inf_free gets p_main, which waits on inf_cond, to return.
StopReachesPMain == stopflag ~> (pm.pc = "exit")

\* When all requests have ended, the algorithm has the value of the last SET of each
\* key.  qmanager_write_checking says "copy value" where a SET merges into another.
LastWriteWins ==
  AllMade /\ Cardinality(done) = NREQ => \A k \in Keys : store[k] = last[k]

=============================================================================
