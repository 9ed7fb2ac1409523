------------------------------ MODULE CondLock ------------------------------
(***************************************************************************)
(* The counting lock of include/utils/cond_lock.c, built on a mutex and a  *)
(* condition variable.  A step is what a thread does while it has the      *)
(* mutex; pthread_cond_wait gives the mutex up and goes on, in a step of   *)
(* its own, after a broadcast or for no reason at all.                     *)
(***************************************************************************)
EXTENDS Integers

CONSTANTS
  Threads,
  CNT,     \* cl->cnt
  MAXNOW   \* bound: what producers add to a zero_lock ahead of its consumers

ASSUME CondLockAssumption ==
  CNT \in Nat \ {0} /\ MAXNOW \in Nat \ {0}

VARIABLES kind, \* "zero" when cl->zero_lock is set, else "count"
          now,  \* cl->now
          pc    \* of each thread: "out", "called", "waiting" (in the wait set), "woken"

vars == <<kind, now, pc>>

ZERO == kind = "zero"

\* The loop condition of cl_grap, and the case in which cl_release broadcasts.
AtLimit == IF ZERO THEN now = 0 ELSE now = CNT

\* cl_init is called with and without the zero_lock flag.
Init ==
  /\ kind \in {"zero", "count"}
  /\ now = 0 /\ pc = [t \in Threads |-> "out"]

Call(t) ==
  /\ pc[t] = "out"
  /\ pc' = [pc EXCEPT ![t] = "called"]
  /\ UNCHANGED <<kind, now>>

\* Mutant: the condition is not looked at again after the wait (an if for the while).
GrapIf(t) ==
  /\ pc[t] \in {"called", "woken"}
  /\ \/ /\ AtLimit /\ pc[t] = "called"
        /\ pc' = [pc EXCEPT ![t] = "waiting"]
        /\ UNCHANGED now
     \/ /\ ~AtLimit \/ pc[t] = "woken"
        /\ pc' = [pc EXCEPT ![t] = "out"]
        /\ now' = IF ZERO THEN now - 1 ELSE now + 1
  /\ UNCHANGED kind

\* cl_grap with the mutex: wait, or take and return.
Grap(t) ==
  /\ pc[t] \in {"called", "woken"}
  /\ \/ /\ AtLimit
        /\ pc' = [pc EXCEPT ![t] = "waiting"]
        /\ UNCHANGED now
     \/ /\ ~AtLimit
        /\ pc' = [pc EXCEPT ![t] = "out"]
        /\ now' = IF ZERO THEN now - 1 ELSE now + 1
  /\ UNCHANGED kind

SpuriousWakeup(t) ==
  /\ pc[t] = "waiting"
  /\ pc' = [pc EXCEPT ![t] = "woken"]
  /\ UNCHANGED <<kind, now>>

\* The callers' discipline: flying is released once per request that took it; inf_cond
\* is released by producers, up to the bound.
MayRelease == IF ZERO THEN now < MAXNOW ELSE now > 0

\* Mutant: cl_release wakes up one waiter (pthread_cond_signal).
ReleaseSignal ==
  /\ MayRelease
  /\ now' = IF ZERO THEN now + 1 ELSE now - 1
  /\ UNCHANGED kind
  /\ IF AtLimit /\ \E t \in Threads : pc[t] = "waiting"
     THEN \E t \in Threads : pc[t] = "waiting" /\ pc' = [pc EXCEPT ![t] = "woken"]
     ELSE UNCHANGED pc

\* Mutant: cl_release of a zero_lock broadcasts on the wrong transition.
ReleaseLate ==
  /\ MayRelease
  /\ now' = IF ZERO THEN now + 1 ELSE now - 1
  /\ UNCHANGED kind
  /\ pc' = [t \in Threads |-> IF ~AtLimit /\ pc[t] = "waiting" THEN "woken" ELSE pc[t]]

\* cl_release: broadcast when the lock was at its limit, and only then.
Release ==
  /\ MayRelease
  /\ now' = IF ZERO THEN now + 1 ELSE now - 1
  /\ UNCHANGED kind
  /\ pc' = [t \in Threads |-> IF AtLimit /\ pc[t] = "waiting" THEN "woken" ELSE pc[t]]

Next ==
  \/ \E t \in Threads : Call(t) \/ Grap(t) \/ SpuriousWakeup(t)
  \/ Release

\* A thread that has been woken up, or has the mutex to get, gets it; nothing is
\* assumed of releases and of spurious wake-ups.
Fairness == \A t \in Threads : WF_vars(Grap(t))

Spec == Init /\ [][Next]_vars /\ Fairness

-----------------------------------------------------------------------------

\* The counter stays between 0 and its limit, so the tests for equality with the
\* limit in cl_grap and cl_release are enough.
TypeOK ==
  /\ kind \in {"zero", "count"}
  /\ now \in 0 .. (IF ZERO THEN MAXNOW ELSE CNT)
  /\ pc \in [Threads -> {"out", "called", "waiting", "woken"}]

\* No thread sleeps in cl_grap while the lock is available: one broadcast, on the
\* transition away from the limit, is enough however many releases follow it.
NoLostWakeup == (\E t \in Threads : pc[t] = "waiting") => AtLimit

Abs == INSTANCE CountingLock WITH want <- {t \in Threads : pc[t] # "out"}

\* cl_grap and cl_release implement the counting lock, its liveness included.
IsCountingLock == Abs!AbsSpec

=============================================================================
