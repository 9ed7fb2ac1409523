--------------------------- MODULE CondLock_proofs ---------------------------
(***************************************************************************)
(* The counting lock for any set of threads, any limit and both kinds of   *)
(* lock: types, no lost wake-up, and the refinement of module CountingLock *)
(* (its safety part; fairness is left to the model checker).               *)
(***************************************************************************)
EXTENDS CondLock, TLAPS

IInv == TypeOK /\ NoLostWakeup

\* The lock of cl_init: nobody waits, the counter is 0.
LEMMA InitIInv == Init => IInv
BY CondLockAssumption DEF Init, IInv, TypeOK, NoLostWakeup

\* Every critical section of cl_grap and cl_release keeps the counter in range and
\* leaves no thread in the wait set of an available lock.
LEMMA NextIInv == IInv /\ [Next]_vars => IInv'
<1> SUFFICES ASSUME TypeOK, NoLostWakeup, [Next]_vars
             PROVE  TypeOK' /\ NoLostWakeup'
  BY DEF IInv
<1> USE CondLockAssumption DEF ZERO
<1>1. ASSUME NEW t \in Threads, Call(t) PROVE TypeOK' /\ NoLostWakeup'
  BY <1>1 DEF Call, TypeOK, NoLostWakeup, AtLimit
<1>2. ASSUME NEW t \in Threads, Grap(t) PROVE TypeOK' /\ NoLostWakeup'
  <2>1. CASE AtLimit
    <3>1. kind' = kind /\ now' = now /\ pc' = [pc EXCEPT ![t] = "waiting"]
      BY <1>2, <2>1 DEF Grap
    <3>2. AtLimit'
      BY <3>1, <2>1 DEF AtLimit
    <3> QED
      BY <3>1, <3>2 DEF TypeOK, NoLostWakeup
  <2>2. CASE ~AtLimit
    <3>1. kind' = kind /\ now' = (IF ZERO THEN now - 1 ELSE now + 1) /\ pc' = [pc EXCEPT ![t] = "out"]
      BY <1>2, <2>2 DEF Grap
    <3>2. TypeOK'
      BY <3>1, <2>2 DEF TypeOK, AtLimit
    <3>3. \A u \in Threads : pc[u] # "waiting"
      BY <2>2 DEF NoLostWakeup
    <3> QED
      BY <3>1, <3>2, <3>3 DEF TypeOK, NoLostWakeup
  <2> QED
    BY <2>1, <2>2
<1>3. ASSUME NEW t \in Threads, SpuriousWakeup(t) PROVE TypeOK' /\ NoLostWakeup'
  BY <1>3 DEF SpuriousWakeup, TypeOK, NoLostWakeup, AtLimit
<1>4. CASE Release
  <2>1. TypeOK'
    BY <1>4 DEF Release, MayRelease, TypeOK
  <2>2. \A u \in Threads : pc'[u] # "waiting"
    BY <1>4 DEF Release, TypeOK, NoLostWakeup
  <2> QED
    BY <2>1, <2>2 DEF NoLostWakeup
<1>5. CASE UNCHANGED vars
  BY <1>5 DEF vars, TypeOK, NoLostWakeup, AtLimit
<1> QED
  BY <1>1, <1>2, <1>3, <1>4, <1>5 DEF Next

\* The counter of a cl_lock stays between 0 and its limit.
THEOREM CounterInRange == Spec => []TypeOK
<1>1. IInv => TypeOK
  BY DEF IInv
<1> QED
  BY <1>1, InitIInv, NextIInv, PTL DEF Spec

\* No thread sleeps in cl_grap while the lock is available, for any number of threads.
THEOREM NoWakeupLost == Spec => []NoLostWakeup
<1>1. IInv => NoLostWakeup
  BY DEF IInv
<1> QED
  BY <1>1, InitIInv, NextIInv, PTL DEF Spec

\* A critical section of cl_grap or cl_release is a step of the counting lock or none.
LEMMA StepRefines == TypeOK /\ [Next]_vars => [Abs!AbsNext]_(Abs!absVars)
<1> DEFINE want == {t \in Threads : pc[t] # "out"}
<1> SUFFICES ASSUME TypeOK, [Next]_vars
             PROVE  Abs!AbsNext \/ (now' = now /\ want' = want /\ kind' = kind)
  BY DEF Abs!absVars
<1> USE CondLockAssumption DEF ZERO, Abs!ZERO
<1>1. ASSUME NEW t \in Threads, Call(t) PROVE Abs!AbsCall(t)
  <2>1. t \notin want /\ want' = want \cup {t} /\ now' = now /\ kind' = kind
    BY <1>1 DEF Call, TypeOK
  <2> QED
    BY <2>1 DEF Abs!AbsCall
<1>2. ASSUME NEW t \in Threads, Grap(t)
      PROVE  Abs!AbsTake(t) \/ (now' = now /\ want' = want /\ kind' = kind)
  <2>1. CASE AtLimit
    BY <1>2, <2>1 DEF Grap, TypeOK
  <2>2. CASE ~AtLimit
    <3>1. t \in want /\ want' = want \ {t}
      BY <1>2, <2>2 DEF Grap, TypeOK
    <3>2. Abs!Available
      BY <2>2 DEF Abs!Available, AtLimit, TypeOK
    <3>3. kind' = kind /\ now' = IF ZERO THEN now - 1 ELSE now + 1
      BY <1>2, <2>2 DEF Grap
    <3> QED
      BY <3>1, <3>2, <3>3 DEF Abs!AbsTake
  <2> QED
    BY <2>1, <2>2
<1>3. ASSUME NEW t \in Threads, SpuriousWakeup(t) PROVE now' = now /\ want' = want /\ kind' = kind
  BY <1>3 DEF SpuriousWakeup, TypeOK
<1>4. CASE Release
  <2>1. want' = want
    BY <1>4 DEF Release, TypeOK
  <2>2. kind' = kind /\ now' = IF ZERO THEN now + 1 ELSE now - 1
    BY <1>4 DEF Release
  <2> QED
    BY <2>1, <2>2 DEF Abs!AbsRelease, Abs!AbsNext
<1>5. CASE UNCHANGED vars
  BY <1>5 DEF vars
<1> QED
  BY <1>1, <1>2, <1>3, <1>4, <1>5 DEF Next, Abs!AbsNext

\* cl_grap and cl_release, with their mutex, wait set and broadcasts, do what the
\* counting lock that the interface layer relies on does.
THEOREM RefinesCountingLock == Spec => Abs!AbsSafety
<1>1. Init => Abs!AbsInit
  BY DEF Init, Abs!AbsInit
<1> QED
  BY <1>1, StepRefines, CounterInRange, PTL DEF Spec, Abs!AbsSafety

=============================================================================
