---------------------------- MODULE CountingLock ----------------------------
(***************************************************************************)
(* What cl_grap and cl_release promise their callers, and what module      *)
(* Interface takes them for: a counter that a thread may change once it    *)
(* calls cl_grap and the counter is not at its limit.  A zero_lock counts  *)
(* what there is to take (inf_cond), any other lock what has been taken,   *)
(* up to CNT (flying).                                                     *)
(***************************************************************************)
EXTENDS Integers

CONSTANTS Threads, CNT

VARIABLES now, want,  \* the counter, and the threads inside cl_grap
          kind        \* "zero" (counts what there is to take) or "count"

absVars == <<now, want, kind>>

ZERO == kind = "zero"

Available == IF ZERO THEN now > 0 ELSE now < CNT

AbsInit == now = 0 /\ want = {} /\ kind \in {"zero", "count"}

AbsCall(t) == t \notin want /\ want' = want \cup {t} /\ UNCHANGED <<now, kind>>

AbsTake(t) ==
  /\ t \in want /\ Available
  /\ want' = want \ {t}
  /\ now' = IF ZERO THEN now - 1 ELSE now + 1
  /\ UNCHANGED kind

AbsRelease ==
  /\ now' = IF ZERO THEN now + 1 ELSE now - 1
  /\ UNCHANGED <<want, kind>>

AbsNext == AbsRelease \/ \E t \in Threads : AbsCall(t) \/ AbsTake(t)

AbsSafety == AbsInit /\ [][AbsNext]_absVars

\* When the lock stays available, some thread inside cl_grap gets it.
AbsSpec == AbsSafety /\ WF_absVars(\E t \in Threads : AbsTake(t))

=============================================================================
