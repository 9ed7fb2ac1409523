---------------------------- MODULE MCInterface -----------------------------
(***************************************************************************)
(* Module Interface for TLC.  Clients and keys are interchangeable, so it  *)
(* is enough to follow the behaviours whose first request is made by one   *)
(* given client for one given key; every other behaviour is one of these   *)
(* with clients or keys renamed.  (TLC's own symmetry reduction is not     *)
(* sound for the liveness properties.)                                     *)
(***************************************************************************)
EXTENDS Interface

FirstClient == CHOOSE c \in Clients : TRUE
FirstKey == CHOOSE k \in Keys : TRUE

FirstRequest ==
  made = 0 /\ made' = 1 => /\ cl'[FirstClient].pc # "idle"
                           /\ cl'[FirstClient].req.key = FirstKey

=============================================================================
