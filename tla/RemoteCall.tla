------------------------------ MODULE RemoteCall ------------------------------
(***************************************************************************)
(* What Session.Call promises, without streams, slots or queues: the       *)
(* application at the other end is given a request at most once, and what  *)
(* the caller is told agrees with it.  "local" and "refused" say that the  *)
(* request was not and never will be given to the application; "ok" that   *)
(* it was; "failed" (a status sent by the peer) and "unknown"              *)
(* (OutcomeUnknown) say nothing.                                           *)
(***************************************************************************)
CONSTANT Request

VARIABLES ran, told

Outcome == {"local", "refused", "ok", "failed", "unknown"}

Init ==
    /\ ran = [r \in Request |-> FALSE]
    /\ told = [r \in Request |-> "none"]

Run(r) ==
    /\ ~ran[r] /\ told[r] \notin {"local", "refused", "ok"}
    /\ ran' = [ran EXCEPT ![r] = TRUE]
    /\ UNCHANGED told

Tell(r, outcome) ==
    /\ told[r] = "none"
    /\ outcome \in {"local", "refused"} => ~ran[r]
    /\ outcome = "ok" => ran[r]
    /\ told' = [told EXCEPT ![r] = outcome]
    /\ UNCHANGED ran

Next == \E r \in Request : Run(r) \/ (\E outcome \in Outcome : Tell(r, outcome))

Spec == Init /\ [][Next]_<<ran, told>>
===============================================================================
