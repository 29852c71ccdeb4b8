-------------------------------- MODULE Ledgers --------------------------------
(***************************************************************************)
(* The byte ledgers of one direction of a session: ordinary messages and   *)
(* responses are charged to budgets of their own (directionalBudgetLimits) *)
(* and both to the endpoint's application budget.  A charge takes two      *)
(* budgets one after the other, and gives the first back when the second   *)
(* refuses; sessions share the application budget.                         *)
(***************************************************************************)
EXTENDS Integers, FiniteSets, FiniteSetsExt

CONSTANTS
    Call,                   \* calls that charge, ordinary or for a response
    Replies,                \* those that are for a response
    Size,                   \* the bytes each charges, a function
    QueueBytes,             \* limits.QueueBytes
    Response,               \* limits.MessageBytes + 32, the largest charge
    MaxApp,                 \* GlobalApplicationBytes
    MaxOther                \* bound on the charges of other sessions

LedgersAssumption ==
    /\ IsFiniteSet(Call) /\ Replies \subseteq Call
    /\ Size \in [Call -> Nat] /\ \A c \in Call : Size[c] <= Response
    /\ QueueBytes \in Nat /\ Response \in Nat /\ MaxApp \in Nat /\ MaxOther \in Nat

VARIABLES
    ordinary, reply, app,   \* used bytes of the three budgets
    at,                     \* where each call is
    used,                   \* the session budget it was charged to
    other                   \* bytes charged by other sessions

vars == <<ordinary, reply, app, at, used, other>>

\* Fault: the framing of a response is not part of the reserve.
ReplyLimitUnframed == IF QueueBytes >= 2 * Response THEN Response - 1 ELSE 0

\* directionalBudgetLimits
ReplyLimit == IF QueueBytes >= 2 * Response THEN Response ELSE 0

OrdinaryLimit == QueueBytes - ReplyLimit

Init ==
    /\ ordinary = 0 /\ reply = 0 /\ app = 0 /\ other = 0
    /\ at = [c \in Call |-> "idle"]
    /\ used = [c \in Call |-> "none"]

-------------------------------------------------------------------------------

\* Budget.Acquire succeeds
Fits(limit, charged, bytes) == bytes <= limit - charged

FitsOrdinary(c) == Fits(OrdinaryLimit, ordinary, Size[c])

FitsReply(c) == c \in Replies /\ Fits(ReplyLimit, reply, Size[c])

\* reserveDirectionalBytes, reserveReplyDirectionalBytes: the session budget
ReserveSession(c) ==
    /\ at[c] = "idle"
    /\ \/ /\ FitsOrdinary(c)
          /\ ordinary' = ordinary + Size[c] /\ reply' = reply
          /\ used' = [used EXCEPT ![c] = "ordinary"]
       \/ /\ ~FitsOrdinary(c) /\ FitsReply(c)
          /\ reply' = reply + Size[c] /\ ordinary' = ordinary
          /\ used' = [used EXCEPT ![c] = "reply"]
    /\ at' = [at EXCEPT ![c] = "session"]
    /\ UNCHANGED <<app, other>>

\* ErrBackpressure
Refused(c) ==
    /\ at[c] = "idle"
    /\ ~FitsOrdinary(c) /\ ~FitsReply(c)
    /\ at' = [at EXCEPT ![c] = "refused"]
    /\ UNCHANGED <<ordinary, reply, app, used, other>>

\* Fault: the session budget refunded is the ordinary one.
RefundOrdinary(c) ==
    /\ ordinary' = ordinary - Size[c] /\ reply' = reply
    /\ used' = [used EXCEPT ![c] = "none"]

\* the session budget charged, not the one a new charge would go to
Refund(c) ==
    /\ ordinary' = ordinary - (IF used[c] = "ordinary" THEN Size[c] ELSE 0)
    /\ reply' = reply - (IF used[c] = "reply" THEN Size[c] ELSE 0)
    /\ used' = [used EXCEPT ![c] = "none"]

\* the application budget
ReserveApplication(c) ==
    /\ at[c] = "session"
    /\ IF Fits(MaxApp, app, Size[c])
         THEN /\ app' = app + Size[c]
              /\ at' = [at EXCEPT ![c] = "held"]
              /\ UNCHANGED <<ordinary, reply, used>>
         ELSE Refund(c) /\ at' = [at EXCEPT ![c] = "refused"] /\ UNCHANGED app
    /\ UNCHANGED other

\* the returned function, once: the application budget first
ReleaseApplication(c) ==
    /\ at[c] = "held"
    /\ app' = app - Size[c]
    /\ at' = [at EXCEPT ![c] = "releasing"]
    /\ UNCHANGED <<ordinary, reply, used, other>>

ReleaseSession(c) ==
    /\ at[c] = "releasing"
    /\ Refund(c)
    /\ at' = [at EXCEPT ![c] = "done"]
    /\ UNCHANGED <<app, other>>

\* the caller sends or receives again
Again(c) ==
    /\ at[c] \in {"refused", "done"}
    /\ at' = [at EXCEPT ![c] = "idle"]
    /\ UNCHANGED <<ordinary, reply, app, used, other>>

\* charges of other sessions
OtherReserves ==
    /\ other < MaxOther /\ Fits(MaxApp, app, 1)
    /\ app' = app + 1 /\ other' = other + 1
    /\ UNCHANGED <<ordinary, reply, at, used>>

OtherReleases ==
    /\ other > 0
    /\ app' = app - 1 /\ other' = other - 1
    /\ UNCHANGED <<ordinary, reply, at, used>>

CallStep(c) ==
    \/ ReserveSession(c) \/ Refused(c) \/ ReserveApplication(c)
    \/ ReleaseApplication(c) \/ ReleaseSession(c) \/ Again(c)

Next == (\E c \in Call : CallStep(c)) \/ OtherReserves \/ OtherReleases

Spec == Init /\ [][Next]_vars

-------------------------------------------------------------------------------
(* Properties. *)

Charged(budget) == MapThenSumSet(LAMBDA c : Size[c], {c \in Call : used[c] = budget})

\* Every byte charged to a session's budgets is held by one call that will
\* refund it there, so that no budget leaks or is refunded twice; together the
\* two never exceed QueueBytes.
LedgersAreExact ==
    /\ ordinary = Charged("ordinary") /\ reply = Charged("reply")
    /\ ordinary + reply <= QueueBytes

\* However much ordinary traffic a session has queued, one complete response
\* can be charged while no other response uses the reserve.
ReplyFits ==
    QueueBytes >= 2 * Response /\ reply = 0 =>
        \A c \in Replies : FitsOrdinary(c) \/ FitsReply(c)
================================================================================
