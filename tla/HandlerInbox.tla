----------------------------- MODULE HandlerInbox -----------------------------
(***************************************************************************)
(* The memory of handler dispatch: what one connection charges to the      *)
(* endpoint's application budget for an incoming message, from before a    *)
(* reliable reader allocates the body, or before a datagram is queued,     *)
(* until its callback returned, it was coalesced, or its epoch was         *)
(* dropped.  A reader, the datagram receiver and the goroutine that        *)
(* delivers lifecycle notifications queue; one worker at a time has the    *)
(* connection's token.  HandlerScheduler is about the tokens themselves.   *)
(***************************************************************************)
EXTENDS Integers, Sequences, SequencesExt

CONSTANTS
    Size,         \* charges of messages
    MaxBytes,     \* QueueBytes, of the handler queue
    MaxItems,     \* QueueMessages
    MaxApp,       \* limit of the application budget
    MaxOther      \* bound on what the rest of the endpoint charges to it

HandlerAssumption ==
    /\ {MaxBytes, MaxItems, MaxApp, MaxOther} \subseteq Nat
    /\ Size \subseteq 1..MaxBytes

Process == {"reader", "receiver", "notifier"}
NoticeSize == 1                   \* the charge of a lifecycle notification
Envelope == [from : Process, bytes : Size \cup {NoticeSize}]

VARIABLES
    used, other,  \* the application budget, and the part charged by others
    queue,        \* handlerQueue
    scheduled,    \* the connection has a token
    accepting,    \* the scheduler takes tokens
    running,      \* the envelope the worker has, if any
    pc, want,     \* where a process is, and the charge of its envelope
    current,      \* the epoch is current
    dropped       \* stopEpoch dropped the queue

budget == <<used, other>>
dispatch == <<queue, scheduled, accepting, running>>
vars == <<budget, dispatch, pc, want, current, dropped>>

Init ==
    /\ used = 0 /\ other = 0
    /\ queue = <<>> /\ scheduled = FALSE /\ accepting = TRUE /\ running = <<>>
    /\ pc = [p \in Process |-> "idle"] /\ want = [p \in Process |-> NoticeSize]
    /\ current = TRUE /\ dropped = FALSE

-------------------------------------------------------------------------------
(* Pieces of operations. *)

Bytes(q) == FoldSeq(LAMBDA e, sum : e.bytes + sum, 0, q)
Reserved == IF pc["reader"] = "reading" THEN <<[from |-> "reader", bytes |-> want["reader"]]>> ELSE <<>>

Fits(q, n) ==
    /\ Len(q) + Len(Reserved) < MaxItems
    /\ n <= MaxBytes - Bytes(q) - Bytes(Reserved)

EnvelopeOf(p) == [from |-> p, bytes |-> want[p]]
Goto(p, label) == pc' = [pc EXCEPT ![p] = label]

\* an accepted item makes q of the queue and releases freed; without a token,
\* and none to be had, the head is taken back and released
Queue(q, freed) ==
    \E token \in {scheduled, scheduled \/ accepting} :
        IF token
          THEN queue' = q /\ scheduled' = TRUE /\ used' = used - freed
          ELSE queue' = Tail(q) /\ scheduled' = FALSE /\ used' = used - freed - Head(q).bytes

-------------------------------------------------------------------------------
(* chargeHandlerIncoming and reserveReliableHandler. *)

\* a header was read, or a datagram in the current epoch
Start(p, n) ==
    /\ p # "notifier" /\ pc[p] = "idle" /\ (p = "receiver" => current)
    /\ Goto(p, "charge")
    /\ want' = [want EXCEPT ![p] = n]
    /\ UNCHANGED <<budget, dispatch, current, dropped>>

\* Opened, Resumed, AuthRefreshed, and at the end ConnectionLost or SessionEnded
Notify ==
    /\ pc["notifier"] = "idle" /\ (current \/ dropped)
    /\ Goto("notifier", "charge")
    /\ UNCHANGED <<budget, dispatch, want, current, dropped>>

Charge(p) ==
    /\ pc[p] = "charge" /\ want[p] <= MaxApp - used
    /\ used' = used + want[p]
    /\ Goto(p, IF p = "reader" THEN "reserve" ELSE "enqueue")
    /\ UNCHANGED <<other, dispatch, want, current, dropped>>

\* a datagram or a notification is dropped; a reader waits
ChargeRefused(p) ==
    /\ p # "reader" /\ pc[p] = "charge" /\ want[p] > MaxApp - used
    /\ Goto(p, "idle")
    /\ UNCHANGED <<budget, dispatch, want, current, dropped>>

\* Reserve waits for room in the queue
Reserve ==
    /\ pc["reader"] = "reserve" /\ Fits(queue, want["reader"])
    /\ Goto("reader", "reading")
    /\ UNCHANGED <<budget, dispatch, want, current, dropped>>

\* SlowConsumerTimeout or the end of the epoch: the charge goes back
GiveUp ==
    /\ pc["reader"] \in {"charge", "reserve"}
    /\ used' = IF pc["reader"] = "reserve" THEN used - want["reader"] ELSE used
    /\ current' = FALSE
    /\ Goto("reader", "gone")
    /\ UNCHANGED <<other, dispatch, want, dropped>>

\* the body cannot be read: Cancel
Cancel ==
    /\ pc["reader"] = "reading"
    /\ used' = used - want["reader"]
    /\ current' \in {current, FALSE}
    /\ Goto("reader", "gone")
    /\ UNCHANGED <<other, dispatch, want, dropped>>

-------------------------------------------------------------------------------
(* enqueueReservedReliableHandler and enqueueHandler, under handlerMu. *)

\* Fault: the reserved item is committed and no token is asked for.
CommitUnscheduled ==
    /\ pc["reader"] = "reading"
    /\ queue' = Append(queue, EnvelopeOf("reader"))
    /\ Goto("reader", "idle")
    /\ UNCHANGED <<budget, scheduled, accepting, running, want, current, dropped>>

\* the reader goes on, unless the scheduler refused; then it ends the session
Commit ==
    /\ pc["reader"] = "reading"
    /\ Queue(Append(queue, EnvelopeOf("reader")), 0)
    /\ Goto("reader", IF scheduled' THEN "idle" ELSE "gone")
    /\ current' = (current /\ scheduled')
    /\ UNCHANGED <<other, accepting, running, want, dropped>>

Updates == {i \in DOMAIN queue : queue[i].from = "receiver"}

\* TryPush; the caller releases what was refused
Enqueue(p) ==
    /\ pc[p] = "enqueue" /\ (p = "receiver" => Updates = {})
    /\ IF Fits(queue, want[p]) THEN Queue(Append(queue, EnvelopeOf(p)), 0)
       ELSE used' = used - want[p] /\ UNCHANGED <<queue, scheduled>>
    /\ Goto(p, "idle")
    /\ UNCHANGED <<other, accepting, running, want, current, dropped>>

\* Fault: the update that is replaced is not released.
ReplaceForgetting ==
    /\ pc["receiver"] = "enqueue"
    /\ \E i \in Updates : queue' = [queue EXCEPT ![i] = EnvelopeOf("receiver")]
    /\ Goto("receiver", "idle")
    /\ UNCHANGED <<budget, scheduled, accepting, running, want, current, dropped>>

\* ReplaceWith: the queued update is released, or the new one if it is larger
\* and there is no room for the difference
Replace ==
    /\ pc["receiver"] = "enqueue"
    /\ \E i \in Updates :
         LET new == [queue EXCEPT ![i] = EnvelopeOf("receiver")] IN
         IF Bytes(new) + Bytes(Reserved) <= MaxBytes
           THEN Queue(new, queue[i].bytes)
           ELSE used' = used - want["receiver"] /\ UNCHANGED <<queue, scheduled>>
    /\ Goto("receiver", "idle")
    /\ UNCHANGED <<other, accepting, running, want, current, dropped>>

-------------------------------------------------------------------------------
(* runHandlerQuantum and invoke. *)

Pop ==
    /\ scheduled /\ running = <<>> /\ queue # <<>>
    /\ running' = <<Head(queue)>>
    /\ queue' = Tail(queue)
    /\ UNCHANGED <<budget, scheduled, accepting, pc, want, current, dropped>>

\* the callback returned, panicked and closed the session, or was skipped
\* because the epoch is over; the envelope is released in every case
Invoke ==
    /\ running # <<>>
    /\ running' = <<>>
    /\ used' = used - Bytes(running)
    /\ current' \in {current, FALSE}
    /\ UNCHANGED <<other, queue, scheduled, accepting, pc, want, dropped>>

Drained ==
    /\ scheduled /\ running = <<>> /\ queue = <<>>
    /\ scheduled' = FALSE
    /\ UNCHANGED <<budget, queue, accepting, running, pc, want, current, dropped>>

\* any callback may be the last of its quantum; after close the token is given
\* up although work is left
GiveUpToken ==
    /\ scheduled /\ running = <<>> /\ queue # <<>> /\ ~accepting
    /\ scheduled' = FALSE
    /\ UNCHANGED <<budget, queue, accepting, running, pc, want, current, dropped>>

-------------------------------------------------------------------------------
(* The end of the epoch and of the endpoint, and the other connections. *)

EndEpoch ==
    /\ current
    /\ current' = FALSE
    /\ UNCHANGED <<budget, dispatch, pc, want, dropped>>

\* stopEpoch: dropQueuedHandlers
DropQueued ==
    /\ ~current /\ ~dropped
    /\ dropped' = TRUE
    /\ queue' = <<>>
    /\ used' = used - Bytes(queue)
    /\ UNCHANGED <<other, scheduled, accepting, running, pc, want, current>>

\* the endpoint stops when its sessions are closed
CloseScheduler ==
    /\ dropped /\ accepting
    /\ accepting' = FALSE
    /\ UNCHANGED <<budget, queue, scheduled, running, pc, want, current, dropped>>

OtherCharges ==
    /\ other < MaxOther /\ used < MaxApp
    /\ other' = other + 1 /\ used' = used + 1
    /\ UNCHANGED <<dispatch, pc, want, current, dropped>>

OtherReleases ==
    /\ other > 0
    /\ other' = other - 1 /\ used' = used - 1
    /\ UNCHANGED <<dispatch, pc, want, current, dropped>>

-------------------------------------------------------------------------------

Step(p) == Charge(p) \/ ChargeRefused(p) \/ (p # "reader" /\ Enqueue(p))
Reader == Step("reader") \/ Reserve \/ GiveUp \/ Cancel \/ Commit
Worker == Pop \/ Invoke \/ Drained \/ GiveUpToken

Next ==
    \/ \E p \in Process, n \in Size : Start(p, n)
    \/ \E p \in Process : Step(p)
    \/ Reader \/ Replace \/ Notify \/ Worker
    \/ EndEpoch \/ DropQueued \/ CloseScheduler \/ OtherCharges \/ OtherReleases

Spec == Init /\ [][Next]_vars

-------------------------------------------------------------------------------
(* Properties. *)

\* Every variable has its type, and the budget is within its limit.
TypeOK ==
    /\ used \in 0..MaxApp /\ other \in 0..MaxOther
    /\ queue \in Seq(Envelope) /\ running \in Seq(Envelope)
    /\ scheduled \in BOOLEAN /\ accepting \in BOOLEAN
    /\ pc \in [Process -> {"idle", "charge", "reserve", "reading", "enqueue", "gone"}]
    /\ want \in [Process -> Size \cup {NoticeSize}]
    /\ current \in BOOLEAN /\ dropped \in BOOLEAN

InHand == {p \in Process : pc[p] \in {"reserve", "reading", "enqueue"}}
Claims == Bytes(queue) + Bytes(running) + FoldSet(LAMBDA p, sum : want[p] + sum, 0, InHand)

\* The application budget, which all connections of the endpoint share, holds
\* exactly what is queued, in a callback or in the hands of a goroutine: no
\* refusal, timeout, coalesced update, dropped epoch or late commit leaks a
\* charge or returns one twice.
HandlerChargesAreExact == used = other + Claims

\* A message committed after its epoch was dropped is not stranded: while the
\* scheduler takes tokens, whatever is queued has one, so that a worker will
\* release it.
MessagesAreScheduled == accepting /\ queue # <<>> => scheduled
===============================================================================
