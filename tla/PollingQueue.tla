----------------------------- MODULE PollingQueue -----------------------------
(***************************************************************************)
(* The polling-mode inbox (incomingQueue): a runtime.Queue whose items are *)
(* also charged to a budget of the queue's own and to the endpoint's       *)
(* application budget, from before a payload is read until the             *)
(* application releases the envelope.  Reliable readers wait for both      *)
(* budgets and then for a reservation; datagram receivers and closing      *)
(* goroutines push without waiting; one goroutine of the application at a  *)
(* time is in Next.  Each action is one critical section of q.mu or of a   *)
(* budget's mutex, or the receive that ends a sleep.                       *)
(***************************************************************************)
EXTENDS Integers, Sequences, FiniteSets, SequencesExt

CONSTANTS
    Conn,         \* connection epochs that share the inbox
    Reads,        \* the connections with a reliable stream reader
    Receives,     \* the connections with a datagram receiver
    Size,         \* charges of application messages
    MaxBytes,     \* limit of the queue and of its own budget
    MaxItems,     \* limit of the queue in items
    MaxApp,       \* limit of the application budget
    MaxOther,     \* bound on what the rest of the endpoint charges to it
    MaxHeld       \* bound on the envelopes the application holds at once

InboxAssumption ==
    /\ Reads \subseteq Conn /\ Receives \subseteq Conn
    /\ {MaxBytes, MaxItems, MaxApp, MaxOther, MaxHeld} \subseteq Nat
    /\ Size \subseteq 1..MaxBytes

NoticeSize == 1                   \* the charge of a lifecycle notice
Budget == {"own", "app"}
Process == (Reads \X {"reader"}) \cup (Receives \X {"receiver"}) \cup (Conn \X {"closer"})
Envelope == [kind : {"event", "lost", "ended"}, conn : Conn, bytes : Size \cup {NoticeSize}]

VARIABLES
    items, closed,                \* the queue
    terminal,                     \* SessionEnded notices Close kept for Next
    used,                         \* what is charged to each budget
    other,                        \* the part of "app" charged by others
    token,                        \* the notify channels of the queue and the budgets
    pc, want,                     \* where a process is, and its envelope
    conn,                         \* live, closing, stopped or done
    next,                         \* the call of Next: idle, pop or asleep
    held,                         \* envelopes the application has not released
    accepted, returned            \* connections whose SessionEnded was queued, returned

queue == <<items, closed, terminal>>
app == <<next, held, returned>>
vars == <<queue, used, other, token, pc, want, conn, app, accepted>>

Init ==
    /\ items = <<>> /\ closed = FALSE /\ terminal = <<>>
    /\ used = [b \in Budget |-> 0] /\ other = 0
    /\ token = [n \in Budget \cup {"queue"} |-> FALSE]
    /\ pc = [p \in Process |-> "idle"]
    /\ want = [p \in Process |-> [kind |-> "event", conn |-> p[1], bytes |-> NoticeSize]]
    /\ conn = [c \in Conn |-> "live"]
    /\ next = "idle" /\ held = <<>>
    /\ accepted = {} /\ returned = {}

-------------------------------------------------------------------------------
(* Pieces of operations. *)

Bytes(q) == FoldSeq(LAMBDA e, sum : e.bytes + sum, 0, q)
SumWant(ps) == FoldSet(LAMBDA p, sum : want[p].bytes + sum, 0, ps)

Waits(p) == p[2] = "reader"
Goto(p, label) == pc' = [pc EXCEPT ![p] = label]

Reserved == {p \in Process : pc[p] = "reading"}

Fits(b) ==
    /\ ~closed
    /\ Len(items) + Cardinality(Reserved) < MaxItems
    /\ b <= MaxBytes - Bytes(items) - SumWant(Reserved)

Signal(ns) == token' = [n \in DOMAIN token |-> n \in ns \/ token[n]]

\* what an envelope is charged for returns to both budgets
Refund(n) == used' = [b \in Budget |-> used[b] - n]

\* the session of a connection that misbehaves or is too slow is closed
Blame(c) == conn' = [conn EXCEPT ![c] = IF @ = "live" THEN "closing" ELSE @]

\* a process is finished with its envelope, which the queue took or refused
Finished(p, wasAccepted) ==
    /\ Goto(p, "idle")
    /\ conn' = [conn EXCEPT ![p[1]] = IF p[2] = "closer" THEN "done" ELSE @]
    /\ accepted' = IF wasAccepted /\ want[p].kind = "ended"
                     THEN accepted \cup {p[1]} ELSE accepted

-------------------------------------------------------------------------------
(* acquire and acquireWait. *)

\* a reader has decoded a header, a receiver a datagram
Start(p, n) ==
    /\ p[2] # "closer" /\ pc[p] = "idle" /\ conn[p[1]] # "done"
    /\ Goto(p, "own")
    /\ want' = [want EXCEPT ![p].bytes = n]
    /\ UNCHANGED <<queue, used, other, token, conn, app, accepted>>

AcquireOwn(p) ==
    /\ pc[p] = "own" /\ want[p].bytes <= MaxBytes - used["own"]
    /\ used' = [used EXCEPT !["own"] = @ + want[p].bytes]
    /\ Goto(p, "app")
    /\ UNCHANGED <<queue, other, token, want, conn, app, accepted>>

OwnExhausted(p) ==
    /\ pc[p] = "own" /\ want[p].bytes > MaxBytes - used["own"]
    /\ IF Waits(p) THEN Goto(p, "sleepOwn") /\ UNCHANGED <<conn, accepted>> ELSE Finished(p, FALSE)
    /\ UNCHANGED <<queue, used, other, token, want, app>>

AcquireApp(p) ==
    /\ pc[p] = "app" /\ want[p].bytes <= MaxApp - used["app"]
    /\ used' = [used EXCEPT !["app"] = @ + want[p].bytes]
    /\ Goto(p, IF Waits(p) THEN "queue" ELSE "push")
    /\ UNCHANGED <<queue, other, token, want, conn, app, accepted>>

\* Fault: the own budget stays charged when the application budget refuses.
AppExhaustedKeepsOwn(p) ==
    /\ pc[p] = "app" /\ want[p].bytes > MaxApp - used["app"]
    /\ IF Waits(p) THEN Goto(p, "sleepApp") /\ UNCHANGED <<conn, accepted>> ELSE Finished(p, FALSE)
    /\ UNCHANGED <<queue, used, other, token, want, app>>

AppExhausted(p) ==
    /\ pc[p] = "app" /\ want[p].bytes > MaxApp - used["app"]
    /\ used' = [used EXCEPT !["own"] = @ - want[p].bytes]
    /\ Signal({"own"})
    /\ IF Waits(p) THEN Goto(p, "sleepApp") /\ UNCHANGED <<conn, accepted>> ELSE Finished(p, FALSE)
    /\ UNCHANGED <<queue, other, want, app>>

-------------------------------------------------------------------------------
(* The queue: Push, and reserveReliable with Commit and Cancel. *)

\* Fault: a push does not notice that the inbox was closed.
PushIgnoringClose(p) ==
    /\ pc[p] = "push"
    /\ items' = Append(items, want[p])
    /\ Signal({"queue"})
    /\ Finished(p, TRUE)
    /\ UNCHANGED <<closed, terminal, used, other, want, app>>

Push(p) ==
    /\ pc[p] = "push"
    /\ IF Fits(want[p].bytes)
         THEN /\ items' = Append(items, want[p])
              /\ Signal({"queue"})
              /\ UNCHANGED used
         ELSE /\ Refund(want[p].bytes)
              /\ Signal(Budget)
              /\ UNCHANGED items
    /\ Finished(p, Fits(want[p].bytes))
    /\ UNCHANGED <<closed, terminal, other, want, app>>

Reserve(p) ==
    /\ pc[p] = "queue" /\ Fits(want[p].bytes)
    /\ Goto(p, "reading")
    /\ UNCHANGED <<queue, used, other, token, want, conn, app, accepted>>

\* a full queue is waited for, a closed one ends the reader and the session
ReserveRefused(p) ==
    /\ pc[p] = "queue" /\ ~Fits(want[p].bytes)
    /\ IF closed
         THEN Goto(p, "idle") /\ Refund(want[p].bytes) /\ Signal(Budget) /\ Blame(p[1])
         ELSE Goto(p, "sleepQueue") /\ UNCHANGED <<used, token, conn>>
    /\ UNCHANGED <<queue, other, want, app, accepted>>

\* Fault: a reservation is committed to a closed queue.
CommitIgnoringClose(p) ==
    /\ pc[p] = "reading"
    /\ Goto(p, "idle")
    /\ items' = Append(items, want[p])
    /\ Signal({"queue"})
    /\ UNCHANGED <<closed, terminal, used, other, want, conn, app, accepted>>

\* the body was read; a closed queue refuses it
Commit(p) ==
    /\ pc[p] = "reading"
    /\ Goto(p, "idle")
    /\ IF closed
         THEN Refund(want[p].bytes) /\ Signal(Budget \cup {"queue"}) /\ Blame(p[1]) /\ UNCHANGED items
         ELSE items' = Append(items, want[p]) /\ Signal({"queue"}) /\ UNCHANGED <<used, conn>>
    /\ UNCHANGED <<closed, terminal, other, want, app, accepted>>

\* the body could not be read
Cancel(p) ==
    /\ pc[p] = "reading"
    /\ Goto(p, "idle")
    /\ Refund(want[p].bytes)
    /\ Signal(Budget \cup {"queue"})
    /\ Blame(p[1])
    /\ UNCHANGED <<queue, other, want, app, accepted>>

-------------------------------------------------------------------------------
(* Sleeping readers. *)

Bed == [sleepOwn |-> "own", sleepApp |-> "app", sleepQueue |-> "queue"]

Wake(p) ==
    /\ pc[p] \in DOMAIN Bed /\ token[Bed[pc[p]]]
    /\ token' = [token EXCEPT ![Bed[pc[p]]] = FALSE]
    /\ Goto(p, IF pc[p] = "sleepQueue" THEN "queue" ELSE "own")
    /\ UNCHANGED <<queue, used, other, want, conn, app, accepted>>

\* SlowConsumerTimeout, or the end of the epoch
GiveUp(p) ==
    /\ pc[p] \in DOMAIN Bed
    /\ Goto(p, "idle")
    /\ IF pc[p] = "sleepQueue" THEN Refund(want[p].bytes) /\ Signal(Budget) ELSE UNCHANGED <<used, token>>
    /\ Blame(p[1])
    /\ UNCHANGED <<queue, other, want, app, accepted>>

-------------------------------------------------------------------------------
(* The end of an epoch. *)

BeginClose(c) ==
    /\ conn[c] = "live"
    /\ conn' = [conn EXCEPT ![c] = "closing"]
    /\ UNCHANGED <<queue, used, other, token, pc, want, app, accepted>>

\* discardEpoch, and the closing goroutine goes on to push its notice
StopEpoch(c, kind) ==
    LET closer == <<c, "closer">>
        kept == SelectSeq(items, LAMBDA e : e.conn # c \/ e.kind # "event")
        freed == Bytes(items) - Bytes(kept) IN
    /\ conn[c] = (IF kind = "ended" THEN "closing" ELSE "live")
    /\ conn' = [conn EXCEPT ![c] = "stopped"]
    /\ items' = kept
    /\ Refund(freed)
    /\ Signal(IF kept # items THEN Budget \cup {"queue"} ELSE {})
    /\ pc' = [pc EXCEPT ![closer] = "own"]
    /\ want' = [want EXCEPT ![closer].kind = kind]
    /\ UNCHANGED <<closed, terminal, other, app, accepted>>

\* Fault: Close releases the notices of ended sessions like messages.
CloseForgets ==
    /\ ~closed /\ \A c \in Conn : conn[c] # "live"
    /\ closed' = TRUE
    /\ items' = <<>>
    /\ Refund(Bytes(items))
    /\ Signal(Budget \cup {"queue"})
    /\ UNCHANGED <<terminal, other, pc, want, conn, app, accepted>>

\* Serve returns, or the client's session ended: messages are released,
\* SessionEnded notices wait for Next
Close ==
    /\ ~closed /\ \A c \in Conn : conn[c] # "live"
    /\ closed' = TRUE
    /\ items' = <<>>
    /\ terminal' = SelectSeq(items, LAMBDA e : e.kind = "ended")
    /\ Refund(Bytes(items) - Bytes(terminal'))
    /\ Signal(Budget \cup {"queue"})
    /\ UNCHANGED <<other, pc, want, conn, app, accepted>>

-------------------------------------------------------------------------------
(* Next, and the application. *)

Return(e) ==
    /\ next' = "idle"
    /\ held' = Append(held, e)
    /\ returned' = IF e.kind = "ended" THEN returned \cup {e.conn} ELSE returned

\* a second caller is refused while one is in Next
CallNext ==
    /\ next = "idle" /\ Len(held) < MaxHeld
    /\ IF terminal # <<>>
         THEN Return(Head(terminal)) /\ terminal' = Tail(terminal)
         ELSE next' = (IF closed THEN "idle" ELSE "pop") /\ UNCHANGED <<held, returned, terminal>>
    /\ UNCHANGED <<items, closed, used, other, token, pc, want, conn, accepted>>

Pop ==
    /\ next = "pop" /\ items # <<>>
    /\ Return(Head(items))
    /\ items' = Tail(items)
    /\ Signal({"queue"})
    /\ UNCHANGED <<closed, terminal, used, other, pc, want, conn, accepted>>

PopEmpty ==
    /\ next = "pop" /\ items = <<>>
    /\ next' = IF closed THEN "idle" ELSE "asleep"
    /\ UNCHANGED <<queue, used, other, token, pc, want, conn, held, accepted, returned>>

WakePop ==
    /\ next = "asleep" /\ token["queue"]
    /\ next' = "pop"
    /\ token' = [token EXCEPT !["queue"] = FALSE]
    /\ UNCHANGED <<queue, used, other, pc, want, conn, held, accepted, returned>>

\* the context of the call ends
NextCanceled ==
    /\ next = "asleep"
    /\ next' = "idle"
    /\ UNCHANGED <<queue, used, other, token, pc, want, conn, held, accepted, returned>>

Release(i) ==
    /\ Refund(held[i].bytes)
    /\ Signal(Budget)
    /\ held' = RemoveAt(held, i)
    /\ UNCHANGED <<queue, other, pc, want, conn, next, accepted, returned>>

\* the rest of the endpoint charges the application budget, and releases it
OtherAcquires ==
    /\ other < MaxOther /\ used["app"] < MaxApp
    /\ other' = other + 1
    /\ used' = [used EXCEPT !["app"] = @ + 1]
    /\ UNCHANGED <<queue, token, pc, want, conn, app, accepted>>

OtherReleases ==
    /\ other > 0
    /\ other' = other - 1
    /\ used' = [used EXCEPT !["app"] = @ - 1]
    /\ Signal({"app"})
    /\ UNCHANGED <<queue, pc, want, conn, app, accepted>>

-------------------------------------------------------------------------------

Acquire(p) == AcquireOwn(p) \/ OwnExhausted(p) \/ AcquireApp(p) \/ AppExhausted(p)
Step(p) == Acquire(p) \/ Push(p) \/ Reserve(p) \/ ReserveRefused(p) \/ Wake(p)
Body(p) == Commit(p) \/ Cancel(p)
Poll == CallNext \/ Pop \/ PopEmpty \/ WakePop

Next ==
    \/ \E p \in Process : Step(p) \/ Body(p) \/ GiveUp(p) \/ (\E n \in Size : Start(p, n))
    \/ \E c \in Conn : BeginClose(c) \/ (\E kind \in {"ended", "lost"} : StopEpoch(c, kind))
    \/ Poll \/ NextCanceled \/ Close
    \/ \E i \in DOMAIN held : Release(i)
    \/ OtherAcquires \/ OtherReleases

Spec == Init /\ [][Next]_vars

-------------------------------------------------------------------------------
(* Properties. *)

\* Every variable has its type; in particular no budget goes below zero,
\* which Budget.Release would answer with a panic.
TypeOK ==
    /\ items \in Seq(Envelope) /\ terminal \in Seq(Envelope) /\ held \in Seq(Envelope)
    /\ closed \in BOOLEAN /\ token \in [Budget \cup {"queue"} -> BOOLEAN]
    /\ used \in [Budget -> Nat] /\ other \in 0..MaxOther
    /\ pc \in [Process -> {"idle", "own", "app", "queue", "push", "reading"} \cup DOMAIN Bed]
    /\ want \in [Process -> Envelope]
    /\ conn \in [Conn -> {"live", "closing", "stopped", "done"}]
    /\ next \in {"idle", "pop", "asleep"}
    /\ accepted \subseteq Conn /\ returned \subseteq Conn

At(labels) == {p \in Process : pc[p] \in labels}

\* Both budgets are exact: they hold what is queued, kept for Next, held by
\* the application or in a process's hands, whatever order of refusals,
\* timeouts, discarded epochs and Close a payload went through.
InboxChargesAreExact ==
    LET stored == Bytes(items) + Bytes(terminal) + Bytes(held) IN
    /\ used["own"] = stored + SumWant(At({"app", "queue", "sleepQueue", "reading", "push"}))
    /\ used["app"] = stored + other + SumWant(At({"queue", "sleepQueue", "reading", "push"}))

\* A SessionEnded notice that Push accepted is never lost: until Next returned
\* it, it is in the queue or in the slots Close moved it to.
EndedIsKept ==
    \A c \in accepted \ returned :
        \E e \in Range(items) \cup Range(terminal) : e.kind = "ended" /\ e.conn = c

\* Nothing is in a closed inbox, although readers that reserved before Close
\* commit after it: an item there would be charged for ever.
ClosedIsDrained == closed => items = <<>>
===============================================================================
