--------------------------- MODULE HandlerScheduler ---------------------------
(***************************************************************************)
(* Handler dispatch: every connectionOperations has a bounded queue of     *)
(* incoming work and at most one scheduling token; the endpoint's workers  *)
(* take tokens from a bounded channel, run a quantum of callbacks and put  *)
(* the token back.  Sessions attach connection after connection (epochs),  *)
(* suspend and close, which drops queued work and queues lifecycle         *)
(* notifications.                                                          *)
(*                                                                         *)
(* enqueueHandler, one iteration of runHandlerQuantum and                  *)
(* dropQueuedHandlers are atomic because each holds handlerMu throughout.  *)
(*                                                                         *)
(* A definition commented "Fault:" is a plausible bug in the definition    *)
(* that follows it; no action uses it.                                     *)
(***************************************************************************)
EXTENDS Integers, Sequences, FiniteSets

CONSTANTS
    Session,
    Ops,            \* connection operations, one per epoch of a session
    Worker,         \* goroutines of the pool
    None,           \* no operations, no item
    SessionOf,      \* the session each operations value belongs to
    MaxReady,       \* capacity of the ready channel
    Quantum,        \* callbacks run per token (32 in the code)
    QueueMessages,  \* limits.QueueMessages
    CloseOnEnd,     \* client endpoints: SessionEnded closes the scheduler
    MayClose        \* the endpoint may shut down

SchedulerAssumption ==
    /\ None \notin Ops /\ IsFiniteSet(Ops)
    /\ SessionOf \in [Ops -> Session]
    /\ MaxReady \in Nat \ {0}
    /\ Quantum \in Nat \ {0}
    /\ QueueMessages \in Nat \ {0}
    /\ CloseOnEnd \in BOOLEAN
    /\ MayClose \in BOOLEAN

VARIABLES
    current,    \* the operations each session is attached to
    state,      \* the state of each session
    pending,    \* notifications and messages a goroutine is about to queue
    queue,      \* handlerQueue
    scheduled,  \* handlerScheduled
    ready,      \* the ready channel
    accepting, work, cancelled,           \* handlerScheduler
    at, holds, count, item                \* each worker's position

sessVars  == <<current, state, pending>>
schedVars == <<ready, accepting, work, cancelled>>
workVars  == <<at, holds, count, item>>
vars == <<sessVars, queue, scheduled, schedVars, workVars>>

Life == {"Attached", "Lost", "Ended"}
Item == Life \cup {"Message"}

Init ==
    /\ current = [s \in Session |-> None]
    /\ state = [s \in Session |-> "None"]
    /\ pending = [o \in Ops |-> {}]
    /\ queue = [o \in Ops |-> <<>>]
    /\ scheduled = [o \in Ops |-> FALSE]
    /\ ready = <<>>
    /\ accepting = TRUE
    /\ work = 0
    /\ cancelled = FALSE
    /\ at = [w \in Worker |-> "idle"]
    /\ holds = [w \in Worker |-> None]
    /\ count = [w \in Worker |-> 0]
    /\ item = [w \in Worker |-> None]

-------------------------------------------------------------------------------
(* Queueing work. *)

Current(o) == current[SessionOf[o]] = o /\ state[SessionOf[o]] = "Active"

\* handlerScheduler.enqueue succeeds
TokenAccepted == accepting /\ Len(ready) < MaxReady

\* SessionEnded's after callback: onTerminal closes a client's scheduler
After(i) == accepting' = (accepting /\ ~(CloseOnEnd /\ i = "Ended"))

Accepted(o, i) ==
    /\ Len(queue[o]) < QueueMessages
    /\ scheduled[o] \/ TokenAccepted

\* Fault: a token is queued although the operations already has one.
EnqueueTwice(o, i) ==
    /\ Accepted(o, i)
    /\ queue' = [queue EXCEPT ![o] = Append(@, i)]
    /\ scheduled' = [scheduled EXCEPT ![o] = TRUE]
    /\ IF TokenAccepted
       THEN ready' = Append(ready, o) /\ work' = work + 1
       ELSE UNCHANGED <<ready, work>>
    /\ UNCHANGED <<accepting, cancelled>>

\* enqueueHandler returns true
Enqueue(o, i) ==
    /\ Accepted(o, i)
    /\ queue' = [queue EXCEPT ![o] = Append(@, i)]
    /\ scheduled' = [scheduled EXCEPT ![o] = TRUE]
    /\ IF scheduled[o]
       THEN UNCHANGED <<ready, work>>
       ELSE ready' = Append(ready, o) /\ work' = work + 1
    /\ UNCHANGED <<accepting, cancelled>>

\* Fault: the item stays queued when its token is refused.
RefuseAndKeep(o, i) ==
    /\ ~Accepted(o, i)
    /\ queue' = IF Len(queue[o]) = QueueMessages THEN queue
                ELSE [queue EXCEPT ![o] = Append(@, i)]
    /\ After(i)
    /\ UNCHANGED <<scheduled, ready, work, cancelled>>

\* enqueueHandler returns false: the queue is full, or no token could be
\* queued and the head of the queue is removed again
Refuse(o, i) ==
    /\ ~Accepted(o, i)
    /\ queue' = IF Len(queue[o]) = QueueMessages THEN queue
                ELSE [queue EXCEPT ![o] = Tail(Append(@, i))]
    /\ After(i)
    /\ UNCHANGED <<scheduled, ready, work, cancelled>>

EnqueueHandler(o, i) == Enqueue(o, i) \/ Refuse(o, i)

-------------------------------------------------------------------------------
(* Sessions: each action is the owner of the state change; the notification *)
(* that follows it outside session.mu is left in pending.                   *)

\* admission or resume: the previous epoch's queued work is dropped
Attach(o) ==
    LET s == SessionOf[o] prev == current[s] IN
    /\ state[s] # "Closed"
    /\ \A w \in Worker : holds[w] # o
    /\ o # prev /\ pending[o] = {} /\ queue[o] = <<>> /\ ~scheduled[o]
    /\ current' = [current EXCEPT ![s] = o]
    /\ state' = [state EXCEPT ![s] = "Active"]
    /\ pending' = [pending EXCEPT ![o] = {"Attached"}]
    /\ queue' = [q \in Ops |-> IF q = prev THEN <<>> ELSE queue[q]]
    /\ UNCHANGED <<scheduled, schedVars, workVars>>

\* suspendIfCurrent; a connection lost before its WELCOME never notifies
\* that it was attached
Lose(o) ==
    /\ Current(o)
    /\ state' = [state EXCEPT ![SessionOf[o]] = "Suspended"]
    /\ queue' = [queue EXCEPT ![o] = <<>>]
    /\ pending' = [pending EXCEPT ![o] = (@ \ {"Attached"}) \cup {"Lost"}]
    /\ UNCHANGED <<current, scheduled, schedVars, workVars>>

\* Session.Close or closeRemote, stopEpoch
End(s) ==
    /\ state[s] \in {"Active", "Suspended"}
    /\ state' = [state EXCEPT ![s] = "Closed"]
    /\ queue' = [queue EXCEPT ![current[s]] = <<>>]
    /\ pending' = [pending EXCEPT ![current[s]] = @ \cup {"Ended"}]
    /\ UNCHANGED <<current, scheduled, schedVars, workVars>>

\* a reader goroutine has decoded a message and found the epoch current
Read(o) ==
    /\ Current(o)
    /\ "Attached" \notin pending[o]
    /\ pending' = [pending EXCEPT ![o] = @ \cup {"Message"}]
    /\ UNCHANGED <<current, state, queue, scheduled, schedVars, workVars>>

\* deliverLifecycleAfter and dispatch, by then possibly of an old epoch
Deliver(o, i) ==
    /\ i \in pending[o]
    /\ pending' = [pending EXCEPT ![o] = @ \ {i}]
    /\ EnqueueHandler(o, i)
    /\ UNCHANGED <<current, state, workVars>>

-------------------------------------------------------------------------------
(* handlerScheduler.run and runHandlerQuantum. *)

Take(w) ==
    /\ at[w] = "idle" /\ ready # <<>>
    /\ holds' = [holds EXCEPT ![w] = Head(ready)]
    /\ ready' = Tail(ready)
    /\ at' = [at EXCEPT ![w] = "quantum"]
    /\ count' = [count EXCEPT ![w] = 0]
    /\ UNCHANGED <<sessVars, queue, scheduled, accepting, work, cancelled, item>>

Pop(w) ==
    /\ at[w] = "quantum" /\ count[w] < Quantum
    /\ queue[holds[w]] # <<>>
    /\ item' = [item EXCEPT ![w] = Head(queue[holds[w]])]
    /\ queue' = [queue EXCEPT ![holds[w]] = Tail(@)]
    /\ at' = [at EXCEPT ![w] = "popped"]
    /\ UNCHANGED <<sessVars, scheduled, schedVars, holds, count>>

\* invoke: only lifecycle notifications run when the epoch is no longer current
Invoke(w) ==
    /\ at[w] = "popped"
    /\ \/ /\ item[w] \in Life \/ Current(holds[w])
          /\ at' = [at EXCEPT ![w] = "running"]
          /\ UNCHANGED <<count, item>>
       \/ /\ item[w] \notin Life /\ ~Current(holds[w])
          /\ at' = [at EXCEPT ![w] = "quantum"]
          /\ count' = [count EXCEPT ![w] = @ + 1]
          /\ item' = [item EXCEPT ![w] = None]
    /\ UNCHANGED <<sessVars, queue, scheduled, schedVars, holds>>

Return(w) ==
    /\ at[w] = "running"
    /\ After(item[w])
    /\ at' = [at EXCEPT ![w] = "quantum"]
    /\ count' = [count EXCEPT ![w] = @ + 1]
    /\ item' = [item EXCEPT ![w] = None]
    /\ UNCHANGED <<sessVars, queue, scheduled, ready, work, cancelled, holds>>

\* Fault: an early return signals the WaitGroup twice.
UnscheduleTwice(w) ==
    /\ scheduled' = [scheduled EXCEPT ![holds[w]] = FALSE]
    /\ work' = work - 2
    /\ at' = [at EXCEPT ![w] = "idle"]
    /\ holds' = [holds EXCEPT ![w] = None]
    /\ UNCHANGED <<sessVars, queue, ready, accepting, cancelled, count, item>>

\* the token is given up
Unschedule(w) ==
    /\ scheduled' = [scheduled EXCEPT ![holds[w]] = FALSE]
    /\ work' = work - 1
    /\ at' = [at EXCEPT ![w] = "idle"]
    /\ holds' = [holds EXCEPT ![w] = None]
    /\ UNCHANGED <<sessVars, queue, ready, accepting, cancelled, count, item>>

Drained(w) ==
    /\ at[w] = "quantum"
    /\ queue[holds[w]] = <<>>
    /\ Unschedule(w)

\* after a full quantum with work left
Yield(w) ==
    /\ at[w] = "quantum" /\ count[w] = Quantum
    /\ queue[holds[w]] # <<>>
    /\ \/ /\ accepting
          /\ at' = [at EXCEPT ![w] = "yield"]
          /\ UNCHANGED <<sessVars, queue, scheduled, schedVars, holds, count, item>>
       \/ /\ ~accepting
          /\ Unschedule(w)

\* Fault: the worker forgets that the token it sends is still counted.
SendAndCount(w) ==
    /\ at[w] = "yield" /\ Len(ready) < MaxReady
    /\ ready' = Append(ready, holds[w])
    /\ work' = work + 1
    /\ at' = [at EXCEPT ![w] = "idle"]
    /\ holds' = [holds EXCEPT ![w] = None]
    /\ UNCHANGED <<sessVars, queue, scheduled, accepting, cancelled, count, item>>

\* Fault: the token jumps the queue.
SendFirst(w) ==
    /\ at[w] = "yield" /\ Len(ready) < MaxReady
    /\ ready' = <<holds[w]>> \o ready
    /\ at' = [at EXCEPT ![w] = "idle"]
    /\ holds' = [holds EXCEPT ![w] = None]
    /\ UNCHANGED <<sessVars, queue, scheduled, accepting, work, cancelled, count, item>>

\* the blocking send of the token
Send(w) ==
    /\ at[w] = "yield" /\ Len(ready) < MaxReady
    /\ ready' = Append(ready, holds[w])
    /\ at' = [at EXCEPT ![w] = "idle"]
    /\ holds' = [holds EXCEPT ![w] = None]
    /\ UNCHANGED <<sessVars, queue, scheduled, accepting, work, cancelled, count, item>>

-------------------------------------------------------------------------------
(* Shutdown. *)

\* Serve's deferred close, once every session is closed
Close ==
    /\ MayClose /\ accepting
    /\ \A s \in Session : state[s] \in {"None", "Closed"}
    /\ accepting' = FALSE
    /\ UNCHANGED <<sessVars, queue, scheduled, ready, work, cancelled, workVars>>

\* Fault: the pool is cancelled without waiting for its tokens.
CancelAtOnce ==
    /\ ~accepting /\ ~cancelled
    /\ cancelled' = TRUE
    /\ UNCHANGED <<sessVars, queue, scheduled, ready, accepting, work, workVars>>

\* work.Wait returned
Cancel ==
    /\ ~accepting /\ work = 0 /\ ~cancelled
    /\ cancelled' = TRUE
    /\ UNCHANGED <<sessVars, queue, scheduled, ready, accepting, work, workVars>>

Exit(w) ==
    /\ cancelled /\ at[w] = "idle"
    /\ at' = [at EXCEPT ![w] = "exit"]
    /\ UNCHANGED <<sessVars, queue, scheduled, schedVars, holds, count, item>>

\* nothing is left to do
Stopped ==
    /\ \A s \in Session : state[s] = "Closed"
    /\ \A o \in Ops : pending[o] = {} /\ ~scheduled[o]
    /\ \A w \in Worker : at[w] \in {"idle", "exit"}
    /\ UNCHANGED vars

WorkerStep(w) ==
    \/ Take(w) \/ Pop(w) \/ Invoke(w) \/ Return(w)
    \/ Drained(w) \/ Yield(w) \/ Send(w) \/ Exit(w)

Next ==
    \/ \E o \in Ops : Attach(o) \/ Lose(o) \/ Read(o) \/ \E i \in Item : Deliver(o, i)
    \/ \E s \in Session : End(s)
    \/ \E w \in Worker : WorkerStep(w)
    \/ Close \/ Cancel \/ Stopped

\* goroutines run, and callbacks return
Fairness ==
    /\ \A w \in Worker : WF_vars(WorkerStep(w))
    /\ \A o \in Ops : WF_vars(\E i \in Item : Deliver(o, i))
    /\ WF_vars(Cancel)

Spec == Init /\ [][Next]_vars /\ Fairness

-------------------------------------------------------------------------------
(* Properties. *)

\* Every variable has its type: no quantum runs more than Quantum callbacks and
\* the WaitGroup's counter never goes negative.
TypeOK ==
    /\ current \in [Session -> Ops \cup {None}]
    /\ state \in [Session -> {"None", "Active", "Suspended", "Closed"}]
    /\ pending \in [Ops -> SUBSET Item]
    /\ queue \in [Ops -> Seq(Item)]
    /\ scheduled \in [Ops -> BOOLEAN]
    /\ ready \in Seq(Ops)
    /\ accepting \in BOOLEAN /\ cancelled \in BOOLEAN
    /\ work \in Nat
    /\ at \in [Worker -> {"idle", "quantum", "popped", "running", "yield", "exit"}]
    /\ holds \in [Worker -> Ops \cup {None}]
    /\ count \in [Worker -> 0..Quantum]
    /\ item \in [Worker -> Item \cup {None}]

\* A connection owns one scheduling token: it is in the ready channel once or
\* held by one worker exactly when handlerScheduled is set.  Workers therefore
\* never overlap callbacks of one connection, and no token is lost.
OneToken ==
    /\ \A i, j \in 1..Len(ready) : ready[i] = ready[j] => i = j
    /\ \A v, w \in Worker : holds[v] = holds[w] /\ holds[v] # None => v = w
    /\ \A i \in 1..Len(ready), w \in Worker : ready[i] # holds[w]
    /\ \A o \in Ops : scheduled[o] <=>
          (\E i \in 1..Len(ready) : ready[i] = o) \/ (\E w \in Worker : holds[w] = o)

\* While the scheduler accepts tokens, no work is queued without one
\* (enqueueHandler takes the item back when its token is refused, and
\* runHandlerQuantum gives a token up only when the queue is empty).
QueuedIsScheduled ==
    accepting => \A o \in Ops : queue[o] # <<>> => scheduled[o]

\* The WaitGroup that shutdown waits for counts exactly the tokens.
WorkCountsTokens == work = Cardinality({o \in Ops : scheduled[o]})

\* close cancels the pool only after work.Wait: once it has, no worker runs a
\* callback or holds a token and none is left in the ready channel.
CancelledIsQuiet == cancelled => ready = <<>> /\ \A w \in Worker : holds[w] = None

\* A worker that yields after its quantum finds room in the ready channel.
YieldHasRoom == \A w \in Worker : at[w] = "yield" => Len(ready) < MaxReady

\* Every token is eventually taken by a worker: no connection is starved.
TokensAreServed ==
    \A o \in Ops : scheduled[o] ~> (\E w \in Worker : holds[w] = o) \/ ~scheduled[o]

\* A worker that yields its token while the scheduler accepts work gets rid of it.
YieldCompletes == \A w \in Worker : at[w] = "yield" ~> at[w] # "yield"
===============================================================================
