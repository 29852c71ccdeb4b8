----------------------- MODULE HandlerSchedulerProofs -----------------------
(***************************************************************************)
(* The scheduling tokens of handler dispatch, for any number of sessions,  *)
(* connections and workers and any size of the ready channel, the quantum  *)
(* and the queues.  IInv is inductive: OneToken and WorkCountsTokens need  *)
(* to know which positions of a worker go with a token, QueuedIsScheduled  *)
(* that a token is given up with an empty queue, and CancelledIsQuiet that *)
(* the pool was cancelled at a count of zero and accepts nothing since.    *)
(***************************************************************************)
EXTENDS HandlerScheduler, FiniteSetTheorems, TLAPS

\* The types of everything but work, which WorkCountsTokens gives.
Shape ==
    /\ current \in [Session -> Ops \cup {None}]
    /\ state \in [Session -> {"None", "Active", "Suspended", "Closed"}]
    /\ pending \in [Ops -> SUBSET Item]
    /\ queue \in [Ops -> Seq(Item)]
    /\ scheduled \in [Ops -> BOOLEAN]
    /\ ready \in Seq(Ops)
    /\ accepting \in BOOLEAN /\ cancelled \in BOOLEAN
    /\ at \in [Worker -> {"idle", "quantum", "popped", "running", "yield", "exit"}]
    /\ holds \in [Worker -> Ops \cup {None}]
    /\ count \in [Worker -> 0..Quantum]
    /\ item \in [Worker -> Item \cup {None}]

\* A session that was ever attached has operations; a worker between two tokens
\* holds none; and one that runs a callback has not used up its quantum.
Positions ==
    /\ \A s \in Session : state[s] # "None" => current[s] \in Ops
    /\ \A w \in Worker :
         /\ at[w] \in {"idle", "exit"} <=> holds[w] = None
         /\ at[w] \in {"popped", "running"} => count[w] < Quantum

Shaped == Shape /\ Positions

\* The pool was cancelled when the count of tokens was zero.
CancelledAtZero == cancelled => ~accepting /\ work = 0

IInv == Shaped /\ OneToken /\ QueuedIsScheduled /\ WorkCountsTokens /\ CancelledAtZero

-----------------------------------------------------------------------------
(* The two ends of a queue. *)

\* Append adds an element behind the others.
LEMMA AppendIs ==
    ASSUME NEW S, NEW q \in Seq(S), NEW x \in S
    PROVE  /\ Append(q, x) \in Seq(S) /\ Len(Append(q, x)) = Len(q) + 1
           /\ Len(q) \in Nat
           /\ \A i \in 1..Len(q) : Append(q, x)[i] = q[i]
           /\ Append(q, x)[Len(q) + 1] = x
  OBVIOUS

\* Tail shifts the elements behind the first.
LEMMA TailIs ==
    ASSUME NEW S, NEW q \in Seq(S), q # <<>>
    PROVE  /\ Tail(q) \in Seq(S) /\ Len(q) \in Nat \ {0} /\ Len(Tail(q)) = Len(q) - 1
           /\ \A i \in 1..(Len(q) - 1) : Tail(q)[i] = q[i + 1]
           /\ Head(q) = q[1] /\ Head(q) \in S
  OBVIOUS

\* Appended to a queue of none and taken off again, an item leaves none.
LEMMA TailOfOne ==
    ASSUME NEW S, NEW x \in S
    PROVE  Tail(Append(<<>>, x)) = <<>>
  OBVIOUS

-----------------------------------------------------------------------------
(* Types and positions. *)

\* enqueueHandler keeps types and positions, whether or not it accepts.
LEMMA EnqueueShaped ==
    ASSUME SchedulerAssumption, Shaped, NEW o \in Ops, NEW i \in Item, Deliver(o, i)
    PROVE  Shaped'
  <1>1. pending' \in [Ops -> SUBSET Item]
    BY DEF Deliver, Shaped, Shape
  <1>2. accepting' \in BOOLEAN
    BY Zenon DEF Deliver, EnqueueHandler, Enqueue, Refuse, After, Shaped, Shape, SchedulerAssumption
  <1>3. Append(queue[o], i) \in Seq(Item) /\ Append(queue[o], i) # <<>>
    <2>1. queue[o] \in Seq(Item)
      BY DEF Shaped, Shape
    <2>. QED  BY <2>1, AppendIs
  <1>4. Tail(Append(queue[o], i)) \in Seq(Item)
    BY <1>3, TailIs
  <1>5. queue' \in [Ops -> Seq(Item)]
    BY Zenon, <1>3, <1>4 DEF Deliver, EnqueueHandler, Enqueue, Refuse, Shaped, Shape
  <1>6. scheduled' \in [Ops -> BOOLEAN]
    BY Zenon DEF Deliver, EnqueueHandler, Enqueue, Refuse, Shaped, Shape
  <1>7. ready' \in Seq(Ops)
    <2>1. ready \in Seq(Ops) /\ Append(ready, o) \in Seq(Ops)
      BY AppendIs DEF Shaped, Shape
    <2>. QED  BY <2>1 DEF Deliver, EnqueueHandler, Enqueue, Refuse
  <1>8. UNCHANGED <<current, state, cancelled, workVars>>
    BY DEF Deliver, EnqueueHandler, Enqueue, Refuse
  <1>. QED
    BY <1>1, <1>2, <1>5, <1>6, <1>7, <1>8 DEF Shaped, Shape, Positions, workVars

\* Attaching, losing and ending a session and reading a message keep them too.
LEMMA SessionShaped ==
    ASSUME SchedulerAssumption, Shaped,
           NEW o \in Ops, NEW s \in Session,
           Attach(o) \/ Lose(o) \/ Read(o) \/ End(s)
    PROVE  Shaped'
  <1>. USE DEF Shaped, Shape, Positions, sessVars, schedVars, workVars
  <1>0. Item = {"Attached", "Lost", "Ended", "Message"} /\ <<>> \in Seq(Item)
    BY DEF Item, Life
  <1>1. CASE Attach(o)
    <2>1. pending' \in [Ops -> SUBSET Item]
      BY <1>0, <1>1 DEF Attach
    <2>2. queue' \in [Ops -> Seq(Item)]
      BY <1>0, <1>1 DEF Attach
    <2>3. /\ current' \in [Session -> Ops \cup {None}]
          /\ state' \in [Session -> {"None", "Active", "Suspended", "Closed"}]
          /\ \A t \in Session : state'[t] # "None" => current'[t] \in Ops
      BY <1>1 DEF Attach, SchedulerAssumption
    <2>. QED  BY <1>1, <2>1, <2>2, <2>3 DEF Attach
  <1>2. CASE Lose(o)
    <2>1. pending' \in [Ops -> SUBSET Item]
      BY <1>0, <1>2 DEF Lose
    <2>2. queue' \in [Ops -> Seq(Item)]
      BY <1>0, <1>2 DEF Lose
    <2>. QED  BY <1>2, <2>1, <2>2 DEF Lose, Current, SchedulerAssumption
  <1>3. CASE Read(o)
    <2>1. pending' \in [Ops -> SUBSET Item]
      BY <1>0, <1>3 DEF Read
    <2>. QED  BY <1>3, <2>1 DEF Read
  <1>4. CASE End(s)
    <2>0. current[s] \in Ops
      BY <1>4 DEF End
    <2>1. pending' \in [Ops -> SUBSET Item]
      BY <1>0, <1>4, <2>0 DEF End
    <2>2. queue' \in [Ops -> Seq(Item)]
      BY <1>0, <1>4, <2>0 DEF End
    <2>. QED  BY <1>4, <2>0, <2>1, <2>2 DEF End
  <1>. QED  BY <1>1, <1>2, <1>3, <1>4

\* So do the steps of a worker.
LEMMA WorkerShaped ==
    ASSUME SchedulerAssumption, Shaped, NEW w \in Worker, WorkerStep(w)
    PROVE  Shaped'
  <1>. USE DEF Shaped, Shape, Positions, sessVars, schedVars, workVars
  <1>1. CASE Take(w)
    <2>1. Head(ready) \in Ops /\ Tail(ready) \in Seq(Ops)
      BY <1>1, TailIs DEF Take
    <2>. QED  BY <1>1, <2>1 DEF Take, SchedulerAssumption
  <1>2. CASE Pop(w)
    <2>1. holds[w] \in Ops /\ queue[holds[w]] \in Seq(Item)
      BY Zenon, <1>2 DEF Pop
    <2>2. Head(queue[holds[w]]) \in Item /\ Tail(queue[holds[w]]) \in Seq(Item)
      BY <1>2, <2>1, TailIs DEF Pop
    <2>. QED  BY <1>2, <2>1, <2>2 DEF Pop, SchedulerAssumption
  <1>3. CASE Invoke(w)
    <2>1. count[w] + 1 \in 0..Quantum
      BY <1>3 DEF Invoke, SchedulerAssumption
    <2>2. CASE at' = [at EXCEPT ![w] = "running"] /\ UNCHANGED <<count, item>>
      BY <1>3, <2>2 DEF Invoke
    <2>3. CASE /\ at' = [at EXCEPT ![w] = "quantum"]
               /\ count' = [count EXCEPT ![w] = @ + 1]
               /\ item' = [item EXCEPT ![w] = None]
      BY <1>3, <2>1, <2>3 DEF Invoke
    <2>. QED  BY <1>3, <2>2, <2>3 DEF Invoke
  <1>4. CASE Return(w)
    <2>1. count[w] + 1 \in 0..Quantum
      BY <1>4 DEF Return, SchedulerAssumption
    <2>. QED  BY <1>4, <2>1 DEF Return, After, SchedulerAssumption
  <1>5. CASE Unschedule(w)
    BY Zenon, <1>5 DEF Unschedule
  <1>6. CASE Drained(w)
    BY <1>5, <1>6 DEF Drained
  <1>7. CASE Yield(w)
    BY Zenon, <1>5, <1>7 DEF Yield
  <1>8. CASE Send(w)
    <2>1. holds[w] \in Ops /\ ready \in Seq(Ops)
      BY Zenon, <1>8 DEF Send
    <2>2. Append(ready, holds[w]) \in Seq(Ops)
      BY <2>1, AppendIs
    <2>. QED  BY <1>8, <2>2 DEF Send
  <1>9. CASE Exit(w)
    BY <1>9 DEF Exit
  <1>. QED
    BY <1>1, <1>2, <1>3, <1>4, <1>6, <1>7, <1>8, <1>9 DEF WorkerStep

\* Every step keeps types and positions.
LEMMA ShapedStep ==
    ASSUME SchedulerAssumption, Shaped, [Next]_vars
    PROVE  Shaped'
  <1>1. CASE Close \/ Cancel
    BY Zenon, <1>1 DEF Close, Cancel, Shaped, Shape, Positions, sessVars, workVars
  <1>2. CASE UNCHANGED vars
    BY <1>2 DEF vars, sessVars, schedVars, workVars, Shaped, Shape, Positions
  <1>3. ASSUME NEW s \in Session, End(s) PROVE Shaped'
    <2>1. PICK o \in Ops : o = current[s]
      BY <1>3 DEF End, Shaped, Shape, Positions
    <2>. QED  BY <1>3, <2>1, SessionShaped
  <1>4. ASSUME NEW o \in Ops, Attach(o) \/ Lose(o) \/ Read(o) PROVE Shaped'
    <2>1. SessionOf[o] \in Session
      BY DEF SchedulerAssumption
    <2>. QED  BY <1>4, <2>1, SessionShaped
  <1>. QED
    BY <1>1, <1>2, <1>3, <1>4, EnqueueShaped, WorkerShaped DEF Next, Stopped

-----------------------------------------------------------------------------
(* Tokens. *)

\* What a step can do with a token: nothing, make one, hand it to a worker,
\* give it up, or send it back.
LEMMA TokenSteps ==
    ASSUME Shaped, [Next]_vars
    PROVE  \/ UNCHANGED <<ready, scheduled, holds, work>>
           \/ \E o \in Ops, i \in Item :
                Enqueue(o, i) /\ ~scheduled[o] /\ UNCHANGED holds
           \/ \E w \in Worker :
                Take(w) \/ Send(w) \/ (at[w] = "quantum" /\ Unschedule(w))
  <1>. USE DEF sessVars, schedVars, workVars
  <1>1. ASSUME NEW o \in Ops, NEW i \in Item, Deliver(o, i)
        PROVE  \/ UNCHANGED <<ready, scheduled, holds, work>>
               \/ Enqueue(o, i) /\ ~scheduled[o] /\ UNCHANGED holds
    <2>1. CASE Enqueue(o, i) /\ scheduled[o]
      BY <1>1, <2>1 DEF Deliver, Enqueue, Shaped, Shape
    <2>2. CASE Enqueue(o, i) /\ ~scheduled[o]
      BY <1>1, <2>2 DEF Deliver
    <2>3. CASE Refuse(o, i)
      BY <1>1, <2>3 DEF Deliver, Refuse
    <2>. QED  BY <1>1, <2>1, <2>2, <2>3 DEF Deliver, EnqueueHandler
  <1>2. ASSUME NEW o \in Ops, Attach(o) \/ Lose(o) \/ Read(o)
        PROVE  UNCHANGED <<ready, scheduled, holds, work>>
    BY <1>2 DEF Attach, Lose, Read
  <1>3. ASSUME NEW s \in Session, End(s)
        PROVE  UNCHANGED <<ready, scheduled, holds, work>>
    BY <1>3 DEF End
  <1>4. ASSUME NEW w \in Worker, WorkerStep(w)
        PROVE  \/ UNCHANGED <<ready, scheduled, holds, work>>
               \/ Take(w) \/ Send(w) \/ (at[w] = "quantum" /\ Unschedule(w))
    BY <1>4 DEF WorkerStep, Pop, Invoke, Return, Drained, Yield, Exit
  <1>5. CASE Close \/ Cancel \/ Stopped \/ UNCHANGED vars
    BY <1>5 DEF Close, Cancel, Stopped, vars
  <1>. QED  BY <1>1, <1>2, <1>3, <1>4, <1>5 DEF Next

\* A token made for a connection without one is the connection's only token.
LEMMA EnqueueToken ==
    ASSUME Shaped, OneToken, NEW o \in Ops, NEW i \in Item,
           Enqueue(o, i), ~scheduled[o], UNCHANGED holds
    PROVE  OneToken'
  <1>1. /\ ready' = Append(ready, o) /\ scheduled' = [scheduled EXCEPT ![o] = TRUE]
        /\ ready \in Seq(Ops) /\ scheduled \in [Ops -> BOOLEAN] /\ holds' = holds
    BY DEF Enqueue, Shaped, Shape
  <1>2. /\ Len(ready') = Len(ready) + 1 /\ Len(ready) \in Nat
        /\ \A k \in 1..Len(ready) : ready'[k] = ready[k]
        /\ ready'[Len(ready) + 1] = o
    BY <1>1, AppendIs
  <1>3. /\ \A k \in 1..Len(ready) : ready[k] # o
        /\ \A w \in Worker : holds[w] # o
    BY DEF OneToken
  <1>4. \A k, l \in 1..Len(ready') : ready'[k] = ready'[l] => k = l
    BY <1>2, <1>3 DEF OneToken
  <1>5. \A k \in 1..Len(ready'), w \in Worker : ready'[k] # holds'[w]
    BY <1>1, <1>2, <1>3 DEF OneToken
  <1>6. \A p \in Ops : scheduled'[p] <=>
          (\E k \in 1..Len(ready') : ready'[k] = p) \/ (\E w \in Worker : holds'[w] = p)
    <2>. SUFFICES ASSUME NEW p \in Ops
                  PROVE  scheduled'[p] <=> (\E k \in 1..Len(ready') : ready'[k] = p)
                                             \/ (\E w \in Worker : holds'[w] = p)
      OBVIOUS
    <2>1. (\E k \in 1..Len(ready') : ready'[k] = p) <=>
            p = o \/ (\E k \in 1..Len(ready) : ready[k] = p)
      BY <1>2
    <2>2. scheduled'[p] <=> p = o \/ scheduled[p]
      BY <1>1
    <2>. QED  BY <1>1, <2>1, <2>2 DEF OneToken
  <1>7. \A u, v \in Worker : holds'[u] = holds'[v] /\ holds'[u] # None => u = v
    BY <1>1 DEF OneToken
  <1>. QED  BY <1>4, <1>5, <1>6, <1>7, Zenon DEF OneToken

\* The worker takes the token out of the ready channel.
LEMMA TakeToken ==
    ASSUME SchedulerAssumption, Shaped, OneToken, NEW w \in Worker, Take(w)
    PROVE  OneToken'
  <1>1. /\ ready # <<>> /\ ready' = Tail(ready) /\ scheduled' = scheduled
        /\ holds' = [holds EXCEPT ![w] = Head(ready)]
        /\ ready \in Seq(Ops) /\ holds \in [Worker -> Ops \cup {None}] /\ holds[w] = None
    BY DEF Take, Shaped, Shape, Positions
  <1>2. /\ Len(ready) \in Nat \ {0} /\ Len(ready') = Len(ready) - 1
        /\ \A k \in 1..(Len(ready) - 1) : ready'[k] = ready[k + 1]
        /\ Head(ready) = ready[1] /\ Head(ready) \in Ops
    BY <1>1, TailIs
  <1>3. /\ holds'[w] = ready[1]
        /\ \A v \in Worker \ {w} : holds'[v] = holds[v]
    BY <1>1, <1>2
  <1>4. \A k, l \in 1..Len(ready') : ready'[k] = ready'[l] => k = l
    BY <1>2 DEF OneToken
  <1>5. \A u, v \in Worker : holds'[u] = holds'[v] /\ holds'[u] # None => u = v
    BY <1>2, <1>3 DEF OneToken
  <1>6. \A k \in 1..Len(ready'), v \in Worker : ready'[k] # holds'[v]
    BY <1>2, <1>3 DEF OneToken
  <1>7. \A p \in Ops :
          ((\E k \in 1..Len(ready') : ready'[k] = p) \/ (\E v \in Worker : holds'[v] = p))
          <=> ((\E k \in 1..Len(ready) : ready[k] = p) \/ (\E v \in Worker : holds[v] = p))
    <2>. SUFFICES ASSUME NEW p \in Ops
           PROVE ((\E k \in 1..Len(ready') : ready'[k] = p) \/ (\E v \in Worker : holds'[v] = p))
             <=> ((\E k \in 1..Len(ready) : ready[k] = p) \/ (\E v \in Worker : holds[v] = p))
      OBVIOUS
    <2>1. (\E k \in 1..Len(ready) : ready[k] = p) <=>
            p = ready[1] \/ (\E k \in 1..Len(ready') : ready'[k] = p)
      <3>1. ASSUME NEW k \in 1..Len(ready), ready[k] = p
            PROVE  p = ready[1] \/ (\E l \in 1..Len(ready') : ready'[l] = p)
        <4>1. CASE k = 1
          BY <3>1, <4>1
        <4>2. CASE k # 1
          <5>1. k - 1 \in 1..Len(ready') /\ ready'[k - 1] = p
            BY <1>2, <3>1, <4>2
          <5>. QED  BY <5>1
        <4>. QED  BY <4>1, <4>2
      <3>2. ASSUME NEW l \in 1..Len(ready'), ready'[l] = p
            PROVE  \E k \in 1..Len(ready) : ready[k] = p
        <4>1. l + 1 \in 1..Len(ready) /\ ready[l + 1] = p
          BY <1>2, <3>2
        <4>. QED  BY <4>1
      <3>3. 1 \in 1..Len(ready)
        BY <1>2
      <3>. QED  BY <3>1, <3>2, <3>3
    <2>2. (\E v \in Worker : holds'[v] = p) <=> p = ready[1] \/ (\E v \in Worker : holds[v] = p)
      BY <1>1, <1>3 DEF SchedulerAssumption
    <2>. QED  BY <2>1, <2>2
  <1>8. \A p \in Ops : scheduled'[p] <=>
          (\E k \in 1..Len(ready') : ready'[k] = p) \/ (\E v \in Worker : holds'[v] = p)
    BY <1>1, <1>7, Zenon DEF OneToken
  <1>. QED  BY <1>4, <1>5, <1>6, <1>8, Zenon DEF OneToken

\* The worker that holds the token gives it up.
LEMMA UnscheduleToken ==
    ASSUME SchedulerAssumption, Shaped, OneToken, NEW w \in Worker,
           at[w] = "quantum", Unschedule(w)
    PROVE  OneToken'
  <1>1. /\ holds[w] \in Ops /\ ready' = ready
        /\ scheduled' = [scheduled EXCEPT ![holds[w]] = FALSE]
        /\ holds' = [holds EXCEPT ![w] = None]
        /\ scheduled \in [Ops -> BOOLEAN] /\ holds \in [Worker -> Ops \cup {None}]
        /\ ready \in Seq(Ops)
    BY Zenon DEF Unschedule, Shaped, Shape, Positions
  <1>2. /\ holds'[w] = None /\ \A v \in Worker \ {w} : holds'[v] = holds[v]
        /\ None \notin Ops /\ \A k \in 1..Len(ready) : ready[k] \in Ops
    BY <1>1 DEF SchedulerAssumption
  <1>3. \A u, v \in Worker : holds'[u] = holds'[v] /\ holds'[u] # None => u = v
    BY <1>2 DEF OneToken
  <1>4. \A k \in 1..Len(ready'), v \in Worker : ready'[k] # holds'[v]
    BY <1>1, <1>2 DEF OneToken
  <1>5. \A p \in Ops : scheduled'[p] <=>
          (\E k \in 1..Len(ready') : ready'[k] = p) \/ (\E v \in Worker : holds'[v] = p)
    <2>1. \A p \in Ops : scheduled'[p] <=> p # holds[w] /\ scheduled[p]
      BY <1>1
    <2>2. \A p \in Ops : (\E v \in Worker : holds'[v] = p)
                           <=> p # holds[w] /\ (\E v \in Worker : holds[v] = p)
      BY <1>1, <1>2 DEF OneToken
    <2>3. \A k \in 1..Len(ready) : ready[k] # holds[w]
      BY DEF OneToken
    <2>. QED  BY <1>1, <2>1, <2>2, <2>3 DEF OneToken
  <1>6. \A k, l \in 1..Len(ready') : ready'[k] = ready'[l] => k = l
    BY <1>1 DEF OneToken
  <1>. QED  BY <1>3, <1>4, <1>5, <1>6, Zenon DEF OneToken

\* The worker puts the token back.
LEMMA SendToken ==
    ASSUME SchedulerAssumption, Shaped, OneToken, NEW w \in Worker, Send(w)
    PROVE  OneToken'
  <1>1. /\ holds[w] \in Ops /\ ready' = Append(ready, holds[w]) /\ scheduled' = scheduled
        /\ holds' = [holds EXCEPT ![w] = None]
        /\ holds \in [Worker -> Ops \cup {None}] /\ ready \in Seq(Ops)
    BY Zenon DEF Send, Shaped, Shape, Positions
  <1>2. /\ Len(ready') = Len(ready) + 1 /\ Len(ready) \in Nat
        /\ \A k \in 1..Len(ready) : ready'[k] = ready[k] /\ ready[k] \in Ops
        /\ ready'[Len(ready) + 1] = holds[w]
    BY <1>1, AppendIs
  <1>3. /\ holds'[w] = None /\ \A v \in Worker \ {w} : holds'[v] = holds[v]
        /\ None \notin Ops
    BY <1>1 DEF SchedulerAssumption
  <1>4. \A k, l \in 1..Len(ready') : ready'[k] = ready'[l] => k = l
    BY <1>2 DEF OneToken
  <1>5. \A u, v \in Worker : holds'[u] = holds'[v] /\ holds'[u] # None => u = v
    BY <1>3 DEF OneToken
  <1>6. \A k \in 1..Len(ready'), v \in Worker : ready'[k] # holds'[v]
    BY <1>1, <1>2, <1>3 DEF OneToken
  <1>7. \A p \in Ops : scheduled'[p] <=>
          (\E k \in 1..Len(ready') : ready'[k] = p) \/ (\E v \in Worker : holds'[v] = p)
    <2>1. \A p \in Ops : (\E k \in 1..Len(ready') : ready'[k] = p)
                           <=> p = holds[w] \/ (\E k \in 1..Len(ready) : ready[k] = p)
      BY <1>2
    <2>2. \A p \in Ops : (\E v \in Worker : holds'[v] = p)
                           <=> p # holds[w] /\ (\E v \in Worker : holds[v] = p)
      BY <1>1, <1>3 DEF OneToken
    <2>. QED  BY <1>1, <2>1, <2>2 DEF OneToken
  <1>. QED  BY <1>4, <1>5, <1>6, <1>7, Zenon DEF OneToken

\* Every step keeps one token per connection.
LEMMA OneTokenStep ==
    ASSUME SchedulerAssumption, Shaped, OneToken, [Next]_vars
    PROVE  OneToken'
  <1>1. CASE UNCHANGED <<ready, scheduled, holds, work>>
    BY <1>1 DEF OneToken
  <1>. QED
    BY <1>1, TokenSteps, EnqueueToken, TakeToken, UnscheduleToken, SendToken

-----------------------------------------------------------------------------
(* What is counted and what is queued. *)

\* Every step keeps the WaitGroup's count.
LEMMA CountStep ==
    ASSUME SchedulerAssumption, Shaped, OneToken, WorkCountsTokens, [Next]_vars
    PROVE  WorkCountsTokens'
  <1>. DEFINE Tokens == {o \in Ops : scheduled[o]}
  <1>1. IsFiniteSet(Tokens) /\ work = Cardinality(Tokens) /\ Cardinality(Tokens) \in Nat
    BY FS_Subset, FS_CardinalityType DEF SchedulerAssumption, WorkCountsTokens
  <1>2. CASE UNCHANGED <<ready, scheduled, holds, work>>
    BY <1>2 DEF WorkCountsTokens
  <1>3. ASSUME NEW o \in Ops, NEW i \in Item, Enqueue(o, i), ~scheduled[o]
        PROVE  WorkCountsTokens'
    <2>1. work' = work + 1 /\ scheduled' = [scheduled EXCEPT ![o] = TRUE]
      BY <1>3 DEF Enqueue
    <2>2. Tokens' = Tokens \cup {o} /\ o \notin Tokens
      BY <1>3, <2>1 DEF Shaped, Shape
    <2>. HIDE DEF Tokens
    <2>3. Cardinality(Tokens') = Cardinality(Tokens) + 1
      BY <1>1, <2>2, FS_AddElement
    <2>. QED  BY <1>1, <2>1, <2>3 DEF WorkCountsTokens, Tokens
  <1>4. ASSUME NEW w \in Worker, Take(w) \/ Send(w)
        PROVE  WorkCountsTokens'
    BY Zenon, <1>4 DEF Take, Send, WorkCountsTokens
  <1>5. ASSUME NEW w \in Worker, at[w] = "quantum", Unschedule(w)
        PROVE  WorkCountsTokens'
    <2>1. work' = work - 1 /\ scheduled' = [scheduled EXCEPT ![holds[w]] = FALSE]
      BY <1>5 DEF Unschedule
    <2>2. holds[w] \in Ops /\ scheduled[holds[w]]
      BY Zenon, <1>5 DEF Shaped, Shape, Positions, OneToken
    <2>3. Tokens' = Tokens \ {holds[w]} /\ holds[w] \in Tokens
      BY <2>1, <2>2 DEF Shaped, Shape
    <2>. HIDE DEF Tokens
    <2>4. Cardinality(Tokens') = Cardinality(Tokens) - 1
      BY Zenon, <1>1, <2>3, FS_RemoveElement
    <2>. QED  BY <1>1, <2>1, <2>4 DEF WorkCountsTokens, Tokens
  <1>. QED  BY <1>2, <1>3, <1>4, <1>5, TokenSteps

\* An item whose token is refused is taken back, and a token is given up only
\* with an empty queue: no step leaves work without a token.
LEMMA QueuedStep ==
    ASSUME SchedulerAssumption, Shaped, OneToken, QueuedIsScheduled, [Next]_vars
    PROVE  QueuedIsScheduled'
  <1>. USE DEF QueuedIsScheduled, Shaped, Shape, sessVars, schedVars, workVars
  <1>1. ASSUME NEW o \in Ops, NEW i \in Item, Deliver(o, i) PROVE QueuedIsScheduled'
    <2>1. CASE Enqueue(o, i)
      BY <2>1 DEF Enqueue
    <2>2. CASE Refuse(o, i) /\ scheduled[o]
      BY <2>2 DEF Refuse, After
    <2>3. CASE Refuse(o, i) /\ ~scheduled[o]
      <3>. SUFFICES ASSUME accepting' PROVE \A p \in Ops : queue'[p] # <<>> => scheduled'[p]
        OBVIOUS
      <3>1. accepting /\ queue[o] = <<>>
        BY <2>3 DEF Refuse, After
      <3>2. Tail(Append(queue[o], i)) = <<>>
        BY <3>1, TailOfOne
      <3>. QED  BY <2>3, <3>1, <3>2 DEF Refuse
    <2>. QED  BY <1>1, <2>1, <2>2, <2>3 DEF Deliver, EnqueueHandler
  <1>2. ASSUME NEW o \in Ops, Attach(o) \/ Lose(o) \/ Read(o) PROVE QueuedIsScheduled'
    <2>1. CASE Attach(o)
      BY <2>1 DEF Attach
    <2>2. CASE Lose(o)
      BY <2>2 DEF Lose
    <2>3. CASE Read(o)
      BY <2>3 DEF Read
    <2>. QED  BY <1>2, <2>1, <2>2, <2>3
  <1>3. ASSUME NEW s \in Session, End(s) PROVE QueuedIsScheduled'
    BY <1>3 DEF End
  <1>4. ASSUME NEW w \in Worker, Pop(w) PROVE QueuedIsScheduled'
    BY <1>4 DEF Pop
  <1>5. ASSUME NEW w \in Worker, Return(w) PROVE QueuedIsScheduled'
    BY <1>5 DEF Return, After
  <1>6. ASSUME NEW w \in Worker, Drained(w) PROVE QueuedIsScheduled'
    BY <1>6 DEF Drained, Unschedule
  <1>7. ASSUME NEW w \in Worker, Yield(w) PROVE QueuedIsScheduled'
    BY Zenon, <1>7 DEF Yield, Unschedule
  <1>8. ASSUME NEW w \in Worker, Take(w) \/ Invoke(w) \/ Send(w) \/ Exit(w)
        PROVE  QueuedIsScheduled'
    <2>1. UNCHANGED <<queue, scheduled, accepting>>
      BY <1>8 DEF Take, Invoke, Send, Exit
    <2>. QED  BY <2>1
  <1>9. CASE Close \/ Cancel \/ Stopped \/ UNCHANGED vars
    BY Zenon, <1>9 DEF Close, Cancel, Stopped, vars
  <1>. QED
    BY Zenon, <1>1, <1>2, <1>3, <1>4, <1>5, <1>6, <1>7, <1>8, <1>9 DEF Next, WorkerStep

\* After close has cancelled the pool no token is made, and none can be given up.
LEMMA CancelStep ==
    ASSUME SchedulerAssumption, Shaped, OneToken, WorkCountsTokens, CancelledAtZero, [Next]_vars
    PROVE  CancelledAtZero'
  <1>. USE DEF CancelledAtZero, Shaped, Shape, sessVars, schedVars, workVars
  <1>1. ASSUME NEW o \in Ops, NEW i \in Item, Deliver(o, i) PROVE CancelledAtZero'
    BY Zenon, <1>1 DEF Deliver, EnqueueHandler, Enqueue, Refuse, Accepted, TokenAccepted, After
  <1>2. ASSUME NEW o \in Ops, Attach(o) \/ Lose(o) \/ Read(o) PROVE CancelledAtZero'
    BY Zenon, <1>2 DEF Attach, Lose, Read
  <1>3. ASSUME NEW s \in Session, End(s) PROVE CancelledAtZero'
    BY <1>3 DEF End
  <1>4. ASSUME NEW w \in Worker, Take(w) \/ Pop(w) \/ Invoke(w) \/ Return(w) \/ Send(w) \/ Exit(w)
        PROVE  CancelledAtZero'
    BY Zenon, <1>4 DEF Take, Pop, Invoke, Return, After, Send, Exit
  <1>5. ASSUME NEW w \in Worker, at[w] = "quantum", Unschedule(w) PROVE CancelledAtZero'
    <2>1. holds[w] \in Ops /\ scheduled[holds[w]]
      BY Zenon, <1>5 DEF Positions, OneToken
    <2>2. work # 0
      <3>1. IsFiniteSet({o \in Ops : scheduled[o]})
        BY FS_Subset DEF SchedulerAssumption
      <3>2. {o \in Ops : scheduled[o]} # {}
        BY <2>1
      <3>. QED  BY Zenon, <3>1, <3>2, FS_EmptySet DEF WorkCountsTokens
    <2>. QED  BY <1>5, <2>2 DEF Unschedule
  <1>6. ASSUME NEW w \in Worker, Yield(w), accepting PROVE CancelledAtZero'
    BY Zenon, <1>6 DEF Yield
  <1>7. ASSUME NEW w \in Worker, WorkerStep(w) PROVE CancelledAtZero'
    BY Zenon, <1>4, <1>5, <1>6, <1>7 DEF WorkerStep, Drained, Yield
  <1>8. CASE Close \/ Cancel \/ Stopped \/ UNCHANGED vars
    BY Zenon, <1>8 DEF Close, Cancel, Stopped, vars
  <1>. QED  BY <1>1, <1>2, <1>3, <1>7, <1>8 DEF Next

-----------------------------------------------------------------------------
(* The invariant and what follows from it. *)

\* The invariant holds when the endpoint starts.
LEMMA InitInvariant == ASSUME SchedulerAssumption, Init PROVE IInv
  <1>1. Shaped
    <2>1. <<>> \in Seq(Item) /\ <<>> \in Seq(Ops) /\ 0 \in 0..Quantum
      BY DEF SchedulerAssumption
    <2>2. Shape
      BY Zenon, <2>1 DEF Init, Shape
    <2>3. Positions
      BY DEF Init, Positions
    <2>. QED  BY <2>2, <2>3 DEF Shaped
  <1>2. QueuedIsScheduled /\ CancelledAtZero
    BY DEF Init, QueuedIsScheduled, CancelledAtZero
  <1>3. {o \in Ops : scheduled[o]} = {}
    BY DEF Init
  <1>4. WorkCountsTokens
    BY Zenon, <1>3, FS_EmptySet DEF Init, WorkCountsTokens
  <1>5. OneToken
    <2>1. 1..Len(ready) = {}
      BY DEF Init
    <2>2. \A w \in Worker : holds[w] = None
      BY DEF Init
    <2>3. \A o \in Ops : ~scheduled[o] /\ o # None
      BY DEF Init, SchedulerAssumption
    <2>. QED  BY <2>1, <2>2, <2>3 DEF OneToken
  <1>. QED  BY <1>1, <1>2, <1>4, <1>5 DEF IInv

\* Every step keeps it.
LEMMA NextInvariant == ASSUME SchedulerAssumption, IInv, [Next]_vars PROVE IInv'
  BY ShapedStep, OneTokenStep, QueuedStep, CountStep, CancelStep DEF IInv

\* It holds always.
LEMMA Invariance == ASSUME SchedulerAssumption PROVE Spec => []IInv
  BY InitInvariant, NextInvariant, PTL DEF Spec

\* Every variable keeps its type: a quantum never runs more than Quantum
\* callbacks and the WaitGroup is never negative.
THEOREM TypeCorrect == ASSUME SchedulerAssumption PROVE Spec => []TypeOK
  <1>1. IInv => TypeOK
    <2>1. IsFiniteSet({o \in Ops : scheduled[o]})
      BY FS_Subset DEF SchedulerAssumption
    <2>2. Cardinality({o \in Ops : scheduled[o]}) \in Nat
      BY <2>1, FS_CardinalityType
    <2>. QED  BY <2>2 DEF IInv, Shaped, Shape, WorkCountsTokens, TypeOK
  <1>. QED  BY <1>1, Invariance, PTL

\* A connection never has two tokens, in the ready channel or with workers, so
\* its callbacks never overlap; and it has one exactly when handlerScheduled says
\* so.
THEOREM TokenIsUnique == ASSUME SchedulerAssumption PROVE Spec => []OneToken
  <1>1. IInv => OneToken
    BY DEF IInv
  <1>. QED  BY <1>1, Invariance, PTL

\* While the scheduler accepts tokens no work is left behind without one.
THEOREM NoWorkIsLost == ASSUME SchedulerAssumption PROVE Spec => []QueuedIsScheduled
  <1>1. IInv => QueuedIsScheduled
    BY DEF IInv
  <1>. QED  BY <1>1, Invariance, PTL

\* The WaitGroup counts the tokens.
THEOREM CountIsExact == ASSUME SchedulerAssumption PROVE Spec => []WorkCountsTokens
  <1>1. IInv => WorkCountsTokens
    BY DEF IInv
  <1>. QED  BY <1>1, Invariance, PTL

\* When close cancels the workers' context no callback is running, no worker
\* holds a token and the ready channel is empty, and it stays so.
THEOREM CancelIsQuiet == ASSUME SchedulerAssumption PROVE Spec => []CancelledIsQuiet
  <1>1. IInv => CancelledIsQuiet
    <2>. SUFFICES ASSUME IInv, cancelled
                  PROVE  ready = <<>> /\ \A w \in Worker : holds[w] = None
      BY DEF CancelledIsQuiet
    <2>1. IsFiniteSet({o \in Ops : scheduled[o]})
      BY FS_Subset DEF SchedulerAssumption
    <2>2. \A o \in Ops : ~scheduled[o]
      BY <2>1, FS_EmptySet DEF IInv, CancelledAtZero, WorkCountsTokens
    <2>3. \A w \in Worker : holds[w] = None
      BY <2>2 DEF IInv, Shaped, Shape, OneToken
    <2>4. ready = <<>>
      <3>1. ready \in Seq(Ops)
        BY DEF IInv, Shaped, Shape
      <3>2. ready # <<>> => 1 \in 1..Len(ready) /\ ready[1] \in Ops
        BY <3>1, TailIs
      <3>. QED  BY <2>2, <3>2 DEF IInv, OneToken
    <2>. QED  BY <2>3, <2>4
  <1>. QED  BY <1>1, Invariance, PTL
=============================================================================
