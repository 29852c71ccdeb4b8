----------------------------- MODULE BoundedQueue -----------------------------
(***************************************************************************)
(* internal/runtime.Queue with its reservations: a queue bounded in items  *)
(* and bytes, producers that push or reserve capacity and wait for it, and *)
(* consumers that wait for items.  All of them sleep on one channel of     *)
(* capacity one (notify), which every operation that may help a sleeper    *)
(* fills without blocking.  Each action is one critical section of q.mu,   *)
(* or the receive that ends a sleep.                                       *)
(*                                                                         *)
(* A definition commented "Fault:" is a plausible bug in the definition    *)
(* that follows it; no action uses it.                                     *)
(***************************************************************************)
EXTENDS Integers, Sequences, FiniteSets, SequencesExt

CONSTANTS
    Pusher,      \* goroutines that call Push
    Reserver,    \* goroutines that call Reserve, then Commit or Cancel
    Consumer,    \* goroutines that call WaitPop
    Key,         \* coalescing keys of replaceable items, not 0
    Size,        \* byte charges of items
    MaxBytes, MaxItems

QueueAssumption ==
    /\ MaxBytes \in Nat /\ MaxItems \in Nat
    /\ Size \subseteq 0..MaxBytes
    /\ 0 \notin Key

VARIABLES
    items,                         \* charged items, [bytes, key]
    bytes,                         \* the charge of items
    reservedBytes, reservedItems,  \* the charge of reservations
    closed,
    notify,                        \* the channel holds a token
    pc,                            \* idle, try, asleep or holding
    want                           \* the charge a producer asks for

counters == <<bytes, reservedBytes, reservedItems>>
vars == <<items, counters, closed, notify, pc, want>>

Producer == Pusher \cup Reserver
Process == Producer \cup Consumer
Item == [bytes : Size, key : Key \cup {0}]

Init ==
    /\ items = <<>>
    /\ bytes = 0 /\ reservedBytes = 0 /\ reservedItems = 0
    /\ closed = FALSE
    /\ notify = FALSE
    /\ pc = [p \in Process |-> "idle"]
    /\ want = [p \in Producer |-> 0]

-------------------------------------------------------------------------------
(* Pieces of operations. *)

Signal == notify' = TRUE

\* Fault: reservations are not counted against the queue's items.
FitsIgnoringReserved(b) ==
    /\ ~closed
    /\ Len(items) < MaxItems
    /\ b <= MaxBytes - bytes - reservedBytes

Fits(b) ==
    /\ ~closed
    /\ Len(items) + reservedItems < MaxItems
    /\ b <= MaxBytes - bytes - reservedBytes

Accept(item) ==
    /\ items' = Append(items, item)
    /\ bytes' = bytes + item.bytes
    /\ Signal

Plain(b) == [bytes |-> b, key |-> 0]

Goto(p, label) == pc' = [pc EXCEPT ![p] = label]

Charge(q) == FoldSeq(LAMBDA item, sum : item.bytes + sum, 0, q)

-------------------------------------------------------------------------------
(* Push and Reserve. *)

Call(p, b) ==
    /\ p \in Producer /\ pc[p] = "idle" /\ ~closed
    /\ Goto(p, "try")
    /\ want' = [want EXCEPT ![p] = b]
    /\ UNCHANGED <<items, counters, closed, notify>>

PushAccepted(p) ==
    /\ p \in Pusher /\ pc[p] = "try" /\ Fits(want[p])
    /\ Accept(Plain(want[p]))
    /\ Goto(p, "idle")
    /\ UNCHANGED <<reservedBytes, reservedItems, closed, want>>

Reserve(p) ==
    /\ p \in Reserver /\ pc[p] = "try" /\ Fits(want[p])
    /\ reservedItems' = reservedItems + 1
    /\ reservedBytes' = reservedBytes + want[p]
    /\ Goto(p, "holding")
    /\ UNCHANGED <<items, bytes, closed, notify, want>>

\* a failed attempt sleeps, or returns if the queue is closed
Refused(p) ==
    /\ p \in Producer /\ pc[p] = "try" /\ ~Fits(want[p])
    /\ Goto(p, IF closed THEN "idle" ELSE "asleep")
    /\ UNCHANGED <<items, counters, closed, notify, want>>

\* Fault: a released reservation keeps its bytes.
ReleaseItemOnly(p) ==
    /\ reservedItems' = reservedItems - 1
    /\ UNCHANGED reservedBytes

ReleaseReservation(p) ==
    /\ reservedItems' = reservedItems - 1
    /\ reservedBytes' = reservedBytes - want[p]

\* Fault: a reservation can be committed again.
CommitReusable(p) ==
    /\ pc[p] = "holding"
    /\ ReleaseReservation(p)
    /\ IF closed THEN Signal /\ UNCHANGED <<items, bytes>> ELSE Accept(Plain(want[p]))
    /\ UNCHANGED <<closed, pc, want>>

Commit(p) ==
    /\ pc[p] = "holding"
    /\ ReleaseReservation(p)
    /\ IF closed THEN Signal /\ UNCHANGED <<items, bytes>> ELSE Accept(Plain(want[p]))
    /\ Goto(p, "idle")
    /\ UNCHANGED <<closed, want>>

Cancel(p) ==
    /\ pc[p] = "holding"
    /\ ReleaseReservation(p)
    /\ Signal
    /\ Goto(p, "idle")
    /\ UNCHANGED <<items, bytes, closed, want>>

-------------------------------------------------------------------------------
(* WaitPop, and what all sleepers share. *)

CallWaitPop(p) ==
    /\ p \in Consumer /\ pc[p] = "idle" /\ ~closed
    /\ Goto(p, "try")
    /\ UNCHANGED <<items, counters, closed, notify, want>>

Pop(p) ==
    /\ p \in Consumer /\ pc[p] = "try" /\ items # <<>>
    /\ items' = Tail(items)
    /\ bytes' = bytes - Head(items).bytes
    /\ Signal
    /\ Goto(p, "idle")
    /\ UNCHANGED <<reservedBytes, reservedItems, closed, want>>

PopEmpty(p) ==
    /\ p \in Consumer /\ pc[p] = "try" /\ items = <<>>
    /\ Goto(p, IF closed THEN "idle" ELSE "asleep")
    /\ UNCHANGED <<items, counters, closed, notify, want>>

Wake(p) ==
    /\ pc[p] = "asleep" /\ notify
    /\ notify' = FALSE
    /\ Goto(p, "try")
    /\ UNCHANGED <<items, counters, closed, want>>

\* the caller's context ends; what it was waiting for is given up
ContextDone(p) ==
    /\ pc[p] = "asleep"
    /\ Goto(p, "idle")
    /\ UNCHANGED <<items, counters, closed, notify, want>>

-------------------------------------------------------------------------------
(* Operations that never wait. *)

TryPush(b) ==
    /\ Fits(b)
    /\ Accept(Plain(b))
    /\ UNCHANGED <<reservedBytes, reservedItems, closed, pc, want>>

Substitute(i, item) ==
    /\ items' = [items EXCEPT ![i] = item]
    /\ bytes' = bytes + item.bytes - items[i].bytes

\* Fault: a queued item with the same key is not looked for.
QueuedNever(k) == {}

Queued(k) == {i \in DOMAIN items : items[i].key = k}

ReplaceWith(item) ==
    /\ ~closed
    /\ \/ \E i \in Queued(item.key) :
             /\ \A j \in Queued(item.key) : i <= j
             /\ item.bytes <= MaxBytes - (bytes - items[i].bytes) - reservedBytes
             /\ Substitute(i, item)
             /\ Signal
       \/ /\ Queued(item.key) = {}
          /\ Fits(item.bytes)
          /\ Accept(item)
    /\ UNCHANGED <<reservedBytes, reservedItems, closed, pc, want>>

\* epoch cleanup: every item of some of the keys
RemoveItems(ks) ==
    LET kept == SelectSeq(items, LAMBDA item : item.key \notin ks) IN
    /\ kept # items
    /\ items' = kept
    /\ bytes' = Charge(kept)
    /\ Signal
    /\ UNCHANGED <<reservedBytes, reservedItems, closed, pc, want>>

Close ==
    /\ ~closed
    /\ closed' = TRUE
    /\ Signal
    /\ UNCHANGED <<items, counters, pc, want>>

\* a closed queue may be idle for ever
Stopped ==
    /\ closed
    /\ \A p \in Process : pc[p] = "idle"
    /\ UNCHANGED vars

-------------------------------------------------------------------------------

Attempt(p) ==
    PushAccepted(p) \/ Reserve(p) \/ Refused(p) \/ Pop(p) \/ PopEmpty(p)

Finish(p) == Commit(p) \/ Cancel(p)

Next ==
    \/ \E p \in Producer, b \in Size : Call(p, b)
    \/ \E p \in Consumer : CallWaitPop(p)
    \/ \E p \in Process : Attempt(p) \/ Wake(p) \/ ContextDone(p)
    \/ \E p \in Reserver : Finish(p)
    \/ \E b \in Size : TryPush(b)
    \/ \E k \in Key, b \in Size : ReplaceWith([bytes |-> b, key |-> k])
    \/ \E ks \in SUBSET (Key \cup {0}) : RemoveItems(ks)
    \/ Close \/ Stopped

Spec == Init /\ [][Next]_vars

-------------------------------------------------------------------------------
(* Properties. *)

\* Every variable has its type: no counter of the queue goes below zero, even
\* when a reservation is committed and cancelled by racing calls.
TypeOK ==
    /\ items \in Seq(Item)
    /\ bytes \in Nat /\ reservedBytes \in Nat /\ reservedItems \in Nat
    /\ closed \in BOOLEAN /\ notify \in BOOLEAN
    /\ pc \in [Process -> {"idle", "try", "asleep", "holding"}]
    /\ want \in [Producer -> Size \cup {0}]

\* Queued items and outstanding reservations together never exceed either
\* bound of the queue.
WithinLimits ==
    /\ Len(items) + reservedItems <= MaxItems
    /\ bytes + reservedBytes <= MaxBytes

Holders == {p \in Reserver : pc[p] = "holding"}

\* The three counters are exact: no charge is leaked or returned twice by any
\* mix of Pop, Remove, ReplaceWith, Commit, Cancel and Close.
ChargesAreExact ==
    /\ bytes = Charge(items)
    /\ reservedItems = Cardinality(Holders)
    /\ reservedBytes = Charge([i \in 1..Cardinality(Holders) |->
                                  Plain(want[SetToSeq(Holders)[i]])])

\* Sequenced updates are coalesced: a key is queued at most once.
OneItemPerKey ==
    \A i, j \in DOMAIN items :
        items[i].key = items[j].key /\ items[i].key # 0 => i = j
===============================================================================
