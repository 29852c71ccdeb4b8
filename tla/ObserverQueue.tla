----------------------------- MODULE ObserverQueue -----------------------------
(***************************************************************************)
(* The observer queue of an endpoint (observer.go) and its twin of the     *)
(* bootstrap (placement/observer.go): observations are summed per label in *)
(* a map, a ticker swaps the map out and offers its entries to a bounded   *)
(* channel, and one goroutine hands them to a host that may be slow.       *)
(*                                                                         *)
(* A label is the bucket a measured duration falls into.                   *)
(***************************************************************************)
EXTENDS Integers, Sequences, FiniteSetsExt, Functions

CONSTANTS
    Duration,           \* durations that are measured
    Doublings,          \* the bounds double so many times: 19 in the code
    Second,             \* the last bound
    Capacity,           \* of the channel
    MaxSeen             \* bound on the observations made

ObserverAssumption ==
    /\ Duration \subseteq Nat /\ Doublings \in Nat /\ Capacity \in Nat \ {0}
    /\ Second > 2 ^ Doublings

Overflow == Second + 1

Bound == {2 ^ i : i \in 0..Doublings}

Label == Bound \cup {Second, Overflow}

VARIABLES
    seen,               \* what was observed, by the bound it belongs to: ghost
    pending,            \* the map: a sum per label
    flusher, batch,     \* the ticker goroutine, and the map it swapped out
    queue,              \* the channel
    host, told,         \* the delivery goroutine, and what the host was told
    lost, dropped,      \* what did not fit: ghost, and the counter
    canceled

flushVars == <<flusher, batch, lost, dropped>>

hostVars == <<host, told>>

vars == <<seen, pending, flusher, batch, queue, host, told, lost, dropped, canceled>>

Nothing == [l \in Label |-> 0]

Init ==
    /\ seen = Nothing /\ pending = Nothing /\ batch = Nothing
    /\ told = Nothing /\ lost = Nothing /\ dropped = 0
    /\ flusher = "wait" /\ host = <<"wait">> /\ queue = <<>>
    /\ canceled = FALSE

-------------------------------------------------------------------------------

\* the loop of histogramKind
Bucket(d) ==
    LET after[b \in Bound] ==
          IF d <= b THEN b
          ELSE IF 2 * b \in Bound THEN after[2 * b]
          ELSE IF d <= Second THEN Second ELSE Overflow
    IN after[1]

\* Observe, on the gameplay path: it waits for nobody
Observe(d) ==
    /\ FoldFunction(+, 0, seen) < MaxSeen
    /\ seen' = [seen EXCEPT ![Min({l \in Label : d <= l \/ l = Overflow})] = @ + 1]
    /\ pending' = [pending EXCEPT ![Bucket(d)] = @ + 1]
    /\ UNCHANGED <<flushVars, queue, hostVars, canceled>>

\* Fault: the map is read here and cleared when the batch was offered.
SwapCopying ==
    /\ flusher = "wait"
    /\ flusher' = "offer" /\ batch' = pending
    /\ UNCHANGED <<seen, pending, queue, hostVars, lost, dropped, canceled>>

\* flushOnce under the lock
Swap ==
    /\ flusher = "wait"
    /\ flusher' = "offer"
    /\ batch' = pending /\ pending' = Nothing
    /\ UNCHANGED <<seen, queue, hostVars, lost, dropped, canceled>>

\* one entry of the map, in any order
Offer(l) ==
    /\ flusher = "offer" /\ batch[l] > 0
    /\ batch' = [batch EXCEPT ![l] = 0]
    /\ IF Len(queue) < Capacity
         THEN queue' = Append(queue, <<l, batch[l]>>) /\ UNCHANGED <<lost, dropped>>
         ELSE /\ lost' = [lost EXCEPT ![l] = @ + batch[l]]
              /\ dropped' = dropped + 1 /\ UNCHANGED queue
    /\ UNCHANGED <<seen, pending, flusher, hostVars, canceled>>

Offered ==
    /\ flusher = "offer" /\ batch = Nothing
    /\ flusher' = "wait"
    /\ UNCHANGED <<seen, pending, batch, queue, hostVars, lost, dropped, canceled>>

\* select takes either branch when both are ready
FlushEnds ==
    /\ flusher = "wait" /\ canceled
    /\ flusher' = "done"
    /\ UNCHANGED <<seen, pending, batch, queue, hostVars, lost, dropped, canceled>>

Deliver ==
    /\ host = <<"wait">> /\ queue # <<>>
    /\ host' = <<"observe", Head(queue)>> /\ queue' = Tail(queue)
    /\ UNCHANGED <<seen, pending, flushVars, told, canceled>>

\* the host's Observe returns
Delivered ==
    /\ host[1] = "observe"
    /\ told' = [told EXCEPT ![host[2][1]] = @ + host[2][2]]
    /\ host' = <<"wait">>
    /\ UNCHANGED <<seen, pending, flushVars, queue, canceled>>

DeliveryEnds ==
    /\ host = <<"wait">> /\ canceled
    /\ host' = <<"done">>
    /\ UNCHANGED <<seen, pending, flushVars, queue, told, canceled>>

\* Close, which does not wait for the two goroutines
Close ==
    /\ ~canceled
    /\ canceled' = TRUE
    /\ UNCHANGED <<seen, pending, flushVars, queue, hostVars>>

Next ==
    \/ \E d \in Duration : Observe(d)
    \/ \E l \in Label : Offer(l)
    \/ Swap \/ Offered \/ FlushEnds
    \/ Deliver \/ Delivered \/ DeliveryEnds \/ Close

Spec == Init /\ [][Next]_vars

-------------------------------------------------------------------------------
(* Properties. *)

Waiting(l) ==
    LET sent == IF host[1] = "observe" THEN Append(queue, host[2]) ELSE queue
    IN MapThenSumSet(LAMBDA i : IF sent[i][1] = l THEN sent[i][2] ELSE 0, DOMAIN sent)

\* Every observation is counted once, under the smallest bound that holds it:
\* it is in the map, in the batch, in the channel, with the host, or it was lost
\* to a full channel and the counter of drops moved.  Observations made while a
\* batch is offered are not overwritten by it.
ObservationsAccounted ==
    /\ \A l \in Label :
         seen[l] = pending[l] + batch[l] + Waiting(l) + told[l] + lost[l]
    /\ dropped <= FoldFunction(+, 0, lost)
    /\ dropped = 0 => lost = Nothing
================================================================================
