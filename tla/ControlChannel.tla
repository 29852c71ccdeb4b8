---------------------------- MODULE ControlChannel ----------------------------
(***************************************************************************)
(* The control stream of one connection, seen from both endpoints: the     *)
(* bounded queue and the writer goroutine of controlChannel, the control   *)
(* loop that answers the peer's frames, a client refreshing its            *)
(* credential and the closing handshake of Session.Close.  The goroutines  *)
(* of an endpoint that write frames (refresher, loop, closer) wait for the *)
(* writer to report what became of their frame.  The transport delivers in *)
(* order until one end goes down; the other end notices later, and loses   *)
(* what it has not read.                                                   *)
(***************************************************************************)
EXTENDS Integers, Sequences, FiniteSets, Functions

CONSTANT MaxFrames      \* ControlQueueMessages

ASSUME ControlAssumption == MaxFrames \in Nat \ {0}

End == {"client", "server"}
Peer(e) == IF e = "client" THEN "server" ELSE "client"
Op == {"refresh", "refresh_result", "close", "close_ack"}

VARIABLES
    state, code,    \* of the session at each end, with its terminal code
    emitted,        \* SessionEnded deliveries at each end
    queue,          \* frames waiting for the writer
    stopped,        \* stopWriter was called
    writer,         \* none, idle, exited, or the frame being written
    fate,           \* of the frame a goroutine waits for: none once written
    exhausted,      \* exhaustOnce fired
    wire,           \* frames on their way from each end
    down,           \* the connection is over at this end
    loop,           \* the control loop: none, reading, replying, acking, exited
    refresher,      \* the call of RefreshAuth: idle or waiting
    refreshReply,   \* nil, or whether the caller of the active refresh waits
    result,         \* a refresh result is in the caller's channel
    closer,         \* the call of Close: idle, start, waiting, gaveUp, acked, done
    closeAck        \* nil, open or closed

session == <<state, code, emitted>>
control == <<queue, stopped, writer, fate, exhausted, wire>>
refresh == <<refresher, refreshReply, result>>
closing == <<closer, closeAck>>
vars == <<session, control, down, loop, refresh, closing>>

Init ==
    /\ state = [e \in End |-> "active"] /\ code = [e \in End |-> "none"]
    /\ emitted = [e \in End |-> 0]
    /\ queue = [e \in End |-> <<>>] /\ stopped = [e \in End |-> FALSE]
    /\ writer = [e \in End |-> "none"]
    /\ fate = [e \in End |-> [op \in Op |-> "none"]]
    /\ exhausted = [e \in End |-> FALSE]
    /\ wire = [e \in End |-> <<>>]
    /\ down = [e \in End |-> FALSE]
    /\ loop = [e \in End |-> "none"]
    /\ refresher = "idle" /\ refreshReply = "nil" /\ result = FALSE
    /\ closer = [e \in End |-> "idle"] /\ closeAck = [e \in End |-> "nil"]

-------------------------------------------------------------------------------
(* Pieces of operations. *)

Over(e) == stopped[e] \/ down[e]         \* the writer's context is done

\* stopEpoch: the writer stops, and the queued frames fail
StopWriter(e) ==
    /\ stopped' = [stopped EXCEPT ![e] = TRUE]
    /\ queue' = [queue EXCEPT ![e] = <<>>]
    /\ fate' = [fate EXCEPT ![e] =
                  [op \in Op |-> IF op \in Range(queue[e]) THEN "err" ELSE @[op]]]

\* Fault: a session closed before is ended a second time.
EndSessionAgain(e, c) ==
    /\ state' = [state EXCEPT ![e] = "closed"]
    /\ code' = [code EXCEPT ![e] = c]
    /\ emitted' = [emitted EXCEPT ![e] = @ + 1]
    /\ StopWriter(e)

\* closeRemote, and for the caller that wins it stopEpoch and emitTerminal
EndSession(e, c) ==
    IF state[e] = "closed"
      THEN UNCHANGED <<session, stopped, queue, fate>>
      ELSE /\ state' = [state EXCEPT ![e] = "closed"]
           /\ code' = [code EXCEPT ![e] = c]
           /\ emitted' = [emitted EXCEPT ![e] = @ + 1]
           /\ StopWriter(e)

\* abortControl
Abort(e, c) == EndSession(e, c) /\ down' = [down EXCEPT ![e] = TRUE]

NoAbort == UNCHANGED <<session, stopped, down>>

\* controlChannel.write, with w the wire at the call.  A frame is refused
\* after stopWriter; it is written at once before startWriter; and it is
\* queued, or ends the session when the queue is full.
Refused(e, w) ==
    /\ stopped[e] \/ (writer[e] = "none" /\ down[e])
    /\ wire' = w
    /\ NoAbort
    /\ UNCHANGED <<queue, writer, fate, exhausted>>

Direct(e, op) ==
    /\ ~stopped[e] /\ writer[e] = "none" /\ ~down[e]
    /\ wire' = [wire EXCEPT ![e] = Append(@, op)]
    /\ NoAbort
    /\ UNCHANGED <<queue, writer, fate, exhausted>>

\* Fault: the limit of the queue is found exceeded one frame late.
QueuedLate(e, op, w) ==
    /\ ~stopped[e] /\ writer[e] # "none" /\ Len(queue[e]) <= MaxFrames
    /\ queue' = [queue EXCEPT ![e] = Append(@, op)]
    /\ fate' = [fate EXCEPT ![e][op] = "queued"]
    /\ wire' = w
    /\ NoAbort
    /\ UNCHANGED <<writer, exhausted>>

Queued(e, op, w) ==
    /\ ~stopped[e] /\ writer[e] # "none" /\ Len(queue[e]) < MaxFrames
    /\ queue' = [queue EXCEPT ![e] = Append(@, op)]
    /\ fate' = [fate EXCEPT ![e][op] = "queued"]
    /\ wire' = w
    /\ NoAbort
    /\ UNCHANGED <<writer, exhausted>>

Exhausted(e, w) ==
    /\ ~stopped[e] /\ writer[e] # "none" /\ Len(queue[e]) >= MaxFrames
    /\ exhausted' = [exhausted EXCEPT ![e] = TRUE]
    /\ IF exhausted[e] THEN NoAbort /\ UNCHANGED <<queue, fate>> ELSE Abort(e, "exhausted")
    /\ wire' = w
    /\ UNCHANGED writer

\* what the goroutine that wrote a frame learns of it, or gives up for
Written(e, op) == fate[e][op] = "none"
Failed(e, op) == fate[e][op] = "err" \/ (fate[e][op] = "queued" /\ Over(e))
Forget(e, op) == fate' = [fate EXCEPT ![e][op] = "none"]

-------------------------------------------------------------------------------
(* The writer goroutine. *)

\* startControl
StartControl(e) ==
    /\ loop[e] = "none"
    /\ loop' = [loop EXCEPT ![e] = "reading"]
    /\ writer' = [writer EXCEPT ![e] = IF stopped[e] THEN "none" ELSE "idle"]
    /\ UNCHANGED <<session, queue, stopped, fate, exhausted, wire, down, refresh, closing>>

Inform(e, op, f) ==
    fate' = [fate EXCEPT ![e][op] = IF @ = "queued" THEN f ELSE @]

WriterTakes(e) ==
    /\ writer[e] = "idle" /\ queue[e] # <<>>
    /\ queue' = [queue EXCEPT ![e] = Tail(@)]
    /\ writer' = [writer EXCEPT ![e] = IF Over(e) THEN "exited" ELSE Head(queue[e])]
    /\ IF Over(e) THEN Inform(e, Head(queue[e]), "err") ELSE UNCHANGED fate
    /\ UNCHANGED <<session, stopped, exhausted, wire, down, loop, refresh, closing>>

WriterWrites(e) ==
    /\ writer[e] \in Op
    /\ wire' = IF down[e] THEN wire ELSE [wire EXCEPT ![e] = Append(@, writer[e])]
    /\ Inform(e, writer[e], IF down[e] THEN "err" ELSE "none")
    /\ writer' = [writer EXCEPT ![e] = "idle"]
    /\ UNCHANGED <<session, queue, stopped, exhausted, down, loop, refresh, closing>>

\* failQueuedControls on the way out
WriterExits(e) ==
    /\ writer[e] = "idle" /\ queue[e] = <<>> /\ Over(e)
    /\ writer' = [writer EXCEPT ![e] = "exited"]
    /\ UNCHANGED <<session, queue, stopped, fate, exhausted, wire, down, loop, refresh, closing>>

-------------------------------------------------------------------------------
(* refresh, on the client; refreshMu admits one caller at a time. *)

\* a refresh that was given up keeps the next one out until its result comes
CallRefresh ==
    LET e == "client" IN
    /\ refresher = "idle" /\ state[e] = "active" /\ refreshReply = "nil"
    /\ \/ (Refused(e, wire) \/ Exhausted(e, wire)) /\ UNCHANGED <<refresher, refreshReply>>
       \/ /\ Direct(e, "refresh") \/ Queued(e, "refresh", wire)
          /\ refresher' = "waiting" /\ refreshReply' = "caller"
    /\ UNCHANGED <<loop, result, closing>>

\* clearRefresh
RefreshFailed ==
    /\ refresher = "waiting" /\ Failed("client", "refresh")
    /\ refresher' = "idle" /\ refreshReply' = "nil" /\ result' = FALSE
    /\ Forget("client", "refresh")
    /\ UNCHANGED <<session, queue, stopped, writer, exhausted, wire, down, loop, closing>>

RefreshReturns ==
    /\ refresher = "waiting" /\ result
    /\ refresher' = "idle" /\ result' = FALSE
    /\ UNCHANGED <<session, control, down, loop, refreshReply, closing>>

\* Fault: the refresh that is given up makes room for another one.
RefreshAbandonedClears ==
    /\ refresher = "waiting" /\ Written("client", "refresh")
    /\ refresher' = "idle" /\ result' = FALSE /\ refreshReply' = "nil"
    /\ UNCHANGED <<session, control, down, loop, closing>>

\* the caller's context or the epoch ends; the refresh stays active
RefreshAbandoned ==
    /\ refresher = "waiting" /\ Written("client", "refresh")
    /\ refresher' = "idle" /\ result' = FALSE
    /\ refreshReply' = IF refreshReply = "caller" THEN "gone" ELSE refreshReply
    /\ UNCHANGED <<session, control, down, loop, closing>>

-------------------------------------------------------------------------------
(* The control loop. *)

Arrived(e, op) ==
    /\ loop[e] = "reading" /\ ~down[e]
    /\ wire[Peer(e)] # <<>> /\ Head(wire[Peer(e)]) = op

Consume(e, op) == Arrived(e, op) /\ wire' = [wire EXCEPT ![Peer(e)] = Tail(@)]

\* the loop answers a frame; an answer it cannot queue ends it
Answer(e, op, label) ==
    LET rest == [wire EXCEPT ![Peer(e)] = Tail(@)] IN
    \/ (Refused(e, rest) \/ Exhausted(e, rest)) /\ loop' = [loop EXCEPT ![e] = "exited"]
    \/ Queued(e, op, rest) /\ loop' = [loop EXCEPT ![e] = label]

OnRefresh(e) ==
    /\ e = "server" /\ Arrived(e, "refresh")
    /\ Answer(e, "refresh_result", "replying")
    /\ UNCHANGED <<refresh, closing>>

\* Fault: the result of a refresh that was given up does not end it.
OnRefreshResultKeeps(e) ==
    /\ Consume(e, "refresh_result")
    /\ result' = (refreshReply = "caller")
    /\ refreshReply' = IF refreshReply = "caller" THEN "nil" ELSE refreshReply
    /\ NoAbort
    /\ UNCHANGED <<queue, fate, loop, writer, exhausted, refresher, closing>>

OnRefreshResult(e) ==
    /\ Consume(e, "refresh_result")
    /\ IF refreshReply = "nil"
         THEN /\ Abort(e, "violation")
              /\ loop' = [loop EXCEPT ![e] = "exited"]
              /\ UNCHANGED <<refreshReply, result>>
         ELSE /\ result' = (refreshReply = "caller")
              /\ refreshReply' = "nil"
              /\ NoAbort
              /\ UNCHANGED <<queue, fate, loop>>
    /\ UNCHANGED <<writer, exhausted, refresher, closing>>

OnClose(e) ==
    /\ Arrived(e, "close")
    /\ Answer(e, "close_ack", "acking")
    /\ UNCHANGED <<refresh, closing>>

\* an acknowledgement nobody waits for ends the connection
OnCloseAck(e) ==
    /\ Consume(e, "close_ack")
    /\ IF closeAck[e] = "nil"
         THEN Abort(e, "violation") /\ loop' = [loop EXCEPT ![e] = "exited"] /\ UNCHANGED closeAck
         ELSE closeAck' = [closeAck EXCEPT ![e] = "closed"] /\ NoAbort /\ UNCHANGED <<queue, fate, loop>>
    /\ UNCHANGED <<writer, exhausted, refresh, closer>>

LoopReplied(e) ==
    /\ loop[e] = "replying" /\ Written(e, "refresh_result")
    /\ loop' = [loop EXCEPT ![e] = "reading"]
    /\ UNCHANGED <<session, control, down, refresh, closing>>

\* Fault: the loop acknowledges a close and does not act on it.
LoopAckedOnly(e) ==
    /\ loop[e] = "acking" /\ Written(e, "close_ack")
    /\ loop' = [loop EXCEPT ![e] = "exited"]
    /\ UNCHANGED <<session, control, down, refresh, closing>>

\* the acknowledgement is written: the session ends here too
LoopAcked(e) ==
    /\ loop[e] = "acking" /\ Written(e, "close_ack")
    /\ loop' = [loop EXCEPT ![e] = "exited"]
    /\ EndSession(e, "peer")
    /\ UNCHANGED <<writer, exhausted, wire, down, refresh, closing>>

\* a frame the loop could not write, or a read error, ends it
LoopFailed(e) ==
    /\ \/ loop[e] = "replying" /\ Failed(e, "refresh_result")
       \/ loop[e] = "acking" /\ Failed(e, "close_ack")
       \/ loop[e] = "reading" /\ down[e]
    /\ loop' = [loop EXCEPT ![e] = "exited"]
    /\ UNCHANGED <<session, control, down, refresh, closing>>

-------------------------------------------------------------------------------
(* Session.Close and connectionOperations.close. *)

CallClose(e) ==
    /\ state[e] # "closed" /\ closer[e] = "idle"
    /\ state' = [state EXCEPT ![e] = "closed"]
    /\ code' = [code EXCEPT ![e] = "normal"]
    /\ closer' = [closer EXCEPT ![e] = "start"]
    /\ closeAck' = [closeAck EXCEPT ![e] = "open"]
    /\ UNCHANGED <<emitted, control, down, loop, refresh>>

WriteClose(e) ==
    /\ closer[e] = "start"
    /\ \/ (Refused(e, wire) \/ Exhausted(e, wire)) /\ closer' = [closer EXCEPT ![e] = "gaveUp"]
       \/ /\ Direct(e, "close") \/ Queued(e, "close", wire)
          /\ closer' = [closer EXCEPT ![e] = "waiting"]
    /\ UNCHANGED <<loop, refresh, closeAck>>

CloseFailed(e) ==
    /\ closer[e] = "waiting" /\ Failed(e, "close")
    /\ closer' = [closer EXCEPT ![e] = "gaveUp"]
    /\ Forget(e, "close")
    /\ UNCHANGED <<session, queue, stopped, writer, exhausted, wire, down, loop, refresh, closeAck>>

Acknowledged(e) ==
    /\ closer[e] = "waiting" /\ closeAck[e] = "closed"
    /\ closer' = [closer EXCEPT ![e] = "acked"]
    /\ UNCHANGED <<session, control, down, loop, refresh, closeAck>>

\* Fault: Close waits for the acknowledgement as long as the connection lives.
CloseTimeoutOnLoss(e) ==
    /\ closer[e] = "waiting" /\ Written(e, "close") /\ down[e]
    /\ closer' = [closer EXCEPT ![e] = "gaveUp"]
    /\ UNCHANGED <<session, control, down, loop, refresh, closeAck>>

\* CloseTimeout, or the caller's deadline
CloseTimeout(e) ==
    /\ closer[e] = "waiting" /\ Written(e, "close")
    /\ closer' = [closer EXCEPT ![e] = "gaveUp"]
    /\ UNCHANGED <<session, control, down, loop, refresh, closeAck>>

\* stopEpoch, emitTerminal, and the connection is closed
FinishClose(e) ==
    /\ closer[e] \in {"acked", "gaveUp"}
    /\ closeAck' = [closeAck EXCEPT ![e] = "nil"]
    /\ StopWriter(e)
    /\ emitted' = [emitted EXCEPT ![e] = @ + 1]
    /\ down' = [down EXCEPT ![e] = TRUE]
    /\ closer' = [closer EXCEPT ![e] = "done"]
    /\ UNCHANGED <<state, code, writer, exhausted, wire, loop, refresh>>

-------------------------------------------------------------------------------
(* The transport, and what its loss does to the session. *)

\* a loss at either end, or what the peer did to the connection
GoesDown(e) ==
    /\ ~down[e]
    /\ down' = [down EXCEPT ![e] = TRUE]
    /\ UNCHANGED <<session, control, loop, refresh, closing>>

\* suspendIfCurrent; a suspended session is closed by its grace timer
Suspend(e) ==
    /\ down[e] /\ state[e] = "active"
    /\ state' = [state EXCEPT ![e] = "suspended"]
    /\ StopWriter(e)
    /\ UNCHANGED <<code, emitted, writer, exhausted, wire, down, loop, refresh, closing>>

Done ==
    /\ \A e \in End : emitted[e] > 0 /\ loop[e] = "exited" /\ writer[e] \in {"none", "exited"}
    /\ refresher = "idle"
    /\ UNCHANGED vars

-------------------------------------------------------------------------------

Writer(e) == WriterTakes(e) \/ WriterWrites(e) \/ WriterExits(e)
Loop(e) ==
    \/ OnRefresh(e) \/ OnRefreshResult(e) \/ OnClose(e) \/ OnCloseAck(e)
    \/ LoopReplied(e) \/ LoopAcked(e) \/ LoopFailed(e)
Refresher == RefreshFailed \/ RefreshReturns
Closer(e) == WriteClose(e) \/ CloseFailed(e) \/ Acknowledged(e) \/ FinishClose(e)

Next ==
    \/ \E e \in End : StartControl(e) \/ Writer(e) \/ Loop(e) \/ Closer(e)
    \/ \E e \in End : CallClose(e) \/ CloseTimeout(e) \/ GoesDown(e) \/ Suspend(e)
    \/ CallRefresh \/ Refresher \/ RefreshAbandoned
    \/ Done

Spec == Init /\ [][Next]_vars

\* Goroutines run; timers fire; a connection closed at one end goes down at
\* the other; a grace timer closes a suspended session; a refresh ends with
\* the epoch.
FairSpec ==
    /\ Spec
    /\ \A e \in End :
         /\ WF_vars(StartControl(e)) /\ WF_vars(Writer(e)) /\ WF_vars(Loop(e))
         /\ WF_vars(Closer(e)) /\ WF_vars(CloseTimeout(e)) /\ WF_vars(Suspend(e))
         /\ WF_vars(down[Peer(e)] /\ GoesDown(e))
         /\ WF_vars(state[e] = "suspended" /\ CallClose(e))
    /\ WF_vars(Refresher) /\ WF_vars(state["client"] # "active" /\ RefreshAbandoned)

-------------------------------------------------------------------------------
(* Properties. *)

\* Every variable has its type, and the write queue is within its limit.
TypeOK ==
    /\ state \in [End -> {"active", "suspended", "closed"}]
    /\ code \in [End -> {"none", "normal", "peer", "exhausted", "violation"}]
    /\ emitted \in [End -> Nat]
    /\ queue \in [End -> Seq(Op)] /\ wire \in [End -> Seq(Op)]
    /\ \A e \in End : Len(queue[e]) <= MaxFrames
    /\ stopped \in [End -> BOOLEAN] /\ down \in [End -> BOOLEAN] /\ exhausted \in [End -> BOOLEAN]
    /\ writer \in [End -> Op \cup {"none", "idle", "exited"}]
    /\ fate \in [End -> [Op -> {"none", "queued", "err"}]]
    /\ loop \in [End -> {"none", "reading", "replying", "acking", "exited"}]
    /\ refresher \in {"idle", "waiting"}
    /\ refreshReply \in {"nil", "caller", "gone"} /\ result \in BOOLEAN
    /\ closer \in [End -> {"idle", "start", "waiting", "acked", "gaveUp", "done"}]
    /\ closeAck \in [End -> {"nil", "open", "closed"}]

\* Two correct endpoints never end a session for a protocol violation: a
\* result that comes after its caller gave up, and an acknowledgement that
\* comes after Close gave up, are not taken for unsolicited frames.
CorrectPeersNeverViolate == \A e \in End : code[e] # "violation"

\* SessionEnded is delivered once at each end, whoever of Close, the peer's
\* close and an exhausted control queue ends the session.
EndedOnce == \A e \in End : emitted[e] <= 1

\* A Close that reports an acknowledgement was read by the peer, whose session
\* is closed or being closed by its control loop.
AckIsEarned ==
    \A e \in End : closer[e] = "acked" =>
        state[Peer(e)] = "closed" \/ loop[Peer(e)] = "acking"

\* The three at once, with the types: what two correct ends may rely on while
\* close, close_ack, refresh and its late answer cross each other.
PeersAgree ==
    /\ TypeOK
    /\ CorrectPeersNeverViolate
    /\ EndedOnce
    /\ AckIsEarned

\* Closing one end ends both, by the handshake or, when the connection goes
\* down between its two frames, by the grace timer; and both deliver
\* SessionEnded.
CloseEndsBoth ==
    (\E e \in End : state[e] = "closed") ~> (\A e \in End : state[e] = "closed" /\ emitted[e] > 0)

\* RefreshAuth returns, also when its frame is still queued as the epoch ends,
\* and a refresh that was given up does not keep the session from refreshing
\* again for as long as the connection lives.
RefreshEnds ==
    refresher # "idle" \/ refreshReply = "gone" ~>
        refresher = "idle" /\ (refreshReply = "nil" \/ down["client"])
===============================================================================
