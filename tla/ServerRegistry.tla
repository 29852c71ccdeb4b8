---------------------------- MODULE ServerRegistry -----------------------------
(***************************************************************************)
(* The server endpoint around its sessions: the accept loop and its count  *)
(* of pending handshakes, admission under groupMu and mu, the sessions     *)
(* map, the members of a group, the cache of terminated ids, Drain with    *)
(* its one-slot changed channel, Revoke and CloseGroup, the timers, and    *)
(* the shutdown that ends Serve.                                           *)
(*                                                                         *)
(* A handler is one accepted connection and names the session it may       *)
(* create.  Resumption is the subject of ServerSession; here a session     *)
(* that loses its connection is Suspended until a timer closes it.         *)
(*                                                                         *)
(* A definition commented "Fault:" is a plausible bug in the definition    *)
(* that follows it; no action uses it.                                     *)
(***************************************************************************)
EXTENDS Integers, FiniteSets, Sequences, Functions

CONSTANTS
    Handler,      \* connections that may be accepted
    Grouped,      \* those whose hello names the group
    Drainer,      \* calls of Drain
    Worker,       \* timer callbacks and calls of Revoke that may run together
    MaxSessions,  \* limits.MaxSessions
    MaxPending    \* limits.MaxPendingHandshakes

ASSUME RegistryAssumption ==
    /\ IsFiniteSet(Handler) /\ Grouped \subseteq Handler
    /\ Drainer \cap Worker = {} /\ {"serve", "group"} \cap (Drainer \cup Worker) = {}
    /\ MaxSessions \in Nat \ {0} /\ MaxPending \in Nat \ {0}

VARIABLES
    pc,          \* where each handler stands
    alive,       \* its connection's context is not done
    state,       \* its sessionRecord's state, None before it exists
    pending, draining, changed, sessions,   \* serverEndpoint
    terminals,   \* ids in the terminal cache, oldest first
    groupClosed, members,                   \* groupState
    todo, target, step,   \* each closer: sessions to close, the one it is at
    drain,       \* where each Drain stands
    serve        \* where Serve stands

handlerVars == <<pc, alive>>
serverVars  == <<pending, draining, changed, sessions, terminals>>
groupVars   == <<groupClosed, members>>
closerVars  == <<todo, target, step>>
vars == <<handlerVars, state, serverVars, groupVars, closerVars, drain, serve>>

\* goroutines that close sessions one after another
Closer == Drainer \cup Worker \cup {"serve", "group"}

NoSession == "none"
Cap == 2 * MaxSessions

Init ==
    /\ pc = [h \in Handler |-> "new"]
    /\ alive = [h \in Handler |-> FALSE]
    /\ state = [h \in Handler |-> "None"]
    /\ pending = 0 /\ draining = FALSE /\ changed = FALSE
    /\ sessions = {} /\ terminals = <<>>
    /\ groupClosed = FALSE /\ members = {}
    /\ todo = [c \in Closer |-> {}]
    /\ target = [c \in Closer |-> NoSession]
    /\ step = [c \in Closer |-> "idle"]
    /\ drain = [d \in Drainer |-> "off"]
    /\ serve = "accepting"

--------------------------------------------------------------------------------
(* The accept loop and handleConnection. *)

Goto(h, label) == pc' = [pc EXCEPT ![h] = label]

\* past the rate limiter; the pending bound is checked and counted under mu
Accept(h) ==
    /\ serve = "accepting" /\ pc[h] = "new"
    /\ \/ /\ pending < MaxPending
          /\ pending' = pending + 1
          /\ alive' = [alive EXCEPT ![h] = TRUE]
          /\ Goto(h, "hello")
       \/ /\ pending >= MaxPending
          /\ Goto(h, "done")
          /\ UNCHANGED <<pending, alive>>
    /\ UNCHANGED <<state, draining, changed, sessions, terminals, groupVars,
                   closerVars, drain, serve>>

\* authenticated: finishPending
Authenticated(h) ==
    /\ pc[h] = "hello"
    /\ pending' = pending - 1
    /\ Goto(h, "admit")
    /\ UNCHANGED <<alive, state, draining, changed, sessions, terminals, groupVars,
                   closerVars, drain, serve>>

\* Fault: a refused handshake stays counted.
RefuseKeepsPending(h) ==
    /\ pc[h] \in {"hello", "admit"}
    /\ Goto(h, "done")
    /\ alive' = [alive EXCEPT ![h] = FALSE]
    /\ UNCHANGED <<state, serverVars, groupVars, closerVars, drain, serve>>

\* a bad or late hello, a refused credential or ticket, or a condition of
\* MayAdmit that does not hold; the deferred finishPending runs once
Refuse(h) ==
    /\ pc[h] \in {"hello", "admit"}
    /\ pending' = IF pc[h] = "hello" THEN pending - 1 ELSE pending
    /\ Goto(h, "done")
    /\ alive' = [alive EXCEPT ![h] = FALSE]
    /\ UNCHANGED <<state, draining, changed, sessions, terminals, groupVars,
                   closerVars, drain, serve>>

\* Fault: the draining flag is not looked at.
MayAdmitDraining(h) ==
    /\ h \in Grouped => ~groupClosed
    /\ Cardinality(sessions) < MaxSessions

\* Fault: one session too many is admitted.
MayAdmitOneMore(h) ==
    /\ h \in Grouped => ~groupClosed
    /\ ~draining /\ Cardinality(sessions) <= MaxSessions

MayAdmit(h) ==
    /\ h \in Grouped => ~groupClosed
    /\ ~draining /\ Cardinality(sessions) < MaxSessions

\* Fault: the session joins the map but not its group.
JoinNothing(h) == UNCHANGED members

JoinGroup(h) == members' = IF h \in Grouped THEN members \cup {h} ELSE members

\* registration, under groupMu and mu; then the expiry timer and WELCOME
Admit(h) ==
    /\ pc[h] = "admit" /\ MayAdmit(h)
    /\ state' = [state EXCEPT ![h] = "Active"]
    /\ sessions' = sessions \cup {h}
    /\ changed' = TRUE
    /\ JoinGroup(h)
    /\ Goto(h, "serving")
    /\ UNCHANGED <<alive, pending, draining, terminals, groupClosed, closerVars,
                   drain, serve>>

\* finishConnection: suspendIfCurrent and armGrace
Suspend(h) ==
    /\ pc[h] = "serving" /\ ~alive[h] /\ state[h] = "Active"
    /\ state' = [state EXCEPT ![h] = "Suspended"]
    /\ Goto(h, "done")
    /\ UNCHANGED <<alive, serverVars, groupVars, closerVars, drain, serve>>

\* ... or removeSession of a closed session
StartRemoval(h) ==
    /\ pc[h] = "serving" /\ ~alive[h] /\ state[h] = "Closed"
    /\ Goto(h, "unlink")
    /\ UNCHANGED <<alive, state, serverVars, groupVars, closerVars, drain, serve>>

--------------------------------------------------------------------------------
(* removeSession, by a closer or by the session's own handler. *)

\* recordTerminalLocked, which makes room first
Record(h) == Append(IF Len(terminals) >= Cap THEN Tail(terminals) ELSE terminals, h)

\* Fault: Drain is not told.
UnmapQuietly(h) ==
    IF h \in sessions
    THEN /\ sessions' = sessions \ {h}
         /\ terminals' = Record(h)
         /\ UNCHANGED changed
    ELSE UNCHANGED <<sessions, terminals, changed>>

\* Fault: a session that is already gone is removed again.
UnmapAgain(h) ==
    /\ sessions' = sessions \ {h}
    /\ terminals' = Record(h)
    /\ changed' = TRUE

\* the mu section: once per session
Unmap(h) ==
    IF h \in sessions
    THEN /\ sessions' = sessions \ {h}
         /\ terminals' = Record(h)
         /\ changed' = TRUE
    ELSE UNCHANGED <<sessions, terminals, changed>>

\* the groupMu section
HandlerUnlinks(h) ==
    /\ pc[h] = "unlink"
    /\ members' = members \ {h}
    /\ Goto(h, "unmap")
    /\ UNCHANGED <<alive, state, serverVars, groupClosed, closerVars, drain, serve>>

HandlerUnmaps(h) ==
    /\ pc[h] = "unmap"
    /\ Unmap(h)
    /\ Goto(h, "done")
    /\ UNCHANGED <<alive, state, pending, draining, groupVars, closerVars, drain,
                   serve>>

\* session.Close: the state is committed and the connection closed
CloseNext(c, h) ==
    /\ step[c] = "idle" /\ h \in todo[c]
    /\ todo' = [todo EXCEPT ![c] = @ \ {h}]
    /\ target' = [target EXCEPT ![c] = h]
    /\ step' = [step EXCEPT ![c] = "unlink"]
    /\ state' = [state EXCEPT ![h] = "Closed"]
    /\ alive' = [alive EXCEPT ![h] = FALSE]
    /\ UNCHANGED <<pc, serverVars, groupVars, drain, serve>>

CloserUnlinks(c) ==
    /\ step[c] = "unlink"
    /\ members' = members \ {target[c]}
    /\ step' = [step EXCEPT ![c] = "unmap"]
    /\ UNCHANGED <<handlerVars, state, serverVars, groupClosed, todo, target, drain, serve>>

CloserUnmaps(c) ==
    /\ step[c] = "unmap"
    /\ Unmap(target[c])
    /\ target' = [target EXCEPT ![c] = NoSession]
    /\ step' = [step EXCEPT ![c] = "idle"]
    /\ UNCHANGED <<handlerVars, state, pending, draining, groupVars, todo, drain, serve>>

Free(c) == step[c] = "idle" /\ todo[c] = {}

--------------------------------------------------------------------------------
(* What closes sessions. *)

\* Session.Close by the application or by a close frame
SessionCloses(h) ==
    /\ state[h] \in {"Active", "Suspended"}
    /\ state' = [state EXCEPT ![h] = "Closed"]
    /\ alive' = [alive EXCEPT ![h] = FALSE]
    /\ UNCHANGED <<pc, serverVars, groupVars, closerVars, drain, serve>>

\* the expiry or grace timer of a session, or Revoke, which finds the sessions
\* of one subject under mu
StartClosing(w) ==
    /\ Free(w)
    /\ \E some \in SUBSET sessions : todo' = [todo EXCEPT ![w] = some]
    /\ UNCHANGED <<handlerVars, state, serverVars, groupVars, target, step, drain, serve>>

\* CloseGroup up to the commit
CloseGroup ==
    /\ Free("group")
    /\ groupClosed' = TRUE
    /\ todo' = [todo EXCEPT !["group"] = members]
    /\ UNCHANGED <<handlerVars, state, serverVars, members, target, step, drain, serve>>

StartDrain(d) ==
    /\ drain[d] = "off"
    /\ draining' = TRUE
    /\ drain' = [drain EXCEPT ![d] = "check"]
    /\ UNCHANGED <<handlerVars, state, pending, changed, sessions, terminals, groupVars,
                   closerVars, serve>>

CheckDrained(d) ==
    /\ drain[d] = "check"
    /\ drain' = [drain EXCEPT ![d] = IF sessions = {} THEN "done" ELSE "wait"]
    /\ UNCHANGED <<handlerVars, state, serverVars, groupVars, closerVars, serve>>

\* a receive on changed takes the only token
Changed(d) ==
    /\ drain[d] = "wait" /\ changed
    /\ changed' = FALSE
    /\ drain' = [drain EXCEPT ![d] = "check"]
    /\ UNCHANGED <<handlerVars, state, pending, draining, sessions, terminals, groupVars,
                   closerVars, serve>>

\* the context's deadline: the rest is closed with ServerDraining
DrainDeadline(d) ==
    /\ drain[d] = "wait"
    /\ todo' = [todo EXCEPT ![d] = sessions]
    /\ drain' = [drain EXCEPT ![d] = "closing"]
    /\ UNCHANGED <<handlerVars, state, serverVars, groupVars, target, step, serve>>

DrainReturns(d) ==
    /\ drain[d] = "closing" /\ Free(d)
    /\ drain' = [drain EXCEPT ![d] = "done"]
    /\ UNCHANGED <<handlerVars, state, serverVars, groupVars, closerVars, serve>>

--------------------------------------------------------------------------------
(* The deferred part of Serve. *)

\* the context ends: no more connections, and the sessions of this moment
StopServing ==
    /\ serve = "accepting"
    /\ serve' = "closing"
    /\ todo' = [todo EXCEPT !["serve"] = sessions]
    /\ UNCHANGED <<handlerVars, state, serverVars, groupVars, target, step, drain>>

\* Fault: the packet socket is left open.
ClosePacketNot ==
    /\ serve = "closing" /\ Free("serve")
    /\ serve' = "waiting"
    /\ UNCHANGED <<handlerVars, state, serverVars, groupVars, closerVars, drain>>

\* packet.Close ends every connection
ClosePacket ==
    /\ serve = "closing" /\ Free("serve")
    /\ serve' = "waiting"
    /\ alive' = [h \in Handler |-> FALSE]
    /\ UNCHANGED <<pc, state, serverVars, groupVars, closerVars, drain>>

\* Fault: Serve does not wait for its handlers.
ServedEarly ==
    /\ serve = "waiting"
    /\ serve' = "returned"
    /\ UNCHANGED <<handlerVars, state, serverVars, groupVars, closerVars, drain>>

\* workers.Wait, then the timers of the caches are stopped
Served ==
    /\ serve = "waiting"
    /\ \A h \in Handler : pc[h] \in {"new", "done"}
    /\ serve' = "returned"
    /\ UNCHANGED <<handlerVars, state, serverVars, groupVars, closerVars, drain>>

--------------------------------------------------------------------------------
(* The network and the clock. *)

Disconnect(h) ==
    /\ alive[h]
    /\ alive' = [alive EXCEPT ![h] = FALSE]
    /\ UNCHANGED <<pc, state, serverVars, groupVars, closerVars, drain, serve>>

\* expireTerminalsLocked, by its timer or by the next look at the cache
ExpireTerminal ==
    /\ terminals # <<>>
    /\ terminals' = Tail(terminals)
    /\ UNCHANGED <<handlerVars, state, pending, draining, changed, sessions, groupVars,
                   closerVars, drain, serve>>

Handles(h) ==
    \/ Authenticated(h) \/ Refuse(h) \/ Admit(h)
    \/ Suspend(h) \/ StartRemoval(h) \/ HandlerUnlinks(h) \/ HandlerUnmaps(h)

Closes(c) ==
    \/ \E h \in Handler : CloseNext(c, h)
    \/ CloserUnlinks(c) \/ CloserUnmaps(c)

Drains(d) ==
    \/ StartDrain(d) \/ CheckDrained(d) \/ Changed(d) \/ DrainDeadline(d) \/ DrainReturns(d)

Next ==
    \/ \E h \in Handler : Accept(h) \/ Handles(h) \/ SessionCloses(h) \/ Disconnect(h)
    \/ \E c \in Closer : Closes(c)
    \/ \E w \in Worker : StartClosing(w)
    \/ CloseGroup
    \/ \E d \in Drainer : Drains(d)
    \/ StopServing \/ ClosePacket \/ Served
    \/ ExpireTerminal

\* goroutines run, and a handshake is over by its timeout
Fairness ==
    /\ \A h \in Handler : WF_vars(Handles(h))
    /\ \A c \in Closer : WF_vars(Closes(c))
    /\ \A d \in Drainer : WF_vars(CheckDrained(d) \/ Changed(d) \/ DrainReturns(d))
    /\ WF_vars(ClosePacket) /\ WF_vars(Served)

Spec == Init /\ [][Next]_vars /\ Fairness

--------------------------------------------------------------------------------
(* Properties. *)

\* Every variable has its type; the sessions map and the terminal cache stay
\* within MaxSessions and twice MaxSessions.
TypeOK ==
    /\ pc \in [Handler -> {"new", "hello", "admit", "serving", "unlink", "unmap", "done"}]
    /\ alive \in [Handler -> BOOLEAN]
    /\ state \in [Handler -> {"None", "Active", "Suspended", "Closed"}]
    /\ pending \in 0..MaxPending /\ draining \in BOOLEAN /\ changed \in BOOLEAN
    /\ sessions \subseteq Handler /\ Cardinality(sessions) <= MaxSessions
    /\ terminals \in Seq(Handler) /\ Len(terminals) <= Cap
    /\ groupClosed \in BOOLEAN /\ members \subseteq Handler
    /\ todo \in [Closer -> SUBSET Handler]
    /\ target \in [Closer -> Handler \cup {NoSession}]
    /\ step \in [Closer -> {"idle", "unlink", "unmap"}]
    /\ drain \in [Drainer -> {"off", "check", "wait", "closing", "done"}]
    /\ serve \in {"accepting", "closing", "waiting", "returned"}

\* pending counts exactly the handshakes that are not authenticated yet,
\* whichever way each of them ends.
PendingIsExact == pending = Cardinality({h \in Handler : pc[h] = "hello"})

\* An id is registered or remembered as terminated, never both, and remembered
\* once, although several goroutines may remove the same session.
TerminalOnce ==
    /\ Range(terminals) \cap sessions = {}
    /\ Cardinality(Range(terminals)) = Len(terminals)

\* CloseGroup misses no session: every session of the group that is not closed
\* is a member, and once the group is closed it is about to be closed.
GroupSeesSessions ==
    \A h \in sessions :
        state[h] # "Closed" /\ h \in Grouped =>
            h \in members /\ (groupClosed => h \in todo["group"])

\* When a Drain has returned no session is registered, and none ever will be:
\* admissions that were already under way are refused.
DrainedIsEmpty == (\E d \in Drainer : drain[d] = "done") => sessions = {}

\* Serve leaves no session Active: one admitted after the shutdown took its
\* list is suspended when the packet socket closes.
ServedIsQuiet == serve = "returned" => \A h \in sessions : state[h] # "Active"

\* A Drain that waits alone is told when the last session goes: the one token
\* of the changed channel is there for it.
DrainIsTold ==
    \A d \in Drainer :
        drain[d] = "wait" /\ (\A e \in Drainer \ {d} : drain[e] = "off") =>
            sessions # {} \/ changed

\* The endpoint's accounts of its sessions are right: pending is exact on each
\* way out of a handshake, a session is remembered as terminated once, and
\* CloseGroup misses no session.
RegistryIsExact ==
    /\ TypeOK
    /\ PendingIsExact
    /\ TerminalOnce
    /\ GroupSeesSessions

\* Draining and shutdown leave no one behind: a Drain that waits alone is
\* told of the last removal, nothing is registered once it has returned, and no
\* session is active once Serve has.
ShutdownIsQuiet ==
    /\ DrainIsTold
    /\ DrainedIsEmpty
    /\ ServedIsQuiet

\* Shutdown ends: once its context is done, Serve returns.
ServeReturns == serve = "closing" ~> serve = "returned"
================================================================================
