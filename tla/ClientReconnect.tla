---------------------------- MODULE ClientReconnect ----------------------------
(***************************************************************************)
(* The client endpoint: the watcher of each connection (watchConnection    *)
(* and transportLost), the reconnect loop, Client.Close, closes by the     *)
(* application and by the owner, and the logical session they share.  The  *)
(* owner is external: it answers a resume with a WELCOME under the next    *)
(* epoch or refuses it, an answer may be lost after the owner committed    *)
(* it, and a resume given up by the client may reach the owner late.       *)
(*                                                                         *)
(* A reconnect goroutine is named by the connection whose loss started it. *)
(* Each action is one critical section of clientEndpoint.mu or session.mu, *)
(* or a call between two of them.                                          *)
(*                                                                         *)
(* A definition commented "Fault:" is a plausible bug in the definition    *)
(* that follows it; no action uses it.                                     *)
(***************************************************************************)
EXTENDS Integers, FiniteSets

CONSTANTS
    Conn,        \* connections the client may open
    First,       \* the one Dial opened
    NoConn

ASSUME ClientAssumption ==
    IsFiniteSet(Conn) /\ First \in Conn /\ NoConn \notin Conn

VARIABLES
    resumable,  \* reconnection is enabled, with a secret and a grace period
    closed, reconnecting, packet,   \* clientEndpoint
    state, epoch, ops,              \* its sessionRecord
    link,      \* each connection: unused, open, lost, or refused (terminal code)
    granted,   \* the epoch in each connection's WELCOME
    socket,    \* the packet socket of each connection: none, open or closed
    watch,     \* where the connection's watcher stands
    loop,      \* where the reconnect goroutine started by its loss stands
    target,    \* the connection that goroutine is opening
    late,      \* that goroutine's deadline has passed
    shut,      \* where Client.Close stands, and the packet it took
    teardown,  \* the operations that Session.Close is closing
    owner,     \* the owner's epoch (external)
    stray      \* resumes given up by the client that the owner may still get

clientVars == <<resumable, closed, reconnecting, packet>>
sessVars   == <<state, epoch, ops>>
connVars   == <<link, granted, socket>>
loopVars   == <<loop, target, late>>
ownerVars  == <<owner, stray>>
vars == <<clientVars, sessVars, connVars, watch, loopVars, shut, teardown,
          ownerVars>>

Running == {"top", "open", "attach", "installed", "hook", "clear", "wait", "finish"}

\* Dial has returned: Opened is delivered, receivers and the watcher started
Init ==
    /\ resumable \in BOOLEAN
    /\ closed = FALSE /\ reconnecting = FALSE /\ packet = First
    /\ state = "Active" /\ epoch = 1 /\ ops = First
    /\ link = [c \in Conn |-> IF c = First THEN "open" ELSE "unused"]
    /\ granted = [c \in Conn |-> IF c = First THEN 1 ELSE 0]
    /\ socket = [c \in Conn |-> IF c = First THEN "open" ELSE "none"]
    /\ watch = [c \in Conn |-> IF c = First THEN "watching" ELSE "off"]
    /\ loop = [c \in Conn |-> "off"]
    /\ target = [c \in Conn |-> NoConn]
    /\ late = [c \in Conn |-> FALSE]
    /\ shut = [at |-> "off", packet |-> NoConn] /\ teardown = NoConn
    /\ owner = 1 /\ stray = 0

--------------------------------------------------------------------------------
(* Pieces of handlers. *)

\* Session.Close by one caller: commits the close, then tears ops down
CloseSession ==
    IF state = "Closed"
    THEN UNCHANGED <<state, teardown>>
    ELSE state' = "Closed" /\ teardown' = ops

CloseSocket(c) == socket' = [socket EXCEPT ![c] = "closed"]

\* the attempt's connection and socket are closed
Abandon(c) ==
    /\ link' = [link EXCEPT ![c] = "lost"]
    /\ CloseSocket(c)

To(l, label) == loop' = [loop EXCEPT ![l] = label]

--------------------------------------------------------------------------------
(* watchConnection and transportLost. *)

\* suspendIfCurrent
Lost(c) ==
    /\ watch[c] = "watching" /\ link[c] \in {"lost", "refused"}
    /\ \/ /\ ops = c /\ state = "Active"
          /\ state' = "Suspended"
          /\ watch' = [watch EXCEPT ![c] = "lost"]
          /\ UNCHANGED <<closed, socket>>
       \/ /\ ~(ops = c /\ state = "Active")
          /\ watch' = [watch EXCEPT ![c] = "done"]
          /\ IF state = "Closed" THEN closed' = TRUE /\ CloseSocket(packet)
                                 ELSE UNCHANGED <<closed, socket>>
          /\ UNCHANGED state
    /\ UNCHANGED <<resumable, reconnecting, packet, epoch, ops, link, granted, loopVars,
                   shut, teardown, ownerVars>>

\* Fault: a second reconnect is started while one is still running.
MayReconnectAgain(c) == link[c] = "lost" /\ ~closed /\ resumable

MayReconnect(c) == link[c] = "lost" /\ ~closed /\ resumable /\ ~reconnecting

\* ConnectionLost delivered; the rest of transportLost under c.mu
StartReconnect(c) ==
    /\ watch[c] = "lost" /\ MayReconnect(c)
    /\ CloseSocket(packet)
    /\ reconnecting' = TRUE
    /\ To(c, "top")
    /\ watch' = [watch EXCEPT ![c] = "done"]
    /\ UNCHANGED <<resumable, closed, packet, sessVars, link, granted, target, late,
                   shut, teardown, ownerVars>>

\* Fault: the client gives up and leaves its session suspended.
GiveUpQuietly(c) ==
    /\ watch[c] = "lost" /\ ~MayReconnect(c)
    /\ CloseSocket(packet)
    /\ closed' = (closed \/ link[c] = "refused" \/ ~resumable)
    /\ watch' = [watch EXCEPT ![c] = "done"]
    /\ UNCHANGED <<resumable, reconnecting, packet, sessVars, link, granted, loopVars,
                   shut, teardown, ownerVars>>

\* ... a terminal close code, a closed client or no reconnection; or a
\* reconnect that is already running
GiveUp(c) ==
    /\ watch[c] = "lost" /\ ~MayReconnect(c)
    /\ CloseSocket(packet)
    /\ \/ /\ link[c] = "refused" \/ closed \/ ~resumable
          /\ closed' = TRUE
          /\ watch' = [watch EXCEPT ![c] = "closing"]
       \/ /\ link[c] = "lost" /\ ~closed /\ resumable
          /\ UNCHANGED closed
          /\ watch' = [watch EXCEPT ![c] = "done"]
    /\ UNCHANGED <<resumable, reconnecting, packet, sessVars, link, granted, loopVars,
                   shut, teardown, ownerVars>>

WatchCloses(c) ==
    /\ watch[c] = "closing"
    /\ CloseSession
    /\ watch' = [watch EXCEPT ![c] = "done"]
    /\ UNCHANGED <<clientVars, epoch, ops, connVars, loopVars, shut, ownerVars>>

--------------------------------------------------------------------------------
(* reconnect, openResume and attachResume. *)

MayAttempt(l) == ~closed /\ ~late[l]

Attempt(l) ==
    /\ loop[l] = "top" /\ MayAttempt(l)
    /\ \/ \* credentials, address or local socket fail
          To(l, "wait") /\ UNCHANGED <<socket, target>>
       \/ \E c \in Conn :
             /\ link[c] = "unused" /\ socket[c] = "none"
             /\ target' = [target EXCEPT ![l] = c]
             /\ socket' = [socket EXCEPT ![c] = "open"]
             /\ To(l, "open")
    /\ UNCHANGED <<clientVars, sessVars, link, granted, watch, late, shut,
                   teardown, ownerVars>>

NoMoreAttempts(l) ==
    /\ loop[l] = "top" /\ ~MayAttempt(l)
    /\ To(l, "finish")
    /\ UNCHANGED <<clientVars, sessVars, connVars, watch, target, late, shut, teardown,
                   ownerVars>>

\* the owner commits the resume and the WELCOME arrives
Welcomed(l) ==
    LET c == target[l] IN
    /\ loop[l] = "open"
    /\ owner' = owner + 1
    /\ granted' = [granted EXCEPT ![c] = owner + 1]
    /\ link' = [link EXCEPT ![c] = "open"]
    /\ To(l, "attach")
    /\ UNCHANGED <<clientVars, sessVars, socket, watch, target, late, shut,
                   teardown, stray>>

\* no answer in time: the owner never saw the resume, committed it, or will
Unanswered(l) ==
    /\ loop[l] = "open"
    /\ Abandon(target[l])
    /\ \/ UNCHANGED ownerVars
       \/ owner' = owner + 1 /\ UNCHANGED stray
       \/ stray' = stray + 1 /\ UNCHANGED owner
    /\ To(l, "wait")
    /\ UNCHANGED <<clientVars, sessVars, granted, watch, target, late, shut,
                   teardown>>

\* the owner refuses with a terminal code, or its WELCOME is not valid
Refused(l) ==
    /\ loop[l] \in {"open", "attach"}
    /\ Abandon(target[l])
    /\ To(l, "finish")
    /\ UNCHANGED <<clientVars, sessVars, granted, watch, target, late, shut,
                   teardown, ownerVars>>

\* Fault: a closed session is attached again.
MayInstallClosed(c) == granted[c] > epoch

MayInstall(c) == state # "Closed" /\ granted[c] > epoch

\* Fault: the next local epoch is used instead of the owner's.
InstalledEpochCounted(c) == epoch + 1

InstalledEpoch(c) == granted[c]

\* replaceConnectionAt, then previous.stopEpoch
Install(l) ==
    LET c == target[l] IN
    /\ loop[l] = "attach" /\ MayInstall(c)
    /\ state' = "Active" /\ epoch' = InstalledEpoch(c) /\ ops' = c
    /\ To(l, "installed")
    /\ UNCHANGED <<clientVars, connVars, watch, target, late, shut, teardown,
                   ownerVars>>

NotInstalled(l) ==
    /\ loop[l] = "attach" /\ ~MayInstall(target[l])
    /\ Abandon(target[l])
    /\ To(l, "finish")
    /\ UNCHANGED <<clientVars, sessVars, granted, watch, target, late, shut,
                   teardown, ownerVars>>

\* Fault: the socket of an attachment to a closed client is kept.
RegisterLeaks(l) ==
    LET c == target[l] IN
    /\ loop[l] = "installed"
    /\ \/ /\ closed
          /\ link' = [link EXCEPT ![c] = "lost"]
          /\ To(l, "finish")
          /\ UNCHANGED <<packet, socket>>
       \/ /\ ~closed
          /\ packet' = c
          /\ To(l, "hook")
          /\ UNCHANGED <<link, socket>>
    /\ UNCHANGED <<resumable, closed, reconnecting, sessVars, granted, watch, target, late,
                   shut, teardown, ownerVars>>

\* the c.mu section of attachResume
Register(l) ==
    LET c == target[l] IN
    /\ loop[l] = "installed"
    /\ \/ /\ closed
          /\ Abandon(c)
          /\ To(l, "finish")
          /\ UNCHANGED packet
       \/ /\ ~closed
          /\ packet' = c
          /\ To(l, "hook")
          /\ UNCHANGED <<link, socket>>
    /\ UNCHANGED <<resumable, closed, reconnecting, sessVars, granted, watch, target, late,
                   shut, teardown, ownerVars>>

\* onLost, onTerminal, Resumed, the receivers and the watcher
Hook(l) ==
    LET c == target[l] IN
    /\ loop[l] = "hook"
    /\ watch' = [watch EXCEPT ![c] = "watching"]
    /\ To(l, "clear")
    /\ UNCHANGED <<clientVars, sessVars, link, granted, socket, target, late, shut,
                   teardown, ownerVars>>

Clear(l) ==
    /\ loop[l] = "clear"
    /\ reconnecting' = FALSE
    /\ To(l, "done")
    /\ UNCHANGED <<resumable, closed, packet, sessVars, connVars, watch, target, late, shut,
                   teardown, ownerVars>>

\* the back-off: it ends, has no time left, or the session ends first
Wait(l) ==
    /\ loop[l] = "wait"
    /\ \/ ~late[l] /\ To(l, "top") /\ UNCHANGED reconnecting
       \/ late[l] /\ To(l, "finish") /\ UNCHANGED reconnecting
       \/ state = "Closed" /\ To(l, "done") /\ reconnecting' = FALSE
    /\ UNCHANGED <<resumable, closed, packet, sessVars, connVars, watch, target, late, shut,
                   teardown, ownerVars>>

\* Fault: giving up does not close the session.
FinishQuietly(l) ==
    /\ loop[l] = "finish"
    /\ reconnecting' = FALSE /\ closed' = TRUE
    /\ To(l, "done")
    /\ UNCHANGED <<resumable, packet, sessVars, connVars, watch, target, late, shut,
                   teardown, ownerVars>>

\* finishReconnect
Finish(l) ==
    /\ loop[l] = "finish"
    /\ reconnecting' = FALSE /\ closed' = TRUE
    /\ To(l, "closing")
    /\ UNCHANGED <<resumable, packet, sessVars, connVars, watch, target, late, shut, teardown,
                   ownerVars>>

LoopCloses(l) ==
    /\ loop[l] = "closing"
    /\ CloseSession
    /\ To(l, "done")
    /\ UNCHANGED <<clientVars, epoch, ops, connVars, watch, target, late, shut,
                   ownerVars>>

Deadline(l) ==
    /\ loop[l] \in Running /\ ~late[l]
    /\ late' = [late EXCEPT ![l] = TRUE]
    /\ UNCHANGED <<clientVars, sessVars, connVars, watch, loop, target, shut, teardown,
                   ownerVars>>

--------------------------------------------------------------------------------
(* Closing. *)

\* Fault: Client.Close does not take the packet with it.
CloseClientNoPacket ==
    /\ shut.at = "off"
    /\ closed' = TRUE
    /\ shut' = [at |-> "session", packet |-> NoConn]
    /\ UNCHANGED <<resumable, reconnecting, packet, sessVars, connVars, watch, loopVars,
                   teardown, ownerVars>>

\* Client.Close takes the packet under c.mu
CloseClient ==
    /\ shut.at = "off"
    /\ closed' = TRUE
    /\ shut' = [at |-> "session", packet |-> packet]
    /\ UNCHANGED <<resumable, reconnecting, packet, sessVars, connVars, watch, loopVars,
                   teardown, ownerVars>>

CloseClientSession ==
    /\ shut.at = "session"
    /\ CloseSession
    /\ shut' = [shut EXCEPT !.at = IF state = "Closed" THEN "packet" ELSE "teardown"]
    /\ UNCHANGED <<clientVars, epoch, ops, connVars, watch, loopVars, ownerVars>>

\* Session.Close has returned, at once when the session was closed already
CloseClientPacket ==
    /\ shut.at = "packet" \/ (shut.at = "teardown" /\ teardown = NoConn)
    /\ CloseSocket(shut.packet)
    /\ shut' = [shut EXCEPT !.at = "done"]
    /\ UNCHANGED <<clientVars, sessVars, link, granted, watch, loopVars, teardown,
                   ownerVars>>

\* Session.Close by the application
AppClose ==
    /\ state # "Closed"
    /\ CloseSession
    /\ UNCHANGED <<clientVars, epoch, ops, connVars, watch, loopVars, shut,
                   ownerVars>>

\* connectionOperations.close once its acknowledgement wait is over
Teardown ==
    /\ teardown # NoConn
    /\ link' = [link EXCEPT ![teardown] = IF @ = "open" THEN "lost" ELSE @]
    /\ teardown' = NoConn
    /\ UNCHANGED <<clientVars, sessVars, granted, socket, watch, loopVars, shut,
                   ownerVars>>

\* a close frame read by the control loop of any started connection
RemoteClose(c) ==
    /\ watch[c] # "off" /\ link[c] = "open" /\ state # "Closed"
    /\ state' = "Closed"
    /\ UNCHANGED <<clientVars, epoch, ops, connVars, watch, loopVars, shut, teardown,
                   ownerVars>>

--------------------------------------------------------------------------------
(* The network and the owner. *)

Disconnect(c) ==
    /\ link[c] = "open"
    /\ \E cause \in {"lost", "refused"} : link' = [link EXCEPT ![c] = cause]
    /\ UNCHANGED <<clientVars, sessVars, granted, socket, watch, loopVars, shut,
                   teardown, ownerVars>>

\* a resume the client gave up reaches the owner, which supersedes the others
StrayResume ==
    /\ stray > 0
    /\ stray' = stray - 1
    /\ owner' = owner + 1
    /\ link' = [c \in Conn |-> IF link[c] = "open" THEN "lost" ELSE link[c]]
    /\ UNCHANGED <<clientVars, sessVars, granted, socket, watch, loopVars, shut,
                   teardown>>

Idle ==
    /\ state = "Closed"
    /\ UNCHANGED vars

Watcher(c) == Lost(c) \/ StartReconnect(c) \/ GiveUp(c) \/ WatchCloses(c)

Reconnect(l) ==
    \/ Attempt(l) \/ NoMoreAttempts(l)
    \/ Welcomed(l) \/ Unanswered(l) \/ Refused(l)
    \/ Install(l) \/ NotInstalled(l) \/ Register(l) \/ Hook(l) \/ Clear(l)
    \/ Wait(l) \/ Finish(l) \/ LoopCloses(l)

Next ==
    \/ \E c \in Conn : Watcher(c) \/ Reconnect(c) \/ Deadline(c)
    \/ \E c \in Conn : RemoteClose(c) \/ Disconnect(c)
    \/ CloseClient \/ CloseClientSession \/ CloseClientPacket
    \/ AppClose \/ Teardown
    \/ StrayResume
    \/ Idle

\* goroutines run, openResume is bounded by its context, and time passes
Fairness ==
    /\ \A c \in Conn : WF_vars(Watcher(c)) /\ WF_vars(Reconnect(c)) /\ WF_vars(Deadline(c))
    /\ WF_vars(CloseClientSession) /\ WF_vars(CloseClientPacket) /\ WF_vars(Teardown)

Spec == Init /\ [][Next]_vars /\ Fairness

--------------------------------------------------------------------------------
(* Properties. *)

\* Every variable has its type.
TypeOK ==
    /\ resumable \in BOOLEAN /\ closed \in BOOLEAN /\ reconnecting \in BOOLEAN /\ packet \in Conn
    /\ state \in {"Active", "Suspended", "Closed"} /\ epoch \in Nat /\ ops \in Conn
    /\ link \in [Conn -> {"unused", "open", "lost", "refused"}]
    /\ granted \in [Conn -> Nat]
    /\ socket \in [Conn -> {"none", "open", "closed"}]
    /\ watch \in [Conn -> {"off", "watching", "lost", "closing", "done"}]
    /\ loop \in [Conn -> Running \cup {"off", "closing", "done"}]
    /\ target \in [Conn -> Conn \cup {NoConn}]
    /\ late \in [Conn -> BOOLEAN]
    /\ shut \in [at : {"off"}, packet : {NoConn}]
                \cup [at : {"session", "teardown", "packet", "done"}, packet : Conn]
    /\ teardown \in Conn \cup {NoConn}
    /\ owner \in Nat /\ stray \in Nat

\* One reconnect runs at a time, and reconnecting says so: the flag is set as
\* long as a reconnect goroutine has not come to its end.
OneReconnect ==
    /\ \A c, d \in Conn : loop[c] \in Running /\ loop[d] \in Running => c = d
    /\ reconnecting <=> \E c \in Conn : loop[c] \in Running

\* The client's epoch is the one the owner gave to the connection it uses, and
\* the owner's next one is always larger: gaps left by lost WELCOMEs and late
\* resumes never make a WELCOME unacceptable.
EpochIsOwners ==
    /\ epoch = granted[ops]
    /\ \A l \in Conn : loop[l] = "attach" => granted[target[l]] > epoch

\* A closed session is never attached again, whatever a reconnect that was
\* already under way does.
ClosedForGood == [][state = "Closed" => state' = "Closed"]_vars

\* No socket outlives the client: when a closed session's goroutines have all
\* returned, every packet socket the client opened is closed.
SocketsReleased ==
    /\ state = "Closed" /\ teardown = NoConn /\ shut.at \in {"off", "done"}
    /\ \A c \in Conn : watch[c] \in {"off", "done"} /\ loop[c] \in {"off", "done"}
    => \A c \in Conn : socket[c] # "open"

\* One reconnect runs at a time; the client's epoch is the one its owner gave
\* to the connection it uses, in spite of lost WELCOMEs and late resumes; and
\* no packet socket outlives a closed client.
ClientIsConsistent ==
    /\ TypeOK
    /\ OneReconnect
    /\ EpochIsOwners
    /\ SocketsReleased

\* A reconnect settles the session: every goroutine started by a lost
\* transport ends with the session attached again or closed.
ReconnectSettles == (\E c \in Conn : loop[c] = "top") ~> state # "Suspended"

\* A closed client ends its session, also when a reconnect is attaching it.
ClosedEnds == closed ~> [](state = "Closed")

\* A suspended session is reconnected or closed: an interrupted transport makes
\* the client attempt to resume it.
SuspendedReconnects == state = "Suspended" ~> state # "Suspended"
================================================================================
