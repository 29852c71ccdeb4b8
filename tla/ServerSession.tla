----------------------------- MODULE ServerSession -----------------------------
(***************************************************************************)
(* One logical session on its owner: the connections that are admitted to  *)
(* it or resume it, the expiry and grace timers, the control loops that    *)
(* refresh or close it, and everything that closes and unregisters it.     *)
(*                                                                         *)
(* Each connection is served by one handleConnection goroutine (pc) and,   *)
(* once it is welcomed, by one controlLoop goroutine (ctl).  A goroutine   *)
(* that closes the session (a fired timer, Revoke, CloseGroup, Drain, the  *)
(* application) is a member of tasks.  Every action is one critical        *)
(* section of session.mu, or one call made between two of them.            *)
(*                                                                         *)
(* A definition commented "Fault:" is a plausible bug in the definition    *)
(* that follows it.  No action uses it; putting it in that definition's    *)
(* place shows that a property is sensitive to the code it is about.       *)
(***************************************************************************)
EXTENDS Integers, FiniteSets

CONSTANTS
    Conn,         \* connections that may reach the server
    NoConn,       \* the absence of a connection
    Subject,      \* subjects an authenticator can vouch for
    NoSubject,    \* the subject of a principal that is not set
    Expiry,       \* times at which credentials expire
    Refreshers,   \* connections whose client sends refresh frames
    FinalFrames,  \* frames that end a session and that clients send
    ResumeGrace,  \* limits.ResumeGrace
    MaxEpoch,     \* the largest epoch (^uint64(0) in the code)
    MaxTime,      \* bound on the clock
    MaxClosers    \* bound on goroutines closing the session when one more starts

ASSUME ConstAssumption ==
    /\ NoConn \notin Conn
    /\ Refreshers \subseteq Conn
    /\ FinalFrames \subseteq {"close", "abort"}
    /\ Expiry \subseteq 1..MaxTime
    /\ ResumeGrace \in Nat \ {0}
    /\ MaxEpoch \in Nat \ {0}
    /\ MaxTime \in Nat
    /\ MaxClosers \in Nat

VARIABLES
    clock,
    pc,           \* where the connection's handler goroutine stands
    alive,        \* the connection's context is not done
    cred,         \* the principal last authenticated on the connection
    prev,         \* "previous" in resumeConnection
    oepoch,       \* connectionOperations.epoch, 0 before it is set
    ectx,         \* connectionOperations.epochCtx: none, live or stopped
    muted,        \* controlChannel.closed: stopWriter has been called
    ctl,          \* where the connection's controlLoop stands
    state, epoch, ops, principal, terminal,      \* sessionRecord
    expiryTimer,  \* deadline of the armed expiry timer, or Off
    graceAt, graceCode,                          \* the grace timer
    issued,       \* a WELCOME has handed the resume secret to the client
    registered,   \* the session is in serverEndpoint.sessions
    tasks         \* goroutines closing the session

connVars  == <<pc, alive, cred, prev, oepoch, ectx, muted, ctl>>
sessVars  == <<state, epoch, ops, principal, terminal>>
timerVars == <<expiryTimer, graceAt, graceCode>>
regVars   == <<issued, registered>>
vars == <<clock, connVars, sessVars, timerVars, regVars, tasks>>

Off == -1
Principal == [sub : Subject, exp : Expiry]
NoPrincipal == [sub |-> NoSubject, exp |-> 0]
PC == {"idle", "admit", "resume", "commit", "published", "severing", "arm",
       "welcome", "opened", "serving", "failed", "lost", "check", "done"}
Code == {"Normal", "Remote", "Violation", "Forbidden",
         "SessionExpired", "AuthExpired"}
Task == [code : Code, step : {"close", "teardown", "remove"},
         conn : Conn \cup {NoConn}, remove : BOOLEAN]

Init ==
    /\ clock = 0
    /\ pc = [c \in Conn |-> "idle"]
    /\ alive = [c \in Conn |-> FALSE]
    /\ cred = [c \in Conn |-> NoPrincipal]
    /\ prev = [c \in Conn |-> NoConn]
    /\ oepoch = [c \in Conn |-> 0]
    /\ ectx = [c \in Conn |-> "none"]
    /\ muted = [c \in Conn |-> FALSE]
    /\ ctl = [c \in Conn |-> "off"]
    /\ state = "None" /\ epoch = 0 /\ ops = NoConn
    /\ principal = NoPrincipal /\ terminal = "Normal"
    /\ expiryTimer = Off /\ graceAt = Off /\ graceCode = "Normal"
    /\ issued = FALSE /\ registered = FALSE
    /\ tasks = {}

--------------------------------------------------------------------------------
(* Pieces of handlers. *)

Current(c) == ops = c /\ state = "Active" /\ epoch = oepoch[c]

Goto(c, label) == pc' = [pc EXCEPT ![c] = label]

\* cancels the epoch context if startEpoch has created one; stops the writer
StopEpoch(c) ==
    /\ ectx' = [ectx EXCEPT ![c] = IF @ = "live" THEN "stopped" ELSE @]
    /\ muted' = [muted EXCEPT ![c] = TRUE]

\* Fault: an armed timer is left as it is.
ArmExpiryOnce(exp) == expiryTimer' = IF expiryTimer = Off THEN exp ELSE expiryTimer

\* Stop of the old timer, then a new one; a past expiry fires at once
ArmExpiryAt(exp) == expiryTimer' = exp

StopGraceTimer == graceAt' = Off /\ UNCHANGED graceCode

\* a goroutine that calls session.Close and, if remove, removeSession
Closing(code, remove) ==
    [code |-> code, step |-> "close", conn |-> NoConn, remove |-> remove]

RemoveSession ==
    /\ registered' = FALSE
    /\ expiryTimer' = Off
    /\ StopGraceTimer
    /\ UNCHANGED issued

--------------------------------------------------------------------------------
(* handleConnection: a first admission. *)

FreshHello(c, p) ==
    /\ state = "None" /\ \A d \in Conn : pc[d] = "idle"
    /\ p.exp > clock
    /\ Goto(c, "admit")
    /\ alive' = [alive EXCEPT ![c] = TRUE]
    /\ cred' = [cred EXCEPT ![c] = p]
    /\ UNCHANGED <<clock, prev, oepoch, ectx, muted, ctl, sessVars, timerVars, regVars, tasks>>

Admit(c) ==
    /\ pc[c] = "admit"
    /\ state' = "Active" /\ epoch' = 1 /\ ops' = c
    /\ principal' = cred[c]
    /\ oepoch' = [oepoch EXCEPT ![c] = 1]
    /\ registered' = TRUE
    /\ Goto(c, "arm")
    /\ UNCHANGED <<clock, alive, cred, prev, ectx, muted, ctl, terminal, timerVars,
                   issued, tasks>>

--------------------------------------------------------------------------------
(* resumeConnection. *)

ResumeHello(c, p) ==
    /\ issued
    /\ pc[c] = "idle"
    /\ p.exp > clock
    /\ Goto(c, "resume")
    /\ alive' = [alive EXCEPT ![c] = TRUE]
    /\ cred' = [cred EXCEPT ![c] = p]
    /\ UNCHANGED <<clock, prev, oepoch, ectx, muted, ctl, sessVars, timerVars, regVars, tasks>>

LookupSession(c) ==
    /\ pc[c] = "resume"
    /\ registered
    /\ Goto(c, "commit")
    /\ UNCHANGED <<clock, alive, cred, prev, oepoch, ectx, muted, ctl, sessVars,
                   timerVars, regVars, tasks>>

\* unknown session, authorization refused, group closed, wrong secret or
\* limits, or a condition of MayResume that does not hold
RejectResume(c) ==
    /\ pc[c] \in {"resume", "commit"}
    /\ Goto(c, "done")
    /\ alive' = [alive EXCEPT ![c] = FALSE]
    /\ UNCHANGED <<clock, cred, prev, oepoch, ectx, muted, ctl, sessVars, timerVars,
                   regVars, tasks>>

\* Fault: a session closed since it was looked up is resumed.
MayResumeClosed(c) ==
    /\ principal.exp > clock
    /\ principal.sub = cred[c].sub
    /\ epoch # MaxEpoch

\* Fault: the credential's subject is not compared.
MayResumeAsAnyone(c) ==
    /\ state # "Closed"
    /\ principal.exp > clock
    /\ epoch # MaxEpoch

MayResume(c) ==
    /\ state # "Closed"
    /\ principal.exp > clock
    /\ principal.sub = cred[c].sub
    /\ epoch # MaxEpoch

\* Fault: the epoch is not advanced.
NextEpochForgotten == epoch

\* Fault: the epoch is advanced past the value the exhaustion check looks for.
NextEpochSkips == epoch + 2

NextEpoch == epoch + 1

CommitResume(c) ==
    /\ pc[c] = "commit"
    /\ MayResume(c)
    /\ prev' = [prev EXCEPT ![c] = ops]
    /\ epoch' = NextEpoch
    /\ oepoch' = [oepoch EXCEPT ![c] = NextEpoch]
    /\ state' = "Active"
    /\ principal' = cred[c]
    /\ ops' = c
    /\ StopGraceTimer
    /\ Goto(c, "published")
    /\ UNCHANGED <<clock, alive, cred, ectx, muted, ctl, terminal, expiryTimer,
                   regVars, tasks>>

\* ops.session is set here, after the record was published in CommitResume
Supersede(c) ==
    /\ pc[c] = "published"
    /\ StopEpoch(prev[c])
    /\ Goto(c, "severing")
    /\ UNCHANGED <<clock, alive, cred, prev, oepoch, ctl, sessVars, timerVars,
                   regVars, tasks>>

Sever(c) ==
    /\ pc[c] = "severing"
    /\ alive' = [alive EXCEPT ![prev[c]] = FALSE]
    /\ Goto(c, "arm")
    /\ UNCHANGED <<clock, cred, prev, oepoch, ectx, muted, ctl, sessVars, timerVars,
                   regVars, tasks>>

--------------------------------------------------------------------------------
(* What both paths do once the session is theirs. *)

ArmExpiry(c) ==
    /\ pc[c] = "arm"
    /\ ArmExpiryAt(cred[c].exp)
    /\ Goto(c, "welcome")
    /\ UNCHANGED <<clock, alive, cred, prev, oepoch, ectx, muted, ctl, sessVars,
                   graceAt, graceCode, regVars, tasks>>

\* WELCOME written, Opened or Resumed delivered
Welcome(c) ==
    /\ pc[c] = "welcome"
    /\ alive[c] /\ ~muted[c]
    /\ issued' = TRUE
    /\ Goto(c, "opened")
    /\ UNCHANGED <<clock, alive, cred, prev, oepoch, ectx, muted, ctl, sessVars,
                   timerVars, registered, tasks>>

\* startReceive (startEpoch) and startControl
StartEpoch(c) ==
    /\ pc[c] = "opened"
    /\ ectx' = [ectx EXCEPT ![c] = "live"]
    /\ ctl' = [ctl EXCEPT ![c] = "read"]
    /\ Goto(c, "serving")
    /\ UNCHANGED <<clock, alive, cred, prev, oepoch, muted, sessVars, timerVars,
                   regVars, tasks>>

WelcomeFails(c) ==
    /\ pc[c] = "welcome"
    /\ Goto(c, "failed")
    /\ alive' = [alive EXCEPT ![c] = FALSE]
    /\ UNCHANGED <<clock, cred, prev, oepoch, ectx, muted, ctl, sessVars, timerVars,
                   regVars, tasks>>

\* Fault: any lost connection suspends the session.
SuspendAnyway(c) ==
    /\ pc[c] \in {"serving", "failed"} /\ ~alive[c]
    /\ state = "Active"
    /\ state' = "Suspended"
    /\ StopEpoch(c)
    /\ Goto(c, "lost")
    /\ UNCHANGED <<clock, alive, cred, prev, oepoch, ctl, epoch, ops, principal,
                   terminal, timerVars, regVars, tasks>>

\* the deferred finishConnection, when suspendIfCurrent succeeds
Suspend(c) ==
    /\ pc[c] \in {"serving", "failed"} /\ ~alive[c]
    /\ ops = c /\ state = "Active"
    /\ state' = "Suspended"
    /\ StopEpoch(c)
    /\ Goto(c, "lost")
    /\ UNCHANGED <<clock, alive, cred, prev, oepoch, ctl, epoch, ops, principal,
                   terminal, timerVars, regVars, tasks>>

\* ... and when it does not
NotCurrent(c) ==
    /\ pc[c] \in {"serving", "failed"} /\ ~alive[c]
    /\ ~(ops = c /\ state = "Active")
    /\ Goto(c, "check")
    /\ UNCHANGED <<clock, alive, cred, prev, oepoch, ectx, muted, ctl, sessVars,
                   timerVars, regVars, tasks>>

\* Fault: the grace period is one unit too long.
GraceDeadlineLate == [at |-> clock + ResumeGrace + 1, code |-> "SessionExpired"]

GraceDeadline ==
    IF principal.exp - clock <= ResumeGrace
    THEN [at |-> IF principal.exp > clock THEN principal.exp ELSE clock,
          code |-> "AuthExpired"]
    ELSE [at |-> clock + ResumeGrace, code |-> "SessionExpired"]

\* Fault: the session is not looked at again before the timer is armed.
ArmGraceUnchecked(c) ==
    /\ pc[c] = "lost"
    /\ graceAt' = GraceDeadline.at
    /\ graceCode' = GraceDeadline.code
    /\ Goto(c, "done")
    /\ UNCHANGED <<clock, alive, cred, prev, oepoch, ectx, muted, ctl, sessVars,
                   expiryTimer, regVars, tasks>>

ArmGrace(c) ==
    /\ pc[c] = "lost"
    /\ \/ /\ state = "Suspended"
          /\ graceAt' = GraceDeadline.at
          /\ graceCode' = GraceDeadline.code
       \/ /\ state # "Suspended"
          /\ UNCHANGED <<graceAt, graceCode>>
    /\ Goto(c, "done")
    /\ UNCHANGED <<clock, alive, cred, prev, oepoch, ectx, muted, ctl, sessVars,
                   expiryTimer, regVars, tasks>>

\* Fault: a connection that is not current removes the session.
RemoveAnyway(c) ==
    /\ pc[c] = "check"
    /\ RemoveSession
    /\ Goto(c, "done")
    /\ UNCHANGED <<clock, alive, cred, prev, oepoch, ectx, muted, ctl, sessVars, tasks>>

RemoveIfClosed(c) ==
    /\ pc[c] = "check"
    /\ \/ state = "Closed" /\ RemoveSession
       \/ state # "Closed" /\ UNCHANGED <<timerVars, regVars>>
    /\ Goto(c, "done")
    /\ UNCHANGED <<clock, alive, cred, prev, oepoch, ectx, muted, ctl, sessVars, tasks>>

--------------------------------------------------------------------------------
(* controlLoop: refresh frames, and the frames that end the session. *)

\* handleRefresh up to its checks; a refused refresh changes nothing
RefreshAuthenticated(c, p) ==
    /\ c \in Refreshers
    /\ ctl[c] = "read" /\ alive[c]
    /\ p.sub = principal.sub /\ p.exp > clock
    /\ cred' = [cred EXCEPT ![c] = p]
    /\ ctl' = [ctl EXCEPT ![c] = "set"]
    /\ UNCHANGED <<clock, pc, alive, prev, oepoch, ectx, muted, sessVars, timerVars,
                   regVars, tasks>>

RefreshSet(c) ==
    /\ ctl[c] = "set"
    /\ principal' = cred[c]
    /\ ctl' = [ctl EXCEPT ![c] = "arm"]
    /\ UNCHANGED <<clock, pc, alive, cred, prev, oepoch, ectx, muted, state, epoch, ops,
                   terminal, timerVars, regVars, tasks>>

\* the loop ends when the refresh_result cannot be written
RefreshArm(c) ==
    /\ ctl[c] = "arm"
    /\ ArmExpiryAt(cred[c].exp)
    /\ ctl' = [ctl EXCEPT ![c] = IF muted[c] THEN "off" ELSE "read"]
    /\ UNCHANGED <<clock, pc, alive, cred, prev, oepoch, ectx, muted, sessVars, graceAt,
                   graceCode, regVars, tasks>>

\* a close frame (acknowledged), or a frame that abortControl answers
ReadFinalFrame(c, kind) ==
    /\ ctl[c] = "read" /\ alive[c]
    /\ kind = "close" => ~muted[c]
    /\ ctl' = [ctl EXCEPT ![c] = kind]
    /\ UNCHANGED <<clock, pc, alive, cred, prev, oepoch, ectx, muted, sessVars,
                   timerVars, regVars, tasks>>

RemoteClose(c) ==
    /\ ctl[c] \in {"close", "abort"}
    /\ \/ /\ state # "Closed"
          /\ state' = "Closed"
          /\ terminal' = IF ctl[c] = "close" THEN "Remote" ELSE "Violation"
          /\ StopEpoch(c)
       \/ /\ state = "Closed"
          /\ UNCHANGED <<state, terminal, ectx, muted>>
    /\ alive' = IF ctl[c] = "abort" THEN [alive EXCEPT ![c] = FALSE] ELSE alive
    /\ ctl' = [ctl EXCEPT ![c] = "off"]
    /\ UNCHANGED <<clock, pc, cred, prev, oepoch, epoch, ops, principal,
                   timerVars, regVars, tasks>>

--------------------------------------------------------------------------------
(* Timers, and the goroutines that close the session. *)

ExpiryFires ==
    /\ expiryTimer # Off /\ expiryTimer <= clock
    /\ expiryTimer' = Off
    /\ tasks' = tasks \cup {Closing("AuthExpired", TRUE)}
    /\ UNCHANGED <<clock, connVars, sessVars, graceAt, graceCode, regVars>>

GraceFires ==
    /\ graceAt # Off /\ graceAt <= clock
    /\ StopGraceTimer
    /\ tasks' = tasks \cup {Closing(graceCode, TRUE)}
    /\ UNCHANGED <<clock, connVars, sessVars, expiryTimer, regVars>>

\* Session.Close by the application; the endpoint's own removal comes later
AppClose ==
    /\ state \in {"Active", "Suspended"}
    /\ Cardinality(tasks) < MaxClosers
    /\ tasks' = tasks \cup {Closing("Normal", FALSE)}
    /\ UNCHANGED <<clock, connVars, sessVars, timerVars, regVars>>

\* Revoke, CloseGroup, Drain at its deadline and the end of Serve
AdminClose ==
    /\ registered
    /\ Cardinality(tasks) < MaxClosers
    /\ tasks' = tasks \cup {Closing("Forbidden", TRUE)}
    /\ UNCHANGED <<clock, connVars, sessVars, timerVars, regVars>>

\* session.Close has returned to goroutine t
CloseReturns(t) ==
    tasks' = (tasks \ {t}) \cup
        (IF t.remove THEN {[Closing("Normal", TRUE) EXCEPT !.step = "remove"]} ELSE {})

\* Fault: the goroutine leaves a suspended session alone.
TaskCloseActive(t) ==
    /\ t.step = "close"
    /\ \/ /\ state = "Active"
          /\ state' = "Closed"
          /\ terminal' = t.code
          /\ tasks' = (tasks \ {t}) \cup {[t EXCEPT !.step = "teardown", !.conn = ops]}
       \/ /\ state = "Suspended"
          /\ tasks' = tasks \ {t}
          /\ UNCHANGED <<state, terminal>>
       \/ /\ state = "Closed"
          /\ CloseReturns(t)
          /\ UNCHANGED <<state, terminal>>
    /\ UNCHANGED <<clock, connVars, epoch, ops, principal, timerVars, regVars>>

TaskClose(t) ==
    /\ t.step = "close"
    /\ \/ /\ state # "Closed"
          /\ state' = "Closed"
          /\ terminal' = t.code
          /\ tasks' = (tasks \ {t}) \cup {[t EXCEPT !.step = "teardown", !.conn = ops]}
       \/ /\ state = "Closed"
          /\ CloseReturns(t)
          /\ UNCHANGED <<state, terminal>>
    /\ UNCHANGED <<clock, connVars, epoch, ops, principal, timerVars, regVars>>

\* connectionOperations.close: stopEpoch, SessionEnded, connection.Close
TaskTeardown(t) ==
    /\ t.step = "teardown"
    /\ StopEpoch(t.conn)
    /\ alive' = [alive EXCEPT ![t.conn] = FALSE]
    /\ CloseReturns(t)
    /\ UNCHANGED <<clock, pc, cred, prev, oepoch, ctl, sessVars, timerVars, regVars>>

\* Fault: the goroutine ends without removing the session.
TaskRemoveForgotten(t) ==
    /\ t.step = "remove"
    /\ tasks' = tasks \ {t}
    /\ UNCHANGED <<clock, connVars, sessVars, timerVars, regVars>>

TaskRemove(t) ==
    /\ t.step = "remove"
    /\ RemoveSession
    /\ tasks' = tasks \ {t}
    /\ UNCHANGED <<clock, connVars, sessVars>>

--------------------------------------------------------------------------------
(* The environment. *)

ConnLost(c) ==
    /\ alive[c]
    /\ alive' = [alive EXCEPT ![c] = FALSE]
    /\ UNCHANGED <<clock, pc, cred, prev, oepoch, ectx, muted, ctl, sessVars, timerVars,
                   regVars, tasks>>

Tick ==
    /\ clock < MaxTime
    /\ clock' = clock + 1
    /\ UNCHANGED <<connVars, sessVars, timerVars, regVars, tasks>>

\* nothing is left to do: every handler returned and the session is gone
Quiescent ==
    /\ clock = MaxTime
    /\ \A c \in Conn : pc[c] \in {"idle", "done"} /\ ctl[c] \in {"off", "read"}
    /\ ~registered /\ tasks = {}
    /\ UNCHANGED vars

Handler(c) ==
    \/ Admit(c) \/ LookupSession(c) \/ RejectResume(c) \/ CommitResume(c)
    \/ Supersede(c) \/ Sever(c) \/ ArmExpiry(c)
    \/ Welcome(c) \/ WelcomeFails(c) \/ StartEpoch(c)
    \/ Suspend(c) \/ NotCurrent(c) \/ ArmGrace(c) \/ RemoveIfClosed(c)

Control(c) == RefreshSet(c) \/ RefreshArm(c) \/ RemoteClose(c)

Arrival(c) ==
    \/ \E p \in Principal :
          FreshHello(c, p) \/ ResumeHello(c, p) \/ RefreshAuthenticated(c, p)
    \/ \E kind \in FinalFrames : ReadFinalFrame(c, kind)
    \/ ConnLost(c)

TaskStep == \E t \in tasks : TaskClose(t) \/ TaskTeardown(t) \/ TaskRemove(t)

Next ==
    \/ \E c \in Conn : Handler(c) \/ Control(c) \/ Arrival(c)
    \/ ExpiryFires \/ GraceFires
    \/ AppClose \/ AdminClose
    \/ TaskStep
    \/ Tick
    \/ Quiescent

\* the Go scheduler runs every goroutine, due timers fire and time passes
Fairness ==
    /\ \A c \in Conn : WF_vars(Handler(c)) /\ WF_vars(Control(c))
    /\ WF_vars(ExpiryFires) /\ WF_vars(GraceFires)
    /\ WF_vars(TaskStep)
    /\ WF_vars(Tick)

Spec == Init /\ [][Next]_vars /\ Fairness

--------------------------------------------------------------------------------
(* Properties. *)

\* Every variable has its type; in particular the epoch never passes the
\* largest value of its counter (resumeConnection refuses to increment it).
TypeOK ==
    /\ clock \in 0..MaxTime
    /\ pc \in [Conn -> PC]
    /\ alive \in [Conn -> BOOLEAN]
    /\ cred \in [Conn -> Principal \cup {NoPrincipal}]
    /\ prev \in [Conn -> Conn \cup {NoConn}]
    /\ oepoch \in [Conn -> 0..MaxEpoch]
    /\ ectx \in [Conn -> {"none", "live", "stopped"}]
    /\ muted \in [Conn -> BOOLEAN]
    /\ ctl \in [Conn -> {"off", "read", "set", "arm", "close", "abort"}]
    /\ state \in {"None", "Active", "Suspended", "Closed"}
    /\ epoch \in 0..MaxEpoch
    /\ ops \in Conn \cup {NoConn}
    /\ principal \in Principal \cup {NoPrincipal}
    /\ terminal \in Code
    /\ expiryTimer \in Expiry \cup {Off}
    /\ graceAt \in Nat \cup {Off}
    /\ graceCode \in Code
    /\ issued \in BOOLEAN /\ registered \in BOOLEAN
    /\ tasks \subseteq Task

\* An epoch names one connection: resumes that race for the session (any two
\* handlers inside resumeConnection) never publish under the same epoch, and
\* the record always carries the epoch of the connection it is attached to.
EpochIdentifiesConnection ==
    /\ \A c, d \in Conn : oepoch[c] = oepoch[d] /\ oepoch[c] > 0 => c = d
    /\ \A c \in Conn : oepoch[c] <= epoch
    /\ state # "None" => ops \in Conn /\ oepoch[ops] = epoch

\* A late close of a superseded connection cannot suspend the newer
\* attachment (suspendIfCurrent): only the loss of the connection the session
\* is attached to suspends it.
OnlyOwnerLossSuspends ==
    [][state = "Active" /\ state' = "Suspended" => ~alive[ops]]_vars

\* A resumed session carries no grace timer, however the old handler's
\* armGrace interleaves with the resume.
NoGraceTimerWhileActive == graceAt # Off => state \in {"Suspended", "Closed"}

\* A suspended session is never forgotten: its last handler is about to arm the
\* grace timer, the timer is armed no later than ResumeGrace from now, or its
\* callback is already running.
SuspendedIsTimed ==
    state = "Suspended" =>
        \/ \E c \in Conn : pc[c] = "lost"
        \/ graceAt # Off /\ graceAt <= clock + ResumeGrace
        \/ \E t \in tasks : t.step = "close"

\* The finish of an old connection never unregisters a live session: a session
\* that left serverEndpoint.sessions is closed.
UnregisteredIsClosed == issued /\ ~registered => state = "Closed"

\* Neither a resume nor a refresh hands the session to another subject.
SubjectNeverChanges ==
    [][state # "None" => principal'.sub = principal.sub]_vars

\* Expiry ends access: an active session whose principal has expired has a due
\* expiry timer, a closing goroutine, or a handler still to arm the timer.
ExpiryEndsAccess ==
    state = "Active" /\ principal.exp <= clock =>
        \/ expiryTimer # Off /\ expiryTimer <= clock
        \/ \E t \in tasks : t.step = "close"
        \/ \E c \in Conn : pc[c] \in {"published", "severing", "arm"}
        \/ \E c \in Conn : ctl[c] = "arm"

\* A suspended session is resumed or closed.
SuspendedEnds == state = "Suspended" ~> state \in {"Active", "Closed"}

\* A closed session leaves the registry, whoever closed it and whether or not
\* its connection ever ends: it does not hold one of MaxSessions for ever.
ClosedIsRemoved == state = "Closed" ~> ~registered

\* The session implements the abstract lifecycle, a connection's epoch being
\* the one under which it was attached.
Lifecycle == INSTANCE SessionLifecycle WITH owner <- ops, held <- oepoch
LifecycleSpec == Lifecycle!Spec
================================================================================
