------------------------------- MODULE Handshake -------------------------------
(***************************************************************************)
(* The HELLO / WELCOME exchange of one connection, for every configuration *)
(* of its two ends: what Dial or openResume sends, the checks of           *)
(* handleConnection and resumeConnection in their order, the WELCOME they  *)
(* build, and the checks the client makes before it has a session.         *)
(*                                                                         *)
(* The connection may be lost, and either end may run out of time, between *)
(* any two steps.  Names, tickets and keys are abstracted to what the      *)
(* checks tell apart; the limits of both ends passed normalizeLimits, so   *)
(* validateLimitMessage accepts them.                                      *)
(***************************************************************************)
EXTENDS Integers, Sequences, FiniteSetsExt

CONSTANT Grace          \* values of ResumeGrace, in tenths of a millisecond

HandshakeAssumption == Grace \subseteq Nat \ {0}

Role == {"bootstrap", "game"}

\* what the client is configured with, or remembers of the session it resumes
Client == [role : Role, app : {"a", "b"}, group : {"", "g", "long"},
           ticket : {"", "valid"}, credential : {"bad", "brief", "good"},
           expects : {"anyone", "other"}, resume : BOOLEAN]

\* what the server is configured with
Server == [role : Role, requireAdmission : BOOLEAN, closesGroups : BOOLEAN, grace : Grace]

\* what else the server finds when it would admit the session
Situation == {"room", "full", "draining", "closed group"}

VARIABLES
    client, server, situation,      \* chosen once
    datagrams,          \* whether the transport negotiated datagrams
    dial,               \* the client: idle, waiting, connected or failed
    handler,            \* handleConnection: none, reading, admitting, serving or returned
    conn,               \* "none", "open", or the code it was closed with
    welcome,            \* the WELCOME in flight, if any
    session,            \* the server's session
    interrupted         \* whether the connection was lost or time ran out

config == <<client, server, situation, datagrams>>
vars == <<config, dial, handler, conn, welcome, session, interrupted>>

NoSession == [state |-> "none", epoch |-> 0]

\* A resumed session is an earlier one of a game client: it was opened in the
\* same role, and asks for no group, ticket or owner any more.
Init ==
    /\ client \in Client /\ server \in Server /\ situation \in Situation
    /\ datagrams \in BOOLEAN
    /\ client.resume =>
         /\ client.role = "game" /\ server.role = "game" /\ client.app = "a"
         /\ client.group = "" /\ client.ticket = "" /\ client.expects = "anyone"
    /\ dial = "idle" /\ handler = "none" /\ conn = "none" /\ welcome = {}
    /\ session \in {NoSession} \cup
                   (IF client.resume THEN {[state |-> "suspended", epoch |-> 1]} ELSE {})
    /\ interrupted = FALSE

-------------------------------------------------------------------------------
(* The checks, each with the code it closes the connection with. *)

\* The code of the first check that fails, or "Normal".
Verdict(checks) ==
    LET failed == {i \in DOMAIN checks : ~checks[i][1]}
    IN  IF failed = {} THEN "Normal" ELSE checks[Min(failed)][2]

\* handleConnection, up to the authenticated principal.  The server runs app "a".
HelloChecks == <<
    <<client.role = "game" \/ client.resume => datagrams, "UnsupportedCapability">>,
    <<client.group # "long", "InvalidArgument">>,
    <<client.role = server.role /\ client.app = "a", "UnsupportedCapability">>,
    <<client.credential # "bad", "Unauthenticated">> >>

Admitted ==
    \/ server.role = "bootstrap"
    \/ ~server.requireAdmission /\ client.group = ""
    \/ client.ticket = "valid"

\* Fault: a group is admitted without the configuration that can close it.
AdmissionChecksUnclosable == <<
    <<Admitted, "Forbidden">>,
    <<situation = "closed group" => client.group = "", "GroupClosed">>,
    <<situation # "draining", "ServerDraining">>,
    <<situation # "full", "ResourceExhausted">> >>

AdmissionChecks == <<
    <<Admitted, "Forbidden">>,
    <<client.group # "" => server.closesGroups, "InvalidArgument">>,
    <<situation = "closed group" => client.group = "", "GroupClosed">>,
    <<situation # "draining", "ServerDraining">>,
    <<situation # "full", "ResourceExhausted">> >>

ResumeChecks == <<
    <<session.state # "none", "SessionNotFound">>,
    <<session.state # "closed", "SessionExpired">> >>

\* Fault: the resumed WELCOME carries a secret, as the first one does.
WelcomeWithSecret == [
    resumed |-> client.resume, epoch |-> session.epoch,
    resumable |-> server.role = "game", secret |-> server.role = "game",
    graceMS |-> IF server.role = "game" THEN server.grace \div 10 ELSE 0]

\* the grace is sent in whole milliseconds
Welcome == [
    resumed |-> client.resume, epoch |-> session.epoch,
    resumable |-> server.role = "game",
    secret |-> server.role = "game" /\ ~client.resume,
    graceMS |-> IF server.role = "game" THEN server.grace \div 10 ELSE 0]

ValidateClientWelcome(w) ==
    /\ w.resumed = client.resume /\ client.credential = "good"
    /\ ~client.resume => w.epoch = 1
    /\ IF client.role = "bootstrap"
       THEN ~w.resumable /\ w.graceMS = 0 /\ ~w.secret
       ELSE w.resumable /\ w.graceMS > 0 /\ w.secret = ~client.resume

\* Dial, or openResume and attachResume.
WelcomeChecks(w) == <<
    <<client.role = "game" => datagrams, "UnsupportedCapability">>,
    <<ValidateClientWelcome(w), "ProtocolViolation">>,
    <<client.expects # "other", "Forbidden">>,
    <<w.epoch > 0, "ProtocolViolation">> >>

-------------------------------------------------------------------------------
(* The steps. *)

CloseWith(code) == conn' = IF conn = "open" THEN code ELSE conn

Dial ==
    /\ dial = "idle"
    /\ dial' = "waiting" /\ conn' = "open" /\ handler' = "reading"
    /\ UNCHANGED <<config, welcome, session, interrupted>>

ReadHello ==
    /\ handler = "reading" /\ conn = "open"
    /\ IF Verdict(HelloChecks) = "Normal"
       THEN handler' = "admitting" /\ UNCHANGED conn
       ELSE handler' = "returned" /\ conn' = Verdict(HelloChecks)
    /\ UNCHANGED <<config, dial, welcome, session, interrupted>>

\* Registers the session, or takes over the resumed one, whether or not the
\* connection is still there: only the write of the WELCOME tells.  The
\* admission itself fails when its time is over.
Admit ==
    LET found == Verdict(IF client.resume THEN ResumeChecks ELSE AdmissionChecks)
    IN  /\ handler = "admitting"
        /\ \E verdict \in {found} \cup (IF interrupted THEN {"Forbidden"} ELSE {}) :
           IF verdict = "Normal"
           THEN /\ handler' = "welcoming"
                /\ session' = [state |-> "active", epoch |-> session.epoch + 1]
                /\ UNCHANGED conn
           ELSE handler' = "returned" /\ CloseWith(verdict) /\ UNCHANGED session
        /\ UNCHANGED <<config, dial, welcome, interrupted>>

\* finishConnection: every session is suspended, whatever its role.
Suspended == [session EXCEPT !.state = IF @ = "active" THEN "suspended" ELSE @]

WriteWelcome ==
    /\ handler = "welcoming"
    /\ IF conn = "open"
       THEN handler' = "serving" /\ welcome' = {Welcome} /\ UNCHANGED session
       ELSE handler' = "returned" /\ session' = Suspended /\ UNCHANGED welcome
    /\ UNCHANGED <<config, dial, conn, interrupted>>

\* Fault: the handler returns without the deferred finishConnection.
FinishSilently ==
    /\ handler = "serving" /\ conn # "open" /\ handler' = "returned"
    /\ UNCHANGED <<config, dial, conn, welcome, session, interrupted>>

Finish ==
    /\ handler = "serving" /\ conn # "open" /\ handler' = "returned"
    /\ session' = Suspended
    /\ UNCHANGED <<config, dial, conn, welcome, interrupted>>

\* the handler finds the connection gone, or its time over, before the HELLO is accepted
GiveUp ==
    /\ handler = "reading" /\ (interrupted \/ conn # "open")
    /\ handler' = "returned" /\ CloseWith("ProtocolViolation")
    /\ UNCHANGED <<config, dial, welcome, session, interrupted>>

\* Fault: the client keeps what it has when the WELCOME does not hold up.
ReadWelcomeTrusting ==
    /\ dial = "waiting" /\ conn = "open"
    /\ \E w \in welcome : dial' = "connected"
    /\ UNCHANGED <<config, handler, conn, welcome, session, interrupted>>

ReadWelcome ==
    /\ dial = "waiting" /\ conn = "open"
    /\ \E w \in welcome :
         IF Verdict(WelcomeChecks(w)) = "Normal"
         THEN dial' = "connected" /\ UNCHANGED conn
         ELSE dial' = "failed" /\ conn' = Verdict(WelcomeChecks(w))
    /\ UNCHANGED <<config, handler, welcome, session, interrupted>>

\* the read fails: the connection was closed, or the handshake timed out
ReadFails ==
    /\ dial = "waiting" /\ (conn # "open" \/ interrupted)
    /\ dial' = "failed" /\ CloseWith("ProtocolViolation")
    /\ UNCHANGED <<config, handler, welcome, session, interrupted>>

\* the network fails for good, or just for longer than AuthTimeout
Interrupt ==
    /\ conn = "open" /\ ~interrupted /\ dial # "connected"
    /\ interrupted' = TRUE /\ conn' \in {"open", "lost"}
    /\ UNCHANGED <<config, dial, handler, welcome, session>>

\* armGrace: a session that is not resumed in time is closed.
GraceEnds ==
    /\ session.state = "suspended"
    /\ session' = [session EXCEPT !.state = "closed"]
    /\ UNCHANGED <<config, dial, handler, conn, welcome, interrupted>>

Serving == ReadHello \/ Admit \/ WriteWelcome \/ Finish \/ GiveUp

Next == Dial \/ Serving \/ ReadWelcome \/ ReadFails \/ Interrupt \/ GraceEnds

Spec == Init /\ [][Next]_vars

-------------------------------------------------------------------------------
(* Properties. *)

\* What the two configurations must have in common, read off what the fields
\* mean and not off the checks.
Compatible ==
    /\ client.role = server.role /\ client.app = "a" /\ client.group # "long"
    /\ client.role = "game" => datagrams /\ server.grace >= 10
    /\ client.credential = "good" /\ client.expects # "other"
    /\ IF client.resume
       THEN session.state \notin {"none", "closed"}
       ELSE /\ situation \in {"room"} \cup (IF client.group = "" THEN {"closed group"} ELSE {})
            /\ client.group # "" => server.closesGroups
            /\ client.role = "game" /\ (server.requireAdmission \/ client.group # "")
                 => client.ticket = "valid"

\* Two compatible ends always agree: without a loss or a timeout, Dial and a
\* resume fail only for a reason in the configurations.  The checks are in
\* five functions on two sides, and each must accept what the other builds.
HelloRefusedForCause == dial = "failed" /\ ~interrupted => ~Compatible

\* A client that has a session has one the server opened for it: the roles and
\* the application are the same, the group can be closed, and the epoch the
\* client will name is the session's own.
AgreedTerms ==
    dial = "connected" =>
        /\ Compatible
        /\ \E w \in welcome : w.epoch = session.epoch

\* A handshake that fails on one side leaves nothing behind on the other: the
\* client closed the connection, and the session a server registered before its
\* WELCOME was refused or lost is suspended, with a grace timer, once the
\* handler returned.
FailureSuspends ==
    /\ dial = "failed" => conn # "open"
    /\ handler = "returned" => session.state # "active"
================================================================================
