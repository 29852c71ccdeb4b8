-------------------------- MODULE ServerSessionProofs --------------------------
(***************************************************************************)
(* Theorems about ServerSession, for every set of connections, every       *)
(* credential and every bound.  The inductive invariant IInv has three     *)
(* parts: types and what a position says of a credential (Typed), epochs   *)
(* (Fence), and what may be armed, registered or running (Armed).  Each    *)
(* has a lemma with one step per action; the refinement and the action     *)
(* properties follow from IInv step by step (PromisedStep).                *)
(***************************************************************************)
EXTENDS ServerSession, TLAPS

\* What the handlers know about a connection from its position.
ConnInv ==
    \A c \in Conn :
        /\ pc[c] # "idle" => cred[c] \in Principal
        /\ ctl[c] # "off" => pc[c] # "idle"

Typed == TypeOK /\ ConnInv

\* A goroutine that starts to close the session is one of Task.
LEMMA ClosingIsTask ==
    ASSUME NEW code \in Code, NEW remove \in BOOLEAN
    PROVE  Closing(code, remove) \in Task
BY DEF Closing, Task

\* What session.Close leaves behind, whether or not it closed the session.
LEMMA CloseStepsAreTasks ==
    ASSUME NEW t \in Task, NEW d \in Conn \cup {NoConn}
    PROVE  /\ [t EXCEPT !.step = "teardown", !.conn = d] \in Task
           /\ [Closing("Normal", TRUE) EXCEPT !.step = "remove"] \in Task
           /\ t.code \in Code
           /\ t.conn \in Conn \cup {NoConn}
BY Zenon DEF Closing, Task, Code

\* StopEpoch keeps the types of what it touches.
LEMMA StopEpochTyped ==
    ASSUME NEW d \in Conn \cup {NoConn}, TypeOK, StopEpoch(d)
    PROVE  /\ ectx' \in [Conn -> {"none", "live", "stopped"}]
           /\ muted' \in [Conn -> BOOLEAN]
BY Zenon DEF StopEpoch, TypeOK

\* Every action preserves the types.
LEMMA TypedStep ==
    ASSUME Typed, [Next]_vars
    PROVE  Typed'
<1> USE DEF Typed, TypeOK, ConnInv, connVars, sessVars, timerVars, regVars, Goto,
      Principal, NoPrincipal, Code, PC, Off
<1>1. ASSUME NEW c \in Conn, Admit(c) PROVE Typed'
  BY <1>1, ConstAssumption DEF Admit
<1>2. ASSUME NEW c \in Conn, LookupSession(c) PROVE Typed'
  BY <1>2, ConstAssumption DEF LookupSession
<1>3. ASSUME NEW c \in Conn, RejectResume(c) PROVE Typed'
  BY <1>3, ConstAssumption DEF RejectResume
<1>4. ASSUME NEW c \in Conn, CommitResume(c) PROVE Typed'
  BY <1>4, ConstAssumption DEF CommitResume, StopGraceTimer, MayResume, NextEpoch
<1>5. ASSUME NEW c \in Conn, Supersede(c) PROVE Typed'
  BY <1>5, StopEpochTyped DEF Supersede
<1>6. ASSUME NEW c \in Conn, Sever(c) PROVE Typed'
  <2>1. alive' \in [Conn -> BOOLEAN]
    BY Zenon, <1>6 DEF Sever
  <2> QED
    BY <1>6, <2>1 DEF Sever
<1>7. ASSUME NEW c \in Conn, ArmExpiry(c) PROVE Typed'
  BY <1>7, ConstAssumption DEF ArmExpiry, ArmExpiryAt
<1>8. ASSUME NEW c \in Conn, Welcome(c) PROVE Typed'
  BY <1>8, ConstAssumption DEF Welcome
<1>9. ASSUME NEW c \in Conn, WelcomeFails(c) PROVE Typed'
  BY <1>9, ConstAssumption DEF WelcomeFails
<1>10. ASSUME NEW c \in Conn, StartEpoch(c) PROVE Typed'
  BY <1>10, ConstAssumption DEF StartEpoch
<1>11. ASSUME NEW c \in Conn, Suspend(c) PROVE Typed'
  BY <1>11, StopEpochTyped DEF Suspend
<1>12. ASSUME NEW c \in Conn, NotCurrent(c) PROVE Typed'
  BY <1>12, ConstAssumption DEF NotCurrent
<1>13. ASSUME NEW c \in Conn, ArmGrace(c) PROVE Typed'
  <2>1. GraceDeadline.at \in Nat /\ GraceDeadline.code \in Code
    <3>1. clock \in Nat
      BY ConstAssumption
    <3>2. Expiry \subseteq Nat
      BY ConstAssumption
    <3>3. principal.exp \in Nat
      <4>1. CASE principal \in Principal
        BY Zenon, <3>2, <4>1
      <4>2. CASE principal = NoPrincipal
        BY <4>2
      <4> QED
        BY <4>1, <4>2
    <3> QED
      BY <3>1, <3>3, ConstAssumption DEF GraceDeadline
  <2> QED
    BY <1>13, <2>1 DEF ArmGrace
<1>14. ASSUME NEW c \in Conn, RemoveIfClosed(c) PROVE Typed'
  <2>1. registered' \in BOOLEAN /\ issued' \in BOOLEAN
    BY Zenon, <1>14 DEF RemoveIfClosed, RemoveSession
  <2> QED
    BY <1>14, <2>1 DEF RemoveIfClosed, RemoveSession, StopGraceTimer
<1>15. ASSUME NEW c \in Conn, RefreshSet(c) PROVE Typed'
  BY <1>15, ConstAssumption DEF RefreshSet
<1>16. ASSUME NEW c \in Conn, RefreshArm(c) PROVE Typed'
  BY <1>16, ConstAssumption DEF RefreshArm, ArmExpiryAt
<1>17. ASSUME NEW c \in Conn, RemoteClose(c) PROVE Typed'
  <2>1. /\ ectx' \in [Conn -> {"none", "live", "stopped"}]
        /\ muted' \in [Conn -> BOOLEAN]
    BY <1>17, StopEpochTyped DEF RemoteClose
  <2>2. alive' \in [Conn -> BOOLEAN]
    BY <1>17 DEF RemoteClose
  <2> QED
    <3>1. /\ state' \in {"None", "Active", "Suspended", "Closed"}
          /\ terminal' \in Code
          /\ ctl' = [ctl EXCEPT ![c] = "off"]
          /\ UNCHANGED <<clock, pc, cred, prev, oepoch, epoch, ops, principal,
                         timerVars, regVars, tasks>>
      BY <1>17 DEF RemoteClose
    <3> QED
      BY <2>1, <2>2, <3>1
<1>18. ASSUME NEW c \in Conn, ConnLost(c) PROVE Typed'
  BY <1>18, ConstAssumption DEF ConnLost
<1>19. ASSUME NEW c \in Conn, NEW p \in Principal, FreshHello(c, p) PROVE Typed'
  BY <1>19, ConstAssumption DEF FreshHello
<1>20. ASSUME NEW c \in Conn, NEW p \in Principal, ResumeHello(c, p) PROVE Typed'
  BY <1>20, ConstAssumption DEF ResumeHello
<1>21. ASSUME NEW c \in Conn, NEW p \in Principal, RefreshAuthenticated(c, p) PROVE
      Typed'
  BY <1>21, ConstAssumption DEF RefreshAuthenticated
<1>22. ASSUME NEW c \in Conn, NEW kind \in FinalFrames, ReadFinalFrame(c, kind)
      PROVE Typed'
  BY <1>22, ConstAssumption DEF ReadFinalFrame
<1>23. ASSUME NEW t \in tasks, TaskClose(t) PROVE Typed'
  <2>1. t \in Task
    OBVIOUS
  <2>2. tasks' \subseteq Task
    <3>1. CASE state # "Closed"
      <4>1. tasks' = (tasks \ {t}) \cup {[t EXCEPT !.step = "teardown", !.conn =
            ops]}
        BY <1>23, <3>1 DEF TaskClose
      <4> QED
        BY Zenon, <2>1, <4>1, CloseStepsAreTasks
    <3>2. CASE state = "Closed"
      BY ZenonT(30), <1>23, <2>1, <3>2, CloseStepsAreTasks DEF TaskClose, CloseReturns
    <3> QED
      BY <3>1, <3>2
  <2>3. t.code \in Code
    BY Zenon, <2>1, CloseStepsAreTasks
  <2> QED
    BY <1>23, <2>2, <2>3 DEF TaskClose
<1>24. ASSUME NEW t \in tasks, TaskTeardown(t) PROVE Typed'
  <2>1. t \in Task /\ t.conn \in Conn \cup {NoConn}
    BY Zenon, CloseStepsAreTasks
  <2>2. tasks' \subseteq Task
    BY Zenon, <1>24, <2>1, CloseStepsAreTasks DEF TaskTeardown, CloseReturns
  <2>3. /\ ectx' \in [Conn -> {"none", "live", "stopped"}]
        /\ muted' \in [Conn -> BOOLEAN]
    BY <1>24, <2>1, StopEpochTyped DEF TaskTeardown
  <2>4. alive' \in [Conn -> BOOLEAN]
    BY Zenon, <1>24 DEF TaskTeardown
  <2> QED
    BY <1>24, <2>2, <2>3, <2>4 DEF TaskTeardown
<1>25. ASSUME NEW t \in tasks, TaskRemove(t) PROVE Typed'
  <2>1. tasks' \subseteq Task /\ registered' \in BOOLEAN /\ issued' \in BOOLEAN
    BY Zenon, <1>25 DEF TaskRemove, RemoveSession
  <2>2. /\ expiryTimer' = Off /\ graceAt' = Off
        /\ UNCHANGED <<clock, connVars, sessVars, graceCode>>
    BY <1>25 DEF TaskRemove, RemoveSession, StopGraceTimer
  <2> QED
    BY <2>1, <2>2
<1>26. CASE ExpiryFires
  <2>1. Closing("AuthExpired", TRUE) \in Task
    BY Zenon, ClosingIsTask
  <2>2. tasks' \subseteq Task
    BY Zenon, <1>26, <2>1 DEF ExpiryFires
  <2>3. expiryTimer' = Off /\ UNCHANGED <<clock, connVars, sessVars, graceAt,
        graceCode, regVars>>
    BY <1>26 DEF ExpiryFires
  <2> QED
    BY <2>2, <2>3
<1>27. CASE GraceFires
  <2>1. Closing(graceCode, TRUE) \in Task
    BY Zenon, ClosingIsTask
  <2>2. tasks' \subseteq Task
    BY Zenon, <1>27, <2>1 DEF GraceFires
  <2>3. /\ graceAt' = Off
        /\ UNCHANGED <<clock, connVars, sessVars, expiryTimer, graceCode, regVars>>
    BY <1>27 DEF GraceFires, StopGraceTimer
  <2> QED
    BY <2>2, <2>3
<1>28. CASE AppClose
  <2>1. Closing("Normal", FALSE) \in Task
    BY Zenon, ClosingIsTask
  <2>2. tasks' \subseteq Task
    BY Zenon, <1>28, <2>1 DEF AppClose
  <2>3. UNCHANGED <<clock, connVars, sessVars, timerVars, regVars>>
    BY <1>28 DEF AppClose
  <2> QED
    BY <2>2, <2>3
<1>29. CASE AdminClose
  <2>1. Closing("Forbidden", TRUE) \in Task
    BY Zenon, ClosingIsTask
  <2>2. tasks' \subseteq Task
    BY Zenon, <1>29, <2>1 DEF AdminClose
  <2>3. UNCHANGED <<clock, connVars, sessVars, timerVars, regVars>>
    BY <1>29 DEF AdminClose
  <2> QED
    BY <2>2, <2>3
<1>30. CASE Tick
  BY <1>30, ConstAssumption DEF Tick
<1>31. CASE Quiescent
  BY <1>31, ConstAssumption DEF Quiescent, vars
<1>32. CASE UNCHANGED vars
  BY <1>32 DEF vars
<1> HIDE DEF Typed, TypeOK, ConnInv, connVars, sessVars, timerVars, regVars,
             Goto, Principal, NoPrincipal, Code, PC, Off
<1> QED
  BY Zenon, <1>1, <1>2, <1>3, <1>4, <1>5, <1>6, <1>7, <1>8, <1>9, <1>10, <1>11,
     <1>12, <1>13, <1>14, <1>15, <1>16, <1>17, <1>18, <1>19, <1>20, <1>21, <1>22,
     <1>23, <1>24, <1>25, <1>26, <1>27, <1>28, <1>29, <1>30, <1>31, <1>32
  DEF Next, Handler, Control, Arrival, TaskStep

--------------------------------------------------------------------------------
\* How a connection's position and epoch relate to the session's.
Fence ==
    /\ EpochIdentifiesConnection
    /\ state = "None" <=> epoch = 0
    /\ issued => state # "None"
    /\ \A c \in Conn :
          /\ pc[c] \in {"resume", "commit"} => issued
          /\ pc[c] = "admit" =>
                state = "None" /\ \A d \in Conn \ {c} : pc[d] = "idle"
          /\ pc[c] \in {"idle", "admit", "resume", "commit"} => oepoch[c] = 0
          /\ pc[c] \notin {"idle", "admit", "resume", "commit", "done"} => oepoch[c]
                > 0
          /\ ctl[c] # "off" => oepoch[c] > 0
          /\ ctl[c] = "set" => cred[c].sub = principal.sub

\* What is armed, registered or running in each state of the session.
Armed ==
    /\ NoGraceTimerWhileActive
    /\ UnregisteredIsClosed
    /\ state = "None" => expiryTimer = Off /\ ~registered /\ tasks = {}
    /\ state \in {"Active", "Suspended"} => registered
    /\ \A t \in tasks : t.step # "close" => state = "Closed"

IInv == Typed /\ Fence /\ Armed

\* Every action preserves the fence.
LEMMA FenceStep ==
    ASSUME IInv, [Next]_vars
    PROVE  Fence'
<1> USE DEF IInv, Typed, TypeOK, ConnInv, Fence, Armed, EpochIdentifiesConnection,
      connVars, sessVars, timerVars, regVars, Goto
<1>1. ASSUME NEW c \in Conn, Admit(c) PROVE Fence'
  BY <1>1, ConstAssumption DEF Admit
<1>2. ASSUME NEW c \in Conn, LookupSession(c) PROVE Fence'
  BY <1>2, ConstAssumption DEF LookupSession
<1>3. ASSUME NEW c \in Conn, RejectResume(c) PROVE Fence'
  BY <1>3, ConstAssumption DEF RejectResume
<1>4. ASSUME NEW c \in Conn, CommitResume(c) PROVE Fence'
  BY <1>4, ConstAssumption DEF CommitResume, StopGraceTimer, MayResume, NextEpoch
<1>5. ASSUME NEW c \in Conn, Supersede(c) PROVE Fence'
  BY <1>5, ConstAssumption DEF Supersede, StopEpoch
<1>6. ASSUME NEW c \in Conn, Sever(c) PROVE Fence'
  BY <1>6, ConstAssumption DEF Sever
<1>7. ASSUME NEW c \in Conn, ArmExpiry(c) PROVE Fence'
  BY <1>7, ConstAssumption DEF ArmExpiry, ArmExpiryAt
<1>8. ASSUME NEW c \in Conn, Welcome(c) PROVE Fence'
  BY <1>8, ConstAssumption DEF Welcome
<1>9. ASSUME NEW c \in Conn, WelcomeFails(c) PROVE Fence'
  BY <1>9, ConstAssumption DEF WelcomeFails
<1>10. ASSUME NEW c \in Conn, StartEpoch(c) PROVE Fence'
  BY <1>10, ConstAssumption DEF StartEpoch
<1>11. ASSUME NEW c \in Conn, Suspend(c) PROVE Fence'
  BY <1>11, ConstAssumption DEF Suspend, StopEpoch
<1>12. ASSUME NEW c \in Conn, NotCurrent(c) PROVE Fence'
  BY <1>12, ConstAssumption DEF NotCurrent
<1>13. ASSUME NEW c \in Conn, ArmGrace(c) PROVE Fence'
  BY <1>13, ConstAssumption DEF ArmGrace, GraceDeadline
<1>14. ASSUME NEW c \in Conn, RemoveIfClosed(c) PROVE Fence'
  BY <1>14, ConstAssumption DEF RemoveIfClosed, RemoveSession, StopGraceTimer
<1>15. ASSUME NEW c \in Conn, RefreshSet(c) PROVE Fence'
  BY <1>15, ConstAssumption DEF RefreshSet
<1>16. ASSUME NEW c \in Conn, RefreshArm(c) PROVE Fence'
  BY <1>16, ConstAssumption DEF RefreshArm, ArmExpiryAt
<1>17. ASSUME NEW c \in Conn, RemoteClose(c) PROVE Fence'
  BY <1>17, ConstAssumption DEF RemoteClose, StopEpoch
<1>18. ASSUME NEW c \in Conn, ConnLost(c) PROVE Fence'
  BY <1>18, ConstAssumption DEF ConnLost
<1>19. ASSUME NEW c \in Conn, NEW p \in Principal, FreshHello(c, p) PROVE Fence'
  BY <1>19, ConstAssumption DEF FreshHello
<1>20. ASSUME NEW c \in Conn, NEW p \in Principal, ResumeHello(c, p) PROVE Fence'
  BY <1>20, ConstAssumption DEF ResumeHello
<1>21. ASSUME NEW c \in Conn, NEW p \in Principal, RefreshAuthenticated(c, p) PROVE
      Fence'
  BY <1>21, ConstAssumption DEF RefreshAuthenticated
<1>22. ASSUME NEW c \in Conn, NEW kind \in FinalFrames, ReadFinalFrame(c, kind)
      PROVE Fence'
  BY <1>22, ConstAssumption DEF ReadFinalFrame
<1>23. ASSUME NEW t \in tasks, TaskClose(t) PROVE Fence'
  BY <1>23, ConstAssumption DEF TaskClose, CloseReturns, Closing
<1>24. ASSUME NEW t \in tasks, TaskTeardown(t) PROVE Fence'
  BY <1>24, ConstAssumption DEF TaskTeardown, StopEpoch, CloseReturns, Closing
<1>25. ASSUME NEW t \in tasks, TaskRemove(t) PROVE Fence'
  BY <1>25, ConstAssumption DEF TaskRemove, RemoveSession, StopGraceTimer
<1>26. CASE ExpiryFires
  BY <1>26, ConstAssumption DEF ExpiryFires, Closing
<1>27. CASE GraceFires
  BY <1>27, ConstAssumption DEF GraceFires, StopGraceTimer, Closing
<1>28. CASE AppClose
  BY <1>28, ConstAssumption DEF AppClose, Closing
<1>29. CASE AdminClose
  BY <1>29, ConstAssumption DEF AdminClose, Closing
<1>30. CASE Tick
  BY <1>30, ConstAssumption DEF Tick
<1>31. CASE Quiescent
  BY <1>31, ConstAssumption DEF Quiescent, vars
<1>32. CASE UNCHANGED vars
  BY SMTT(30), <1>32 DEF vars
<1> HIDE DEF IInv, Typed, TypeOK, ConnInv, Fence, Armed,
             EpochIdentifiesConnection, connVars, sessVars, timerVars, regVars,
             Goto
<1> QED
  BY Zenon, <1>1, <1>2, <1>3, <1>4, <1>5, <1>6, <1>7, <1>8, <1>9, <1>10, <1>11,
     <1>12, <1>13, <1>14, <1>15, <1>16, <1>17, <1>18, <1>19, <1>20, <1>21, <1>22,
     <1>23, <1>24, <1>25, <1>26, <1>27, <1>28, <1>29, <1>30, <1>31, <1>32
  DEF Next, Handler, Control, Arrival, TaskStep

\* Every action preserves what is armed and registered.
LEMMA ArmedStep ==
    ASSUME IInv, [Next]_vars
    PROVE  Armed'
<1> USE DEF IInv, Typed, TypeOK, ConnInv, Fence, Armed, EpochIdentifiesConnection,
      NoGraceTimerWhileActive, UnregisteredIsClosed, connVars, sessVars, timerVars,
      regVars, Goto, Off
<1>1. ASSUME NEW c \in Conn, Admit(c) PROVE Armed'
  BY <1>1, ConstAssumption DEF Admit
<1>2. ASSUME NEW c \in Conn, LookupSession(c) PROVE Armed'
  BY <1>2, ConstAssumption DEF LookupSession
<1>3. ASSUME NEW c \in Conn, RejectResume(c) PROVE Armed'
  BY <1>3, ConstAssumption DEF RejectResume
<1>4. ASSUME NEW c \in Conn, CommitResume(c) PROVE Armed'
  BY <1>4, ConstAssumption DEF CommitResume, StopGraceTimer, MayResume, NextEpoch
<1>5. ASSUME NEW c \in Conn, Supersede(c) PROVE Armed'
  BY <1>5, ConstAssumption DEF Supersede, StopEpoch
<1>6. ASSUME NEW c \in Conn, Sever(c) PROVE Armed'
  BY <1>6, ConstAssumption DEF Sever
<1>7. ASSUME NEW c \in Conn, ArmExpiry(c) PROVE Armed'
  BY <1>7, ConstAssumption DEF ArmExpiry, ArmExpiryAt
<1>8. ASSUME NEW c \in Conn, Welcome(c) PROVE Armed'
  BY <1>8, ConstAssumption DEF Welcome
<1>9. ASSUME NEW c \in Conn, WelcomeFails(c) PROVE Armed'
  BY <1>9, ConstAssumption DEF WelcomeFails
<1>10. ASSUME NEW c \in Conn, StartEpoch(c) PROVE Armed'
  BY <1>10, ConstAssumption DEF StartEpoch
<1>11. ASSUME NEW c \in Conn, Suspend(c) PROVE Armed'
  BY <1>11, ConstAssumption DEF Suspend, StopEpoch
<1>12. ASSUME NEW c \in Conn, NotCurrent(c) PROVE Armed'
  BY <1>12, ConstAssumption DEF NotCurrent
<1>13. ASSUME NEW c \in Conn, ArmGrace(c) PROVE Armed'
  BY <1>13, ConstAssumption DEF ArmGrace, GraceDeadline
<1>14. ASSUME NEW c \in Conn, RemoveIfClosed(c) PROVE Armed'
  BY <1>14, ConstAssumption DEF RemoveIfClosed, RemoveSession, StopGraceTimer
<1>15. ASSUME NEW c \in Conn, RefreshSet(c) PROVE Armed'
  BY <1>15, ConstAssumption DEF RefreshSet
<1>16. ASSUME NEW c \in Conn, RefreshArm(c) PROVE Armed'
  BY <1>16, ConstAssumption DEF RefreshArm, ArmExpiryAt
<1>17. ASSUME NEW c \in Conn, RemoteClose(c) PROVE Armed'
  BY <1>17, ConstAssumption DEF RemoteClose, StopEpoch
<1>18. ASSUME NEW c \in Conn, ConnLost(c) PROVE Armed'
  BY <1>18, ConstAssumption DEF ConnLost
<1>19. ASSUME NEW c \in Conn, NEW p \in Principal, FreshHello(c, p) PROVE Armed'
  BY <1>19, ConstAssumption DEF FreshHello
<1>20. ASSUME NEW c \in Conn, NEW p \in Principal, ResumeHello(c, p) PROVE Armed'
  BY <1>20, ConstAssumption DEF ResumeHello
<1>21. ASSUME NEW c \in Conn, NEW p \in Principal, RefreshAuthenticated(c, p) PROVE
      Armed'
  BY <1>21, ConstAssumption DEF RefreshAuthenticated
<1>22. ASSUME NEW c \in Conn, NEW kind \in FinalFrames, ReadFinalFrame(c, kind)
      PROVE Armed'
  BY <1>22, ConstAssumption DEF ReadFinalFrame
<1>23. ASSUME NEW t \in tasks, TaskClose(t) PROVE Armed'
  BY <1>23, ConstAssumption DEF TaskClose, CloseReturns, Closing
<1>24. ASSUME NEW t \in tasks, TaskTeardown(t) PROVE Armed'
  BY <1>24, ConstAssumption DEF TaskTeardown, StopEpoch, CloseReturns, Closing
<1>25. ASSUME NEW t \in tasks, TaskRemove(t) PROVE Armed'
  BY <1>25, ConstAssumption DEF TaskRemove, RemoveSession, StopGraceTimer
<1>26. CASE ExpiryFires
  BY <1>26, ConstAssumption DEF ExpiryFires, Closing
<1>27. CASE GraceFires
  BY <1>27, ConstAssumption DEF GraceFires, StopGraceTimer, Closing
<1>28. CASE AppClose
  BY <1>28, ConstAssumption DEF AppClose, Closing
<1>29. CASE AdminClose
  BY <1>29, ConstAssumption DEF AdminClose, Closing
<1>30. CASE Tick
  BY <1>30, ConstAssumption DEF Tick
<1>31. CASE Quiescent
  BY <1>31, ConstAssumption DEF Quiescent, vars
<1>32. CASE UNCHANGED vars
  BY <1>32 DEF vars
<1> HIDE DEF IInv, Typed, TypeOK, ConnInv, Fence, Armed,
             EpochIdentifiesConnection, NoGraceTimerWhileActive,
             UnregisteredIsClosed, connVars, sessVars, timerVars, regVars, Goto,
             Off
<1> QED
  BY Zenon, <1>1, <1>2, <1>3, <1>4, <1>5, <1>6, <1>7, <1>8, <1>9, <1>10, <1>11,
     <1>12, <1>13, <1>14, <1>15, <1>16, <1>17, <1>18, <1>19, <1>20, <1>21, <1>22,
     <1>23, <1>24, <1>25, <1>26, <1>27, <1>28, <1>29, <1>30, <1>31, <1>32
  DEF Next, Handler, Control, Arrival, TaskStep

--------------------------------------------------------------------------------
\* The inductive invariant holds in every reachable state.
THEOREM Invariance == Spec => []IInv
<1>1. Init => IInv
  <2> SUFFICES ASSUME Init PROVE IInv
    OBVIOUS
  <2>1. Typed
    <3>1. /\ pc \in [Conn -> PC]
          /\ ctl \in [Conn -> {"off", "read", "set", "arm", "close", "abort"}]
          /\ terminal \in Code /\ graceCode \in Code
      BY DEF Init, PC, Code
    <3>2. /\ clock \in 0..MaxTime /\ epoch \in 0..MaxEpoch
          /\ oepoch \in [Conn -> 0..MaxEpoch]
      BY ConstAssumption DEF Init
    <3>3. issued \in BOOLEAN /\ registered \in BOOLEAN
      BY Zenon DEF Init
    <3> QED
      BY <3>1, <3>2, <3>3 DEF Init, Typed, TypeOK, ConnInv
  <2>2. Fence
    BY ConstAssumption DEF Init, Fence, EpochIdentifiesConnection
  <2>3. Armed
    BY DEF Init, Armed, NoGraceTimerWhileActive, UnregisteredIsClosed
  <2> QED
    BY <2>1, <2>2, <2>3 DEF IInv
<1>2. IInv /\ [Next]_vars => IInv'
  BY TypedStep, FenceStep, ArmedStep DEF IInv
<1> QED
  BY <1>1, <1>2, PTL DEF Spec

\* Every variable keeps its type for any number of connections, resumes and
\* closing goroutines; in particular resumeConnection never wraps the epoch.
THEOREM TypeCorrect == Spec => []TypeOK
<1>1. IInv => TypeOK
  BY DEF IInv, Typed
<1> QED
  BY <1>1, Invariance, PTL

\* No two connections ever hold the same epoch, and the record always carries
\* the epoch of the connection that resumeConnection attached last.
THEOREM EpochFencing == Spec => []EpochIdentifiesConnection
<1>1. IInv => EpochIdentifiesConnection
  BY DEF IInv, Fence
<1> QED
  BY <1>1, Invariance, PTL

\* armGrace never leaves a timer on a session that a resume made active.
THEOREM GraceOnlyOffline == Spec => []NoGraceTimerWhileActive
<1>1. IInv => NoGraceTimerWhileActive
  BY DEF IInv, Armed
<1> QED
  BY <1>1, Invariance, PTL

\* removeSession only ever runs on a session that is closed.
THEOREM RemovalFollowsClose == Spec => []UnregisteredIsClosed
<1>1. IInv => UnregisteredIsClosed
  BY DEF IInv, Armed
<1> QED
  BY <1>1, Invariance, PTL

\* What a step may do: one step of the abstract lifecycle, never a change of
\* subject, and a suspension only when the attached connection is lost.
Promised ==
    /\ [Lifecycle!Next]_(Lifecycle!vars)
    /\ state # "None" => principal'.sub = principal.sub
    /\ state = "Active" /\ state' = "Suspended" => ~alive[ops]

\* Every step keeps the promises.
LEMMA PromisedStep ==
    ASSUME IInv, [Next]_vars
    PROVE  Promised
<1> USE DEF connVars, sessVars, timerVars, regVars, Goto, Promised, Lifecycle!Next,
            Lifecycle!vars, Lifecycle!Attach, Lifecycle!Suspend, Lifecycle!Close
<1>1. ASSUME NEW c \in Conn, Admit(c) PROVE Promised
  <2>1. state = "None" /\ epoch = 0 /\ oepoch[c] = 0
    BY <1>1 DEF IInv, Typed, TypeOK, Fence, Armed, EpochIdentifiesConnection, Admit
  <2>2. Lifecycle!Attach(c)
    BY SMTT(20), <1>1, <2>1 DEF IInv, Typed, TypeOK, Fence, Armed, EpochIdentifiesConnection,
       Admit
  <2> QED
    BY Zenon, <2>1, <2>2
<1>2. ASSUME NEW c \in Conn, LookupSession(c) PROVE Promised
  BY <1>2, ConstAssumption DEF LookupSession
<1>3. ASSUME NEW c \in Conn, RejectResume(c) PROVE Promised
  BY <1>3, ConstAssumption DEF RejectResume
<1>4. ASSUME NEW c \in Conn, CommitResume(c) PROVE Promised
  BY Zenon, <1>4, ConstAssumption DEF IInv, Typed, TypeOK, Fence, Armed,
     EpochIdentifiesConnection, CommitResume, StopGraceTimer, MayResume, NextEpoch
<1>5. ASSUME NEW c \in Conn, Supersede(c) PROVE Promised
  BY <1>5, ConstAssumption DEF Supersede, StopEpoch
<1>6. ASSUME NEW c \in Conn, Sever(c) PROVE Promised
  BY <1>6, ConstAssumption DEF Sever
<1>7. ASSUME NEW c \in Conn, ArmExpiry(c) PROVE Promised
  BY <1>7, ConstAssumption DEF ArmExpiry, ArmExpiryAt
<1>8. ASSUME NEW c \in Conn, Welcome(c) PROVE Promised
  BY <1>8, ConstAssumption DEF Welcome
<1>9. ASSUME NEW c \in Conn, WelcomeFails(c) PROVE Promised
  BY <1>9, ConstAssumption DEF WelcomeFails
<1>10. ASSUME NEW c \in Conn, StartEpoch(c) PROVE Promised
  BY <1>10, ConstAssumption DEF StartEpoch
<1>11. ASSUME NEW c \in Conn, Suspend(c) PROVE Promised
  BY <1>11, ConstAssumption DEF Suspend, StopEpoch
<1>12. ASSUME NEW c \in Conn, NotCurrent(c) PROVE Promised
  BY <1>12, ConstAssumption DEF NotCurrent
<1>13. ASSUME NEW c \in Conn, ArmGrace(c) PROVE Promised
  BY <1>13, ConstAssumption DEF ArmGrace, GraceDeadline
<1>14. ASSUME NEW c \in Conn, RemoveIfClosed(c) PROVE Promised
  BY SMTT(30), <1>14, ConstAssumption DEF RemoveIfClosed, RemoveSession, StopGraceTimer
<1>15. ASSUME NEW c \in Conn, RefreshSet(c) PROVE Promised
  BY SMTT(20), <1>15, ConstAssumption DEF IInv, Typed, TypeOK, Fence, Armed,
     EpochIdentifiesConnection, RefreshSet
<1>16. ASSUME NEW c \in Conn, RefreshArm(c) PROVE Promised
  BY SMTT(30), <1>16, ConstAssumption DEF RefreshArm, ArmExpiryAt
<1>17. ASSUME NEW c \in Conn, RemoteClose(c) PROVE Promised
  BY <1>17, ConstAssumption DEF IInv, Typed, TypeOK, Fence, Armed,
     EpochIdentifiesConnection, RemoteClose, StopEpoch
<1>18. ASSUME NEW c \in Conn, ConnLost(c) PROVE Promised
  BY <1>18, ConstAssumption DEF ConnLost
<1>19. ASSUME NEW c \in Conn, NEW p \in Principal, FreshHello(c, p) PROVE Promised
  BY <1>19, ConstAssumption DEF FreshHello
<1>20. ASSUME NEW c \in Conn, NEW p \in Principal, ResumeHello(c, p) PROVE Promised
  BY <1>20, ConstAssumption DEF ResumeHello
<1>21. ASSUME NEW c \in Conn, NEW p \in Principal, RefreshAuthenticated(c, p) PROVE
      Promised
  BY <1>21, ConstAssumption DEF RefreshAuthenticated
<1>22. ASSUME NEW c \in Conn, NEW kind \in FinalFrames, ReadFinalFrame(c, kind)
      PROVE Promised
  BY <1>22, ConstAssumption DEF ReadFinalFrame
<1>23. ASSUME NEW t \in tasks, TaskClose(t) PROVE Promised
  BY <1>23, ConstAssumption DEF IInv, Typed, TypeOK, Fence, Armed,
     EpochIdentifiesConnection, TaskClose, CloseReturns, Closing
<1>24. ASSUME NEW t \in tasks, TaskTeardown(t) PROVE Promised
  BY <1>24, ConstAssumption DEF TaskTeardown, StopEpoch, CloseReturns, Closing
<1>25. ASSUME NEW t \in tasks, TaskRemove(t) PROVE Promised
  BY <1>25, ConstAssumption DEF TaskRemove, RemoveSession, StopGraceTimer
<1>26. CASE ExpiryFires
  BY <1>26, ConstAssumption DEF ExpiryFires, Closing
<1>27. CASE GraceFires
  BY SMTT(30), <1>27, ConstAssumption DEF GraceFires, StopGraceTimer, Closing
<1>28. CASE AppClose
  BY <1>28, ConstAssumption DEF AppClose, Closing
<1>29. CASE AdminClose
  BY <1>29, ConstAssumption DEF AdminClose, Closing
<1>30. CASE Tick
  BY <1>30, ConstAssumption DEF Tick
<1>31. CASE Quiescent
  BY <1>31, ConstAssumption DEF Quiescent, vars
<1>32. CASE UNCHANGED vars
  BY <1>32 DEF vars
<1> HIDE DEF connVars, sessVars, timerVars, regVars, Goto, Promised, Lifecycle!Next,
             Lifecycle!vars, Lifecycle!Attach, Lifecycle!Suspend, Lifecycle!Close
<1> QED
  BY Zenon, <1>1, <1>2, <1>3, <1>4, <1>5, <1>6, <1>7, <1>8, <1>9, <1>10, <1>11,
     <1>12, <1>13, <1>14, <1>15, <1>16, <1>17, <1>18, <1>19, <1>20, <1>21, <1>22,
     <1>23, <1>24, <1>25, <1>26, <1>27, <1>28, <1>29, <1>30, <1>31, <1>32
  DEF Next, Handler, Control, Arrival, TaskStep

\* The session implements SessionLifecycle: it is attached once per epoch, by
\* connections that never return, and stays closed once it is closed.
THEOREM Refinement == Spec => LifecycleSpec
<1>1. Init => Lifecycle!Init
  BY DEF Init, Lifecycle!Init
<1>2. IInv /\ [Next]_vars => [Lifecycle!Next]_(Lifecycle!vars)
  BY PromisedStep DEF Promised
<1> QED
  BY <1>1, <1>2, Invariance, PTL DEF Spec, LifecycleSpec, Lifecycle!Spec

\* Neither resumeConnection nor handleRefresh gives the session to another
\* subject.
THEOREM SubjectFixed == Spec => SubjectNeverChanges
<1>1. IInv /\ [Next]_vars => [state # "None" => principal'.sub = principal.sub]_vars
  BY PromisedStep DEF Promised
<1> QED
  BY <1>1, Invariance, PTL DEF Spec, SubjectNeverChanges

\* suspendIfCurrent ignores every connection but the one attached last.
THEOREM SuspensionByOwner == Spec => OnlyOwnerLossSuspends
<1>1. IInv /\ [Next]_vars =>
        [state = "Active" /\ state' = "Suspended" => ~alive[ops]]_vars
  BY PromisedStep DEF Promised
<1> QED
  BY <1>1, Invariance, PTL DEF Spec, OnlyOwnerLossSuspends
--------------------------------------------------------------------------------
\* What a step leaves alone when it keeps a suspended session timed.
TimingKept ==
    /\ UNCHANGED <<clock, state, graceAt, tasks>>
    /\ \A c \in Conn : pc[c] = "lost" => pc'[c] = "lost"

\* Every action keeps a suspended session timed: the handler that lost the
\* connection gives way to the timer, and the timer to its callback.
LEMMA TimedStep ==
    ASSUME IInv, SuspendedIsTimed, [Next]_vars
    PROVE  SuspendedIsTimed'
<1>1. ASSUME TimingKept PROVE SuspendedIsTimed'
  BY Zenon, <1>1 DEF TimingKept, SuspendedIsTimed
<1>2. ASSUME state' # "Suspended" PROVE SuspendedIsTimed'
  BY <1>2 DEF SuspendedIsTimed
<1>3. pc \in [Conn -> PC] /\ clock \in Nat /\ ResumeGrace \in Nat
  <2>1. pc \in [Conn -> PC] /\ clock \in 0..MaxTime
    BY Zenon DEF IInv, Typed, TypeOK
  <2> QED
    BY <2>1, ConstAssumption
<1> USE DEF connVars, sessVars, timerVars, regVars, Goto, TimingKept
<1>4. ASSUME NEW c \in Conn, Admit(c) PROVE SuspendedIsTimed'
  BY <1>2, <1>4 DEF Admit
<1>5. ASSUME NEW c \in Conn, LookupSession(c) PROVE SuspendedIsTimed'
  BY <1>1, <1>3, <1>5 DEF LookupSession
<1>6. ASSUME NEW c \in Conn, RejectResume(c) PROVE SuspendedIsTimed'
  BY <1>1, <1>3, <1>6 DEF RejectResume
<1>7. ASSUME NEW c \in Conn, CommitResume(c) PROVE SuspendedIsTimed'
  BY <1>2, <1>7 DEF CommitResume
<1>8. ASSUME NEW c \in Conn, Supersede(c) PROVE SuspendedIsTimed'
  BY <1>1, <1>3, <1>8 DEF Supersede, StopEpoch
<1>9. ASSUME NEW c \in Conn, Sever(c) PROVE SuspendedIsTimed'
  BY <1>1, <1>3, <1>9 DEF Sever
<1>10. ASSUME NEW c \in Conn, ArmExpiry(c) PROVE SuspendedIsTimed'
  BY <1>1, <1>3, <1>10 DEF ArmExpiry, ArmExpiryAt
<1>11. ASSUME NEW c \in Conn, Welcome(c) PROVE SuspendedIsTimed'
  BY <1>1, <1>3, <1>11 DEF Welcome
<1>12. ASSUME NEW c \in Conn, WelcomeFails(c) PROVE SuspendedIsTimed'
  BY <1>1, <1>3, <1>12 DEF WelcomeFails
<1>13. ASSUME NEW c \in Conn, StartEpoch(c) PROVE SuspendedIsTimed'
  BY <1>1, <1>3, <1>13 DEF StartEpoch
<1>14. ASSUME NEW c \in Conn, Suspend(c) PROVE SuspendedIsTimed'
  BY <1>3, <1>14 DEF Suspend, SuspendedIsTimed
<1>15. ASSUME NEW c \in Conn, NotCurrent(c) PROVE SuspendedIsTimed'
  BY <1>1, <1>3, <1>15 DEF NotCurrent
<1>16. ASSUME NEW c \in Conn, ArmGrace(c) PROVE SuspendedIsTimed'
  <2>1. CASE state = "Suspended"
    <3>1. principal.exp \in Int
      <4>1. principal \in Principal \/ principal = NoPrincipal
        BY DEF IInv, Typed, TypeOK
      <4>2. Expiry \subseteq Int
        BY ConstAssumption
      <4>3. CASE principal \in Principal
        <5>1. principal.exp \in Expiry
          BY Zenon, <4>3 DEF Principal
        <5> QED
          BY Zenon, <4>2, <5>1
      <4>4. CASE principal = NoPrincipal
        BY <4>4 DEF NoPrincipal
      <4> QED
        BY <4>1, <4>3, <4>4
    <3>2. graceAt' = GraceDeadline.at /\ clock' = clock
      BY <1>16, <2>1 DEF ArmGrace
    <3>3. GraceDeadline.at >= clock /\ GraceDeadline.at <= clock + ResumeGrace
      BY <1>3, <3>1 DEF GraceDeadline
    <3> QED
      BY <1>3, <3>1, <3>2, <3>3 DEF SuspendedIsTimed, Off, GraceDeadline
  <2>2. CASE state # "Suspended"
    BY <1>2, <1>16, <2>2 DEF ArmGrace
  <2> QED
    BY <2>1, <2>2
<1>17. ASSUME NEW c \in Conn, RemoveIfClosed(c) PROVE SuspendedIsTimed'
  BY <1>1, <1>2, <1>3, <1>17 DEF RemoveIfClosed
<1>18. ASSUME NEW c \in Conn, RefreshSet(c) PROVE SuspendedIsTimed'
  BY <1>1, <1>3, <1>18 DEF RefreshSet
<1>19. ASSUME NEW c \in Conn, RefreshArm(c) PROVE SuspendedIsTimed'
  BY <1>1, <1>3, <1>19 DEF RefreshArm, ArmExpiryAt
<1>20. ASSUME NEW c \in Conn, RemoteClose(c) PROVE SuspendedIsTimed'
  BY <1>2, <1>20 DEF RemoteClose
<1>21. ASSUME NEW c \in Conn, ConnLost(c) PROVE SuspendedIsTimed'
  BY <1>1, <1>3, <1>21 DEF ConnLost
<1>22. ASSUME NEW c \in Conn, NEW p \in Principal, FreshHello(c, p)
      PROVE SuspendedIsTimed'
  BY <1>1, <1>3, <1>22 DEF FreshHello
<1>23. ASSUME NEW c \in Conn, NEW p \in Principal, ResumeHello(c, p)
      PROVE SuspendedIsTimed'
  BY <1>1, <1>3, <1>23 DEF ResumeHello
<1>24. ASSUME NEW c \in Conn, NEW p \in Principal, RefreshAuthenticated(c, p)
      PROVE SuspendedIsTimed'
  BY <1>1, <1>3, <1>24 DEF RefreshAuthenticated
<1>25. ASSUME NEW c \in Conn, NEW kind \in FinalFrames, ReadFinalFrame(c, kind)
      PROVE SuspendedIsTimed'
  BY <1>1, <1>3, <1>25 DEF ReadFinalFrame
<1>26. ASSUME NEW t \in tasks, TaskClose(t) PROVE SuspendedIsTimed'
  BY <1>2, <1>26 DEF TaskClose
<1>27. ASSUME NEW t \in tasks, TaskTeardown(t) PROVE SuspendedIsTimed'
  <2>1. state = "Closed" /\ state' = state
    BY <1>27 DEF TaskTeardown, IInv, Armed
  <2> QED
    BY <1>2, <2>1
<1>28. ASSUME NEW t \in tasks, TaskRemove(t) PROVE SuspendedIsTimed'
  <2>1. state = "Closed" /\ state' = state
    BY <1>28 DEF TaskRemove, IInv, Armed
  <2> QED
    BY <1>2, <2>1
<1>29. CASE ExpiryFires
  BY Zenon, <1>3, <1>29 DEF ExpiryFires, SuspendedIsTimed
<1>30. CASE GraceFires
  <2>1. Closing(graceCode, TRUE) \in tasks' /\ Closing(graceCode, TRUE).step = "close"
    BY <1>30 DEF GraceFires, Closing
  <2> QED
    BY Zenon, <2>1 DEF SuspendedIsTimed
<1>31. CASE AppClose
  BY Zenon, <1>3, <1>31 DEF AppClose, SuspendedIsTimed
<1>32. CASE AdminClose
  BY Zenon, <1>3, <1>32 DEF AdminClose, SuspendedIsTimed
<1>33. CASE Tick
  <2>1. graceAt \in Nat \cup {Off}
    BY Zenon DEF IInv, Typed, TypeOK
  <2>2. graceAt \in Int
    BY <2>1 DEF Off
  <2> QED
    BY <1>3, <1>33, <2>2 DEF Tick, SuspendedIsTimed
<1>34. CASE Quiescent
  BY Zenon, <1>1, <1>34 DEF Quiescent, vars
<1>35. CASE UNCHANGED vars
  BY Zenon, <1>1, <1>35 DEF vars
<1> HIDE DEF connVars, sessVars, timerVars, regVars, Goto, TimingKept
<1> QED
  BY Zenon, <1>4, <1>5, <1>6, <1>7, <1>8, <1>9, <1>10, <1>11, <1>12, <1>13,
     <1>14, <1>15, <1>16, <1>17, <1>18, <1>19, <1>20, <1>21, <1>22, <1>23,
     <1>24, <1>25, <1>26, <1>27, <1>28, <1>29, <1>30, <1>31, <1>32, <1>33,
     <1>34, <1>35
  DEF Next, Handler, Control, Arrival, TaskStep

\* A suspended session is never forgotten, however finishConnection, armGrace,
\* the timer, a resume and the closers interleave: it always has a handler about
\* to arm its grace timer, a timer that is due within ResumeGrace, or a closer.
THEOREM SuspensionIsTimed == Spec => []SuspendedIsTimed
<1>1. Init => SuspendedIsTimed
  BY DEF Init, SuspendedIsTimed
<1>2. IInv /\ SuspendedIsTimed /\ [Next]_vars => SuspendedIsTimed'
  BY TimedStep
<1> QED
  BY <1>1, <1>2, Invariance, PTL DEF Spec
================================================================================
