---------------------------- MODULE ConnectProofs ----------------------------
(***************************************************************************)
(* How a client gets and keeps its connection.                             *)
(*                                                                         *)
(* ClientReconnect: the client endpoint is consistent for every number of  *)
(* connections it may open.  The argument: at most one reconnect goroutine *)
(* is between its first attempt and its end, so what that goroutine knows  *)
(* of the connection it opens (TargetsOK) is disturbed by no other; the    *)
(* owner only counts upwards (OwnerLeads); and an open socket always has   *)
(* somebody left who will close it (SocketsHeld).                          *)
(*                                                                         *)
(* Handshake, here Hello: the HELLO / WELCOME exchange, for every pair of  *)
(* configurations and every grace time, under the assumption on its        *)
(* constant that the module states.                                        *)
(***************************************************************************)
EXTENDS ClientReconnect, TLAPS

CONSTANT Grace     \* of Handshake

VARIABLES
    client, server, situation, datagrams, dial, handler, conn, welcome, session, interrupted

Hello == INSTANCE Handshake

-------------------------------------------------------------------------------
(* The reconnecting client. *)

\* the goroutine has a connection of its own, which has no watcher yet
Opening == {"open", "attach", "installed", "hook"}

\* the socket of the connection that was lost is closed, the next is not
\* registered yet
Early == {"top", "open", "attach", "installed", "wait", "finish"}

\* What a reconnect goroutine may rely on: the connection it opens is unused
\* until the WELCOME, is the session's from its installation on and the
\* client's from its registration on, and is watched by nobody before Hook.
TargetsOK ==
    \A l \in Conn :
        /\ loop[l] \in Opening =>
             target[l] \in Conn /\ watch[target[l]] = "off" /\ socket[target[l]] # "none"
        /\ loop[l] = "open" => link[target[l]] = "unused"
        /\ loop[l] \in Opening \ {"open"} => link[target[l]] # "unused"
        /\ loop[l] \in {"installed", "hook"} => ops = target[l] /\ state # "Suspended"
        /\ loop[l] = "hook" => packet = target[l]

\* The connections of the session and of the client were opened, and an unused
\* one has no watcher; whoever suspended the session no longer watches.
ConnsOK ==
    /\ link[ops] # "unused" /\ socket[packet] # "none"
    /\ \A c \in Conn : link[c] = "unused" => watch[c] = "off"
    /\ state = "Suspended" => watch[ops] \notin {"off", "watching"}

\* No WELCOME is ahead of the owner.
OwnerLeads == \A c \in Conn : granted[c] <= owner

\* An open socket is the client's or that of a connection being opened; the
\* client's is closed while a reconnect has not registered another, and as long
\* as it is open its connection is the session's and has a watcher, or will.
SocketsHeld ==
    /\ \A c \in Conn : socket[c] = "open" =>
         c = packet \/ \E l \in Conn : loop[l] \in Opening /\ target[l] = c
    /\ \A l \in Conn : loop[l] \in Early => socket[packet] # "open"
    /\ socket[packet] = "open" =>
         /\ ops = packet
         /\ watch[packet] \in {"watching", "lost"} \/ \E l \in Conn : loop[l] = "hook"

\* The inductive invariant.
IInv ==
    /\ TypeOK /\ OneReconnect /\ EpochIsOwners
    /\ TargetsOK /\ ConnsOK /\ OwnerLeads /\ SocketsHeld

\* Every step keeps the types.
LEMMA TypeStep ==
    ASSUME TypeOK, TargetsOK, [Next]_vars
    PROVE  TypeOK'
<1> USE DEF clientVars, sessVars, connVars, loopVars, ownerVars
<1>1. ASSUME UNCHANGED <<resumable, closed, reconnecting, packet, state, epoch, ops, link, granted, socket, watch, loop, target, late, shut, teardown, owner, stray>> PROVE TypeOK'
  BY Zenon, <1>1 DEF TypeOK
<1>2. CASE Idle \/ UNCHANGED vars
  BY Zenon, <1>1, <1>2 DEF Idle, vars
<1>3. ASSUME NEW c \in Conn, Lost(c) PROVE TypeOK'
  <2>1. resumable' \in BOOLEAN /\ closed' \in BOOLEAN /\ reconnecting' \in BOOLEAN /\ late' \in [Conn -> BOOLEAN]
    BY Zenon, <1>3 DEF Lost, CloseSocket, TypeOK
  <2>2. /\ state' \in {"Active", "Suspended", "Closed"} /\ socket' \in [Conn -> {"none", "open", "closed"}]
        /\ watch' \in [Conn -> {"off", "watching", "lost", "closing", "done"}]
        /\ loop' \in [Conn -> Running \cup {"off", "closing", "done"}]
    BY <1>3 DEF Lost, CloseSocket, TypeOK, Running
  <2> QED
    BY Zenon, <2>1, <2>2, <1>3 DEF Lost, TypeOK
<1>4. ASSUME NEW c \in Conn, StartReconnect(c) PROVE TypeOK'
  BY <1>4 DEF StartReconnect, CloseSocket, To, TypeOK, Running, TargetsOK, Opening
<1>5. ASSUME NEW c \in Conn, GiveUp(c) PROVE TypeOK'
  <2>1. resumable' \in BOOLEAN /\ closed' \in BOOLEAN /\ reconnecting' \in BOOLEAN /\ late' \in [Conn -> BOOLEAN]
    BY Zenon, <1>5 DEF GiveUp, CloseSocket, TypeOK
  <2>2. /\ state' \in {"Active", "Suspended", "Closed"} /\ socket' \in [Conn -> {"none", "open", "closed"}]
        /\ watch' \in [Conn -> {"off", "watching", "lost", "closing", "done"}]
        /\ loop' \in [Conn -> Running \cup {"off", "closing", "done"}]
    BY <1>5 DEF GiveUp, CloseSocket, TypeOK, Running
  <2> QED
    BY Zenon, <2>1, <2>2, <1>5 DEF GiveUp, TypeOK
<1>6. ASSUME NEW c \in Conn, WatchCloses(c) PROVE TypeOK'
  BY <1>6 DEF WatchCloses, CloseSession, TypeOK, Running, TargetsOK, Opening
<1>7. ASSUME NEW c \in Conn, Attempt(c) PROVE TypeOK'
  BY <1>7 DEF Attempt, To, TypeOK, Running, TargetsOK, Opening
<1>8. ASSUME NEW c \in Conn, NoMoreAttempts(c) PROVE TypeOK'
  BY <1>8 DEF NoMoreAttempts, To, TypeOK, Running, TargetsOK, Opening
<1>9. ASSUME NEW c \in Conn, Welcomed(c) PROVE TypeOK'
  BY <1>9 DEF Welcomed, To, TypeOK, Running, TargetsOK, Opening
<1>10. ASSUME NEW c \in Conn, Unanswered(c) PROVE TypeOK'
  BY <1>10 DEF Unanswered, Abandon, CloseSocket, To, TypeOK, Running, TargetsOK, Opening
<1>11. ASSUME NEW c \in Conn, Refused(c) PROVE TypeOK'
  BY <1>11 DEF Refused, Abandon, CloseSocket, To, TypeOK, Running, TargetsOK, Opening
<1>12. ASSUME NEW c \in Conn, Install(c) PROVE TypeOK'
  BY <1>12 DEF Install, To, MayInstall, InstalledEpoch, TypeOK, Running, TargetsOK,
     Opening
<1>13. ASSUME NEW c \in Conn, NotInstalled(c) PROVE TypeOK'
  BY <1>13 DEF NotInstalled, Abandon, CloseSocket, To, TypeOK, Running, TargetsOK, Opening
<1>14. ASSUME NEW c \in Conn, Register(c) PROVE TypeOK'
  BY <1>14 DEF Register, Abandon, CloseSocket, To, TypeOK, Running, TargetsOK, Opening
<1>15. ASSUME NEW c \in Conn, Hook(c) PROVE TypeOK'
  BY <1>15 DEF Hook, To, TypeOK, Running, TargetsOK, Opening
<1>16. ASSUME NEW c \in Conn, Clear(c) PROVE TypeOK'
  <2>1. resumable' \in BOOLEAN /\ closed' \in BOOLEAN /\ reconnecting' \in BOOLEAN /\ late' \in [Conn -> BOOLEAN]
    BY Zenon, <1>16 DEF Clear, To, TypeOK
  <2>2. /\ state' \in {"Active", "Suspended", "Closed"} /\ socket' \in [Conn -> {"none", "open", "closed"}]
        /\ watch' \in [Conn -> {"off", "watching", "lost", "closing", "done"}]
        /\ loop' \in [Conn -> Running \cup {"off", "closing", "done"}]
    BY <1>16 DEF Clear, To, TypeOK, Running
  <2> QED
    BY Zenon, <2>1, <2>2, <1>16 DEF Clear, TypeOK
<1>17. ASSUME NEW c \in Conn, Wait(c) PROVE TypeOK'
  <2>1. resumable' \in BOOLEAN /\ closed' \in BOOLEAN /\ reconnecting' \in BOOLEAN /\ late' \in [Conn -> BOOLEAN]
    BY Zenon, <1>17 DEF Wait, To, TypeOK
  <2>2. /\ state' \in {"Active", "Suspended", "Closed"} /\ socket' \in [Conn -> {"none", "open", "closed"}]
        /\ watch' \in [Conn -> {"off", "watching", "lost", "closing", "done"}]
        /\ loop' \in [Conn -> Running \cup {"off", "closing", "done"}]
    BY <1>17 DEF Wait, To, TypeOK, Running
  <2> QED
    BY Zenon, <2>1, <2>2, <1>17 DEF Wait, TypeOK
<1>18. ASSUME NEW c \in Conn, Finish(c) PROVE TypeOK'
  <2>1. resumable' \in BOOLEAN /\ closed' \in BOOLEAN /\ reconnecting' \in BOOLEAN /\ late' \in [Conn -> BOOLEAN]
    BY Zenon, <1>18 DEF Finish, To, TypeOK
  <2>2. /\ state' \in {"Active", "Suspended", "Closed"} /\ socket' \in [Conn -> {"none", "open", "closed"}]
        /\ watch' \in [Conn -> {"off", "watching", "lost", "closing", "done"}]
        /\ loop' \in [Conn -> Running \cup {"off", "closing", "done"}]
    BY <1>18 DEF Finish, To, TypeOK, Running
  <2> QED
    BY Zenon, <2>1, <2>2, <1>18 DEF Finish, TypeOK
<1>19. ASSUME NEW c \in Conn, LoopCloses(c) PROVE TypeOK'
  BY <1>19 DEF LoopCloses, To, CloseSession, TypeOK, Running, TargetsOK, Opening
<1>20. ASSUME NEW c \in Conn, Deadline(c) PROVE TypeOK'
  BY <1>20 DEF Deadline, TypeOK, Running, TargetsOK, Opening
<1>21. ASSUME NEW c \in Conn, RemoteClose(c) PROVE TypeOK'
  BY <1>21 DEF RemoteClose, TypeOK, Running, TargetsOK, Opening
<1>22. ASSUME NEW c \in Conn, Disconnect(c) PROVE TypeOK'
  BY <1>22 DEF Disconnect, TypeOK, Running, TargetsOK, Opening
<1>23. CASE CloseClient
  BY <1>23 DEF CloseClient, TypeOK, Running, TargetsOK, Opening
<1>24. CASE CloseClientSession
  BY <1>24 DEF CloseClientSession, CloseSession, TypeOK, Running, TargetsOK, Opening
<1>25. CASE CloseClientPacket
  BY <1>25 DEF CloseClientPacket, CloseSocket, TypeOK, Running, TargetsOK, Opening
<1>26. CASE AppClose
  BY <1>26 DEF AppClose, CloseSession, TypeOK, Running, TargetsOK, Opening
<1>27. CASE Teardown
  BY <1>27 DEF Teardown, TypeOK, Running, TargetsOK, Opening
<1>28. CASE StrayResume
  BY <1>28 DEF StrayResume, TypeOK, Running, TargetsOK, Opening
<1> HIDE DEF clientVars, sessVars, connVars, loopVars, ownerVars
<1> QED
  BY Zenon, <1>2, <1>3, <1>4, <1>5, <1>6, <1>7, <1>8, <1>9, <1>10, <1>11,
     <1>12, <1>13, <1>14, <1>15, <1>16, <1>17, <1>18, <1>19, <1>20, <1>21,
     <1>22, <1>23, <1>24, <1>25, <1>26, <1>27, <1>28
  DEF Next, Watcher, Reconnect

\* Only a client without a reconnect starts one, and the flag is cleared where
\* the goroutine ends.
LEMMA OneStep ==
    ASSUME TypeOK, OneReconnect, [Next]_vars
    PROVE  OneReconnect'
<1> USE DEF clientVars, sessVars, connVars, loopVars, ownerVars
<1>1. ASSUME UNCHANGED <<reconnecting, loop>> PROVE OneReconnect'
  BY Zenon, <1>1 DEF OneReconnect
<1>2. ASSUME NEW c \in Conn, Lost(c) \/ GiveUp(c) \/ WatchCloses(c) \/ Deadline(c)
                             \/ RemoteClose(c) \/ Disconnect(c)
      PROVE  OneReconnect'
  BY Zenon, <1>1, <1>2 DEF Lost, CloseSocket, GiveUp, WatchCloses, CloseSession, Deadline,
     RemoteClose, Disconnect
<1>3. CASE CloseClient \/ CloseClientSession \/ CloseClientPacket \/ AppClose \/ Teardown
           \/ StrayResume \/ Idle \/ UNCHANGED vars
  BY Zenon, <1>1, <1>3 DEF CloseClient, CloseClientSession, CloseSession,
     CloseClientPacket, CloseSocket, AppClose, Teardown, StrayResume, Idle, vars
<1>4. ASSUME NEW c \in Conn, StartReconnect(c) PROVE OneReconnect'
  BY <1>4 DEF StartReconnect, CloseSocket, To, OneReconnect, TypeOK, Running, MayReconnect
<1>5. ASSUME NEW c \in Conn, Attempt(c) PROVE OneReconnect'
  BY <1>5 DEF Attempt, To, OneReconnect, TypeOK, Running
<1>6. ASSUME NEW c \in Conn, NoMoreAttempts(c) PROVE OneReconnect'
  BY <1>6 DEF NoMoreAttempts, To, OneReconnect, TypeOK, Running
<1>7. ASSUME NEW c \in Conn, Welcomed(c) PROVE OneReconnect'
  BY <1>7 DEF Welcomed, To, OneReconnect, TypeOK, Running
<1>8. ASSUME NEW c \in Conn, Unanswered(c) PROVE OneReconnect'
  BY <1>8 DEF Unanswered, Abandon, CloseSocket, To, OneReconnect, TypeOK, Running
<1>9. ASSUME NEW c \in Conn, Refused(c) PROVE OneReconnect'
  BY <1>9 DEF Refused, Abandon, CloseSocket, To, OneReconnect, TypeOK, Running
<1>10. ASSUME NEW c \in Conn, Install(c) PROVE OneReconnect'
  BY <1>10 DEF Install, To, MayInstall, InstalledEpoch, OneReconnect, TypeOK, Running
<1>11. ASSUME NEW c \in Conn, NotInstalled(c) PROVE OneReconnect'
  BY <1>11 DEF NotInstalled, Abandon, CloseSocket, To, OneReconnect, TypeOK, Running
<1>12. ASSUME NEW c \in Conn, Register(c) PROVE OneReconnect'
  BY <1>12 DEF Register, Abandon, CloseSocket, To, OneReconnect, TypeOK, Running
<1>13. ASSUME NEW c \in Conn, Hook(c) PROVE OneReconnect'
  BY <1>13 DEF Hook, To, OneReconnect, TypeOK, Running
<1>14. ASSUME NEW c \in Conn, Clear(c) PROVE OneReconnect'
  BY <1>14 DEF Clear, To, OneReconnect, TypeOK, Running
<1>15. ASSUME NEW c \in Conn, Wait(c) PROVE OneReconnect'
  BY <1>15 DEF Wait, To, OneReconnect, TypeOK, Running
<1>16. ASSUME NEW c \in Conn, Finish(c) PROVE OneReconnect'
  BY <1>16 DEF Finish, To, OneReconnect, TypeOK, Running
<1>17. ASSUME NEW c \in Conn, LoopCloses(c) PROVE OneReconnect'
  BY <1>17 DEF LoopCloses, To, CloseSession, OneReconnect, TypeOK, Running
<1> HIDE DEF clientVars, sessVars, connVars, loopVars, ownerVars
<1> QED
  BY Zenon, <1>2, <1>3, <1>4, <1>5, <1>6, <1>7, <1>8, <1>9, <1>10, <1>11,
     <1>12, <1>13, <1>14, <1>15, <1>16, <1>17
  DEF Next, Watcher, Reconnect

\* The epoch is the one in the WELCOME of the session's connection.
LEMMA EpochStep ==
    ASSUME TypeOK, OneReconnect, EpochIsOwners, TargetsOK, ConnsOK, OwnerLeads, [Next]_vars
    PROVE  EpochIsOwners'
<1> USE DEF clientVars, sessVars, connVars, loopVars, ownerVars
<1>1. ASSUME UNCHANGED <<epoch, granted, ops, loop, target>> PROVE EpochIsOwners'
  BY Zenon, <1>1 DEF EpochIsOwners
<1>2. ASSUME NEW c \in Conn, Lost(c) \/ GiveUp(c) \/ WatchCloses(c) \/ Deadline(c)
                             \/ RemoteClose(c) \/ Disconnect(c)
      PROVE  EpochIsOwners'
  BY Zenon, <1>1, <1>2 DEF Lost, CloseSocket, GiveUp, WatchCloses, CloseSession, Deadline,
     RemoteClose, Disconnect
<1>3. CASE CloseClient \/ CloseClientSession \/ CloseClientPacket \/ AppClose \/ Teardown
           \/ StrayResume \/ Idle \/ UNCHANGED vars
  BY Zenon, <1>1, <1>3 DEF CloseClient, CloseClientSession, CloseSession,
     CloseClientPacket, CloseSocket, AppClose, Teardown, StrayResume, Idle, vars
<1>4. ASSUME NEW c \in Conn, StartReconnect(c) PROVE EpochIsOwners'
  BY <1>4 DEF StartReconnect, CloseSocket, To, EpochIsOwners, TypeOK, TargetsOK, Opening
<1>5. ASSUME NEW c \in Conn, Attempt(c) PROVE EpochIsOwners'
  BY <1>5 DEF Attempt, To, EpochIsOwners, TypeOK, TargetsOK, Opening
<1>6. ASSUME NEW c \in Conn, NoMoreAttempts(c) PROVE EpochIsOwners'
  BY <1>6 DEF NoMoreAttempts, To, EpochIsOwners, TypeOK, TargetsOK, Opening
<1>7. ASSUME NEW c \in Conn, Welcomed(c) PROVE EpochIsOwners'
  BY <1>7 DEF Welcomed, To, EpochIsOwners, TypeOK, TargetsOK, Opening, OwnerLeads, ConnsOK
<1>8. ASSUME NEW c \in Conn, Unanswered(c) PROVE EpochIsOwners'
  BY <1>8 DEF Unanswered, Abandon, CloseSocket, To, EpochIsOwners, TypeOK, TargetsOK,
     Opening
<1>9. ASSUME NEW c \in Conn, Refused(c) PROVE EpochIsOwners'
  BY <1>9 DEF Refused, Abandon, CloseSocket, To, EpochIsOwners, TypeOK, TargetsOK, Opening
<1>10. ASSUME NEW c \in Conn, Install(c) PROVE EpochIsOwners'
  BY <1>10 DEF Install, To, MayInstall, InstalledEpoch, EpochIsOwners, TypeOK, TargetsOK,
     Opening, OneReconnect, Running
<1>11. ASSUME NEW c \in Conn, NotInstalled(c) PROVE EpochIsOwners'
  BY <1>11 DEF NotInstalled, Abandon, CloseSocket, To, EpochIsOwners, TypeOK, TargetsOK,
     Opening
<1>12. ASSUME NEW c \in Conn, Register(c) PROVE EpochIsOwners'
  BY <1>12 DEF Register, Abandon, CloseSocket, To, EpochIsOwners, TypeOK, TargetsOK,
     Opening
<1>13. ASSUME NEW c \in Conn, Hook(c) PROVE EpochIsOwners'
  BY <1>13 DEF Hook, To, EpochIsOwners, TypeOK, TargetsOK, Opening
<1>14. ASSUME NEW c \in Conn, Clear(c) PROVE EpochIsOwners'
  BY <1>14 DEF Clear, To, EpochIsOwners, TypeOK, TargetsOK, Opening
<1>15. ASSUME NEW c \in Conn, Wait(c) PROVE EpochIsOwners'
  BY <1>15 DEF Wait, To, EpochIsOwners, TypeOK, TargetsOK, Opening
<1>16. ASSUME NEW c \in Conn, Finish(c) PROVE EpochIsOwners'
  BY <1>16 DEF Finish, To, EpochIsOwners, TypeOK, TargetsOK, Opening
<1>17. ASSUME NEW c \in Conn, LoopCloses(c) PROVE EpochIsOwners'
  BY <1>17 DEF LoopCloses, To, CloseSession, EpochIsOwners, TypeOK, TargetsOK, Opening
<1> HIDE DEF clientVars, sessVars, connVars, loopVars, ownerVars
<1> QED
  BY Zenon, <1>2, <1>3, <1>4, <1>5, <1>6, <1>7, <1>8, <1>9, <1>10, <1>11,
     <1>12, <1>13, <1>14, <1>15, <1>16, <1>17
  DEF Next, Watcher, Reconnect

\* The owner's epoch only grows.
LEMMA OwnerStep ==
    ASSUME TypeOK, OwnerLeads, [Next]_vars
    PROVE  OwnerLeads'
<1> USE DEF clientVars, sessVars, connVars, loopVars, ownerVars
<1>1. ASSUME UNCHANGED <<granted, owner>> PROVE OwnerLeads'
  BY Zenon, <1>1 DEF OwnerLeads
<1>2. ASSUME NEW c \in Conn, Lost(c) \/ StartReconnect(c) \/ GiveUp(c) \/ WatchCloses(c)
                             \/ Attempt(c) \/ NoMoreAttempts(c) \/ Refused(c)
                             \/ Install(c) \/ NotInstalled(c) \/ Register(c) \/ Hook(c)
                             \/ Clear(c) \/ Wait(c) \/ Finish(c) \/ LoopCloses(c)
                             \/ Deadline(c) \/ RemoteClose(c) \/ Disconnect(c)
      PROVE  OwnerLeads'
  BY Zenon, <1>1, <1>2 DEF Lost, CloseSocket, StartReconnect, To, GiveUp, WatchCloses,
     CloseSession, Attempt, NoMoreAttempts, Refused, Abandon, Install, MayInstall,
     InstalledEpoch, NotInstalled, Register, Hook, Clear, Wait, Finish, LoopCloses,
     Deadline, RemoteClose, Disconnect
<1>3. CASE CloseClient \/ CloseClientSession \/ CloseClientPacket \/ AppClose \/ Teardown
           \/ Idle \/ UNCHANGED vars
  BY Zenon, <1>1, <1>3 DEF CloseClient, CloseClientSession, CloseSession,
     CloseClientPacket, CloseSocket, AppClose, Teardown, Idle, vars
<1>4. ASSUME NEW c \in Conn, Welcomed(c) PROVE OwnerLeads'
  BY <1>4 DEF Welcomed, To, OwnerLeads, TypeOK
<1>5. ASSUME NEW c \in Conn, Unanswered(c) PROVE OwnerLeads'
  BY <1>5 DEF Unanswered, Abandon, CloseSocket, To, OwnerLeads, TypeOK
<1>6. CASE StrayResume
  BY <1>6 DEF StrayResume, OwnerLeads, TypeOK
<1> HIDE DEF clientVars, sessVars, connVars, loopVars, ownerVars
<1> QED
  BY Zenon, <1>2, <1>3, <1>4, <1>5, <1>6
  DEF Next, Watcher, Reconnect

\* Connections are used once.
LEMMA ConnsStep ==
    ASSUME TypeOK, TargetsOK, ConnsOK, [Next]_vars
    PROVE  ConnsOK'
<1> USE DEF clientVars, sessVars, connVars, loopVars, ownerVars
<1>1. ASSUME UNCHANGED <<link, ops, socket, packet, watch, state>> PROVE ConnsOK'
  BY Zenon, <1>1 DEF ConnsOK
<1>2. ASSUME NEW c \in Conn, NoMoreAttempts(c) \/ Clear(c) \/ Wait(c) \/ Finish(c)
                             \/ Deadline(c)
      PROVE  ConnsOK'
  BY Zenon, <1>1, <1>2 DEF NoMoreAttempts, To, Clear, Wait, Finish, Deadline
<1>3. CASE CloseClient \/ Idle \/ UNCHANGED vars
  BY Zenon, <1>1, <1>3 DEF CloseClient, Idle, vars
<1>4. ASSUME NEW c \in Conn, Lost(c) PROVE ConnsOK'
  BY <1>4 DEF Lost, CloseSocket, ConnsOK, TargetsOK, TypeOK, Opening
<1>5. ASSUME NEW c \in Conn, StartReconnect(c) PROVE ConnsOK'
  BY <1>5 DEF StartReconnect, CloseSocket, To, ConnsOK, TargetsOK, TypeOK, Opening
<1>6. ASSUME NEW c \in Conn, GiveUp(c) PROVE ConnsOK'
  BY <1>6 DEF GiveUp, CloseSocket, ConnsOK, TargetsOK, TypeOK, Opening
<1>7. ASSUME NEW c \in Conn, WatchCloses(c) PROVE ConnsOK'
  BY <1>7 DEF WatchCloses, CloseSession, ConnsOK, TargetsOK, TypeOK, Opening
<1>8. ASSUME NEW c \in Conn, Attempt(c) PROVE ConnsOK'
  BY <1>8 DEF Attempt, To, ConnsOK, TargetsOK, TypeOK, Opening
<1>9. ASSUME NEW c \in Conn, Welcomed(c) PROVE ConnsOK'
  BY <1>9 DEF Welcomed, To, ConnsOK, TargetsOK, TypeOK, Opening
<1>10. ASSUME NEW c \in Conn, Unanswered(c) PROVE ConnsOK'
  BY <1>10 DEF Unanswered, Abandon, CloseSocket, To, ConnsOK, TargetsOK, TypeOK, Opening
<1>11. ASSUME NEW c \in Conn, Refused(c) PROVE ConnsOK'
  BY <1>11 DEF Refused, Abandon, CloseSocket, To, ConnsOK, TargetsOK, TypeOK, Opening
<1>12. ASSUME NEW c \in Conn, Install(c) PROVE ConnsOK'
  BY <1>12 DEF Install, To, MayInstall, InstalledEpoch, ConnsOK, TargetsOK, TypeOK,
     Opening
<1>13. ASSUME NEW c \in Conn, NotInstalled(c) PROVE ConnsOK'
  BY <1>13 DEF NotInstalled, Abandon, CloseSocket, To, ConnsOK, TargetsOK, TypeOK, Opening
<1>14. ASSUME NEW c \in Conn, Register(c) PROVE ConnsOK'
  BY <1>14 DEF Register, Abandon, CloseSocket, To, ConnsOK, TargetsOK, TypeOK, Opening
<1>15. ASSUME NEW c \in Conn, Hook(c) PROVE ConnsOK'
  BY <1>15 DEF Hook, To, ConnsOK, TargetsOK, TypeOK, Opening
<1>16. ASSUME NEW c \in Conn, LoopCloses(c) PROVE ConnsOK'
  BY <1>16 DEF LoopCloses, To, CloseSession, ConnsOK, TargetsOK, TypeOK, Opening
<1>17. ASSUME NEW c \in Conn, RemoteClose(c) PROVE ConnsOK'
  BY <1>17 DEF RemoteClose, ConnsOK, TargetsOK, TypeOK, Opening
<1>18. ASSUME NEW c \in Conn, Disconnect(c) PROVE ConnsOK'
  BY <1>18 DEF Disconnect, ConnsOK, TargetsOK, TypeOK, Opening
<1>19. CASE CloseClientSession
  BY <1>19 DEF CloseClientSession, CloseSession, ConnsOK, TargetsOK, TypeOK, Opening
<1>20. CASE CloseClientPacket
  BY <1>20 DEF CloseClientPacket, CloseSocket, ConnsOK, TargetsOK, TypeOK, Opening
<1>21. CASE AppClose
  BY <1>21 DEF AppClose, CloseSession, ConnsOK, TargetsOK, TypeOK, Opening
<1>22. CASE Teardown
  BY <1>22 DEF Teardown, ConnsOK, TargetsOK, TypeOK, Opening
<1>23. CASE StrayResume
  BY <1>23 DEF StrayResume, ConnsOK, TargetsOK, TypeOK, Opening
<1> HIDE DEF clientVars, sessVars, connVars, loopVars, ownerVars
<1> QED
  BY Zenon, <1>2, <1>3, <1>4, <1>5, <1>6, <1>7, <1>8, <1>9, <1>10, <1>11,
     <1>12, <1>13, <1>14, <1>15, <1>16, <1>17, <1>18, <1>19, <1>20, <1>21,
     <1>22, <1>23
  DEF Next, Watcher, Reconnect

\* No other goroutine disturbs the connection that is being opened.
LEMMA TargetsStep ==
    ASSUME TypeOK, OneReconnect, TargetsOK, ConnsOK, SocketsHeld, [Next]_vars
    PROVE  TargetsOK'
<1> USE DEF clientVars, sessVars, connVars, loopVars, ownerVars
<1>1. ASSUME UNCHANGED <<loop, target, watch, socket, link, ops, state, packet>> PROVE TargetsOK'
  BY Zenon, <1>1 DEF TargetsOK
<1>2. ASSUME NEW c \in Conn, Deadline(c)
      PROVE  TargetsOK'
  BY Zenon, <1>1, <1>2 DEF Deadline
<1>3. CASE CloseClient \/ Idle \/ UNCHANGED vars
  BY Zenon, <1>1, <1>3 DEF CloseClient, Idle, vars
<1>4. ASSUME NEW c \in Conn, Lost(c) PROVE TargetsOK'
  BY <1>4 DEF Lost, CloseSocket, TargetsOK, ConnsOK, TypeOK, OneReconnect, Running,
     Opening
<1>5. ASSUME NEW c \in Conn, StartReconnect(c) PROVE TargetsOK'
  BY <1>5 DEF StartReconnect, CloseSocket, To, TargetsOK, ConnsOK, TypeOK, OneReconnect,
     Running, Opening, MayReconnect
<1>6. ASSUME NEW c \in Conn, GiveUp(c) PROVE TargetsOK'
  BY <1>6 DEF GiveUp, CloseSocket, TargetsOK, ConnsOK, TypeOK, OneReconnect, Running,
     Opening
<1>7. ASSUME NEW c \in Conn, WatchCloses(c) PROVE TargetsOK'
  BY <1>7 DEF WatchCloses, CloseSession, TargetsOK, ConnsOK, TypeOK, OneReconnect,
     Running, Opening
<1>8. ASSUME NEW c \in Conn, Attempt(c) PROVE TargetsOK'
  BY <1>8 DEF Attempt, To, TargetsOK, ConnsOK, TypeOK, OneReconnect, Running, Opening
<1>9. ASSUME NEW c \in Conn, NoMoreAttempts(c) PROVE TargetsOK'
  BY <1>9 DEF NoMoreAttempts, To, TargetsOK, ConnsOK, TypeOK, OneReconnect, Running,
     Opening
<1>10. ASSUME NEW c \in Conn, Welcomed(c) PROVE TargetsOK'
  BY <1>10 DEF Welcomed, To, TargetsOK, ConnsOK, TypeOK, OneReconnect, Running, Opening
<1>11. ASSUME NEW c \in Conn, Unanswered(c) PROVE TargetsOK'
  BY <1>11 DEF Unanswered, Abandon, CloseSocket, To, TargetsOK, ConnsOK, TypeOK,
     OneReconnect, Running, Opening
<1>12. ASSUME NEW c \in Conn, Refused(c) PROVE TargetsOK'
  BY <1>12 DEF Refused, Abandon, CloseSocket, To, TargetsOK, ConnsOK, TypeOK,
     OneReconnect, Running, Opening
<1>13. ASSUME NEW c \in Conn, Install(c) PROVE TargetsOK'
  BY <1>13 DEF Install, To, MayInstall, InstalledEpoch, TargetsOK, ConnsOK, TypeOK,
     OneReconnect, Running, Opening
<1>14. ASSUME NEW c \in Conn, NotInstalled(c) PROVE TargetsOK'
  BY <1>14 DEF NotInstalled, Abandon, CloseSocket, To, TargetsOK, ConnsOK, TypeOK,
     OneReconnect, Running, Opening
<1>15. ASSUME NEW c \in Conn, Register(c) PROVE TargetsOK'
  BY <1>15 DEF Register, Abandon, CloseSocket, To, TargetsOK, ConnsOK, TypeOK,
     OneReconnect, Running, Opening
<1>16. ASSUME NEW c \in Conn, Hook(c) PROVE TargetsOK'
  BY <1>16 DEF Hook, To, TargetsOK, ConnsOK, TypeOK, OneReconnect, Running, Opening
<1>17. ASSUME NEW c \in Conn, Clear(c) PROVE TargetsOK'
  BY <1>17 DEF Clear, To, TargetsOK, ConnsOK, TypeOK, OneReconnect, Running, Opening
<1>18. ASSUME NEW c \in Conn, Wait(c) PROVE TargetsOK'
  BY <1>18 DEF Wait, To, TargetsOK, ConnsOK, TypeOK, OneReconnect, Running, Opening
<1>19. ASSUME NEW c \in Conn, Finish(c) PROVE TargetsOK'
  BY <1>19 DEF Finish, To, TargetsOK, ConnsOK, TypeOK, OneReconnect, Running, Opening
<1>20. ASSUME NEW c \in Conn, LoopCloses(c) PROVE TargetsOK'
  BY <1>20 DEF LoopCloses, To, CloseSession, TargetsOK, ConnsOK, TypeOK, OneReconnect,
     Running, Opening
<1>21. ASSUME NEW c \in Conn, RemoteClose(c) PROVE TargetsOK'
  BY <1>21 DEF RemoteClose, TargetsOK, ConnsOK, TypeOK, OneReconnect, Running, Opening
<1>22. ASSUME NEW c \in Conn, Disconnect(c) PROVE TargetsOK'
  BY <1>22 DEF Disconnect, TargetsOK, ConnsOK, TypeOK, OneReconnect, Running, Opening
<1>23. CASE CloseClientSession
  BY <1>23 DEF CloseClientSession, CloseSession, TargetsOK, ConnsOK, TypeOK, OneReconnect,
     Running, Opening
<1>24. CASE CloseClientPacket
  BY <1>24 DEF CloseClientPacket, CloseSocket, TargetsOK, ConnsOK, TypeOK, OneReconnect,
     Running, Opening
<1>25. CASE AppClose
  BY <1>25 DEF AppClose, CloseSession, TargetsOK, ConnsOK, TypeOK, OneReconnect, Running,
     Opening
<1>26. CASE Teardown
  BY <1>26 DEF Teardown, TargetsOK, ConnsOK, TypeOK, OneReconnect, Running, Opening
<1>27. CASE StrayResume
  BY <1>27 DEF StrayResume, TargetsOK, ConnsOK, TypeOK, OneReconnect, Running, Opening
<1> HIDE DEF clientVars, sessVars, connVars, loopVars, ownerVars
<1> QED
  BY Zenon, <1>2, <1>3, <1>4, <1>5, <1>6, <1>7, <1>8, <1>9, <1>10, <1>11,
     <1>12, <1>13, <1>14, <1>15, <1>16, <1>17, <1>18, <1>19, <1>20, <1>21,
     <1>22, <1>23, <1>24, <1>25, <1>26, <1>27
  DEF Next, Watcher, Reconnect

\* Whoever leaves an open socket behind leaves somebody who will close it.
LEMMA SocketsStep ==
    ASSUME TypeOK, OneReconnect, TargetsOK, ConnsOK, SocketsHeld, [Next]_vars
    PROVE  SocketsHeld'
<1> USE DEF clientVars, sessVars, connVars, loopVars, ownerVars
<1>1. ASSUME UNCHANGED <<socket, packet, loop, target, ops, watch>> PROVE SocketsHeld'
  BY Zenon, <1>1 DEF SocketsHeld
<1>2. ASSUME NEW c \in Conn, Deadline(c) \/ RemoteClose(c) \/ Disconnect(c)
      PROVE  SocketsHeld'
  BY Zenon, <1>1, <1>2 DEF Deadline, RemoteClose, Disconnect
<1>3. CASE CloseClient \/ CloseClientSession \/ AppClose \/ Teardown \/ StrayResume
           \/ Idle \/ UNCHANGED vars
  BY Zenon, <1>1, <1>3 DEF CloseClient, CloseClientSession, CloseSession, AppClose,
     Teardown, StrayResume, Idle, vars
<1>4. ASSUME NEW c \in Conn, Lost(c) PROVE SocketsHeld'
  BY <1>4 DEF Lost, CloseSocket, SocketsHeld, TargetsOK, ConnsOK, TypeOK, OneReconnect,
     Running, Opening, Early
<1>5. ASSUME NEW c \in Conn, StartReconnect(c) PROVE SocketsHeld'
  <2>1. socket'[packet'] = "closed" /\ \A d \in Conn : socket'[d] = "open" => socket[d] = "open"
    BY <1>5 DEF StartReconnect, CloseSocket, TypeOK
  <2>2. \A l \in Conn : loop[l] \notin Opening
    BY Zenon, <1>5 DEF StartReconnect, MayReconnect, OneReconnect, Running, Opening
  <2> QED
    BY <2>1, <2>2, <1>5 DEF StartReconnect, SocketsHeld
<1>6. ASSUME NEW c \in Conn, GiveUp(c) PROVE SocketsHeld'
  BY <1>6 DEF GiveUp, CloseSocket, SocketsHeld, TargetsOK, ConnsOK, TypeOK, OneReconnect,
     Running, Opening, Early
<1>7. ASSUME NEW c \in Conn, WatchCloses(c) PROVE SocketsHeld'
  BY <1>7 DEF WatchCloses, CloseSession, SocketsHeld, TargetsOK, ConnsOK, TypeOK,
     OneReconnect, Running, Opening, Early
<1>8. ASSUME NEW c \in Conn, Attempt(c) PROVE SocketsHeld'
  BY <1>8 DEF Attempt, To, SocketsHeld, TargetsOK, ConnsOK, TypeOK, OneReconnect, Running,
     Opening, Early
<1>9. ASSUME NEW c \in Conn, NoMoreAttempts(c) PROVE SocketsHeld'
  BY <1>9 DEF NoMoreAttempts, To, SocketsHeld, TargetsOK, ConnsOK, TypeOK, OneReconnect,
     Running, Opening, Early
<1>10. ASSUME NEW c \in Conn, Welcomed(c) PROVE SocketsHeld'
  BY <1>10 DEF Welcomed, To, SocketsHeld, TargetsOK, ConnsOK, TypeOK, OneReconnect,
     Running, Opening, Early
<1>11. ASSUME NEW c \in Conn, Unanswered(c) PROVE SocketsHeld'
  BY <1>11 DEF Unanswered, Abandon, CloseSocket, To, SocketsHeld, TargetsOK, ConnsOK,
     TypeOK, OneReconnect, Running, Opening, Early
<1>12. ASSUME NEW c \in Conn, Refused(c) PROVE SocketsHeld'
  BY <1>12 DEF Refused, Abandon, CloseSocket, To, SocketsHeld, TargetsOK, ConnsOK, TypeOK,
     OneReconnect, Running, Opening, Early
<1>13. ASSUME NEW c \in Conn, Install(c) PROVE SocketsHeld'
  BY <1>13 DEF Install, To, MayInstall, InstalledEpoch, SocketsHeld, TargetsOK, ConnsOK,
     TypeOK, OneReconnect, Running, Opening, Early
<1>14. ASSUME NEW c \in Conn, NotInstalled(c) PROVE SocketsHeld'
  BY <1>14 DEF NotInstalled, Abandon, CloseSocket, To, SocketsHeld, TargetsOK, ConnsOK,
     TypeOK, OneReconnect, Running, Opening, Early
<1>15. ASSUME NEW c \in Conn, Register(c) PROVE SocketsHeld'
  BY <1>15 DEF Register, Abandon, CloseSocket, To, SocketsHeld, TargetsOK, ConnsOK,
     TypeOK, OneReconnect, Running, Opening, Early
<1>16. ASSUME NEW c \in Conn, Hook(c) PROVE SocketsHeld'
  BY <1>16 DEF Hook, To, SocketsHeld, TargetsOK, ConnsOK, TypeOK, OneReconnect, Running,
     Opening, Early
<1>17. ASSUME NEW c \in Conn, Clear(c) PROVE SocketsHeld'
  BY <1>17 DEF Clear, To, SocketsHeld, TargetsOK, ConnsOK, TypeOK, OneReconnect, Running,
     Opening, Early
<1>18. ASSUME NEW c \in Conn, Wait(c) PROVE SocketsHeld'
  BY <1>18 DEF Wait, To, SocketsHeld, TargetsOK, ConnsOK, TypeOK, OneReconnect, Running,
     Opening, Early
<1>19. ASSUME NEW c \in Conn, Finish(c) PROVE SocketsHeld'
  BY <1>19 DEF Finish, To, SocketsHeld, TargetsOK, ConnsOK, TypeOK, OneReconnect, Running,
     Opening, Early
<1>20. ASSUME NEW c \in Conn, LoopCloses(c) PROVE SocketsHeld'
  BY <1>20 DEF LoopCloses, To, CloseSession, SocketsHeld, TargetsOK, ConnsOK, TypeOK,
     OneReconnect, Running, Opening, Early
<1>21. CASE CloseClientPacket
  BY <1>21 DEF CloseClientPacket, CloseSocket, SocketsHeld, TargetsOK, ConnsOK, TypeOK,
     OneReconnect, Running, Opening, Early
<1> HIDE DEF clientVars, sessVars, connVars, loopVars, ownerVars
<1> QED
  BY Zenon, <1>2, <1>3, <1>4, <1>5, <1>6, <1>7, <1>8, <1>9, <1>10, <1>11,
     <1>12, <1>13, <1>14, <1>15, <1>16, <1>17, <1>18, <1>19, <1>20, <1>21
  DEF Next, Watcher, Reconnect
\* Dial leaves the client in a consistent state.
LEMMA InitInvariant == ASSUME Init PROVE IInv
<1>1. First \in Conn /\ NoConn \notin Conn
  BY ClientAssumption
<1>2. resumable \in BOOLEAN /\ closed \in BOOLEAN /\ reconnecting \in BOOLEAN /\ late \in [Conn -> BOOLEAN]
  BY Zenon DEF Init
<1>3. TypeOK
  BY <1>1, <1>2 DEF Init, TypeOK
<1>4. OneReconnect /\ TargetsOK
  BY DEF Init, OneReconnect, TargetsOK, Running, Opening
<1>5. EpochIsOwners /\ ConnsOK /\ OwnerLeads
  BY <1>1 DEF Init, EpochIsOwners, ConnsOK, OwnerLeads
<1>6. SocketsHeld
  BY <1>1 DEF Init, SocketsHeld, Early
<1> QED
  BY <1>3, <1>4, <1>5, <1>6 DEF IInv

\* Every step of a watcher, of a reconnect, of a closer or of the network keeps
\* the invariant.
LEMMA NextInvariant == ASSUME IInv, [Next]_vars PROVE IInv'
<1>1. /\ TypeOK /\ OneReconnect /\ EpochIsOwners
      /\ TargetsOK /\ ConnsOK /\ OwnerLeads /\ SocketsHeld
  BY DEF IInv
<1> QED
  BY <1>1, TypeStep, OneStep, EpochStep, TargetsStep, ConnsStep, OwnerStep, SocketsStep DEF IInv

\* When everybody is done the client's own socket has lost its watcher, so it is
\* closed, and no other is left.
LEMMA SocketsFollow == ASSUME IInv PROVE SocketsReleased
<1> SUFFICES ASSUME \A c \in Conn : watch[c] \in {"off", "done"} /\ loop[c] \in {"off", "done"},
                    NEW d \in Conn
             PROVE  socket[d] # "open"
  BY Zenon DEF SocketsReleased
<1>1. packet \in Conn /\ SocketsHeld
  BY DEF IInv, TypeOK
<1>2. socket[packet] # "open"
  BY <1>1 DEF SocketsHeld
<1> QED
  BY <1>1, <1>2 DEF SocketsHeld, Opening

\* The client endpoint is consistent, however many connections are lost and
\* opened: one reconnect runs at a time, the epoch is the one the owner gave to
\* the connection in use and every WELCOME is ahead of it, in spite of answers
\* that were lost and resumes that came late, and no socket outlives a closed
\* client whose goroutines have returned.
THEOREM ClientConsistent == Spec => []ClientIsConsistent
<1>1. IInv => ClientIsConsistent
  BY SocketsFollow DEF IInv, ClientIsConsistent
<1> QED
  BY <1>1, InitInvariant, NextInvariant, PTL DEF Spec

\* replaceConnectionAt attaches no session that Client.Close, the application,
\* the owner or a failed reconnect closed, at whatever point of the reconnect.
THEOREM ClosedStaysClosed == Spec => ClosedForGood
<1> USE DEF clientVars, sessVars, connVars, loopVars, ownerVars
<1>1. ASSUME [Next]_vars, state = "Closed" PROVE state' = "Closed"
  <2>1. ASSUME NEW c \in Conn, Watcher(c) PROVE state' = "Closed"
    BY Zenon, <1>1, <2>1 DEF Watcher, Lost, StartReconnect, GiveUp, WatchCloses, CloseSession
  <2>2. ASSUME NEW c \in Conn, Reconnect(c) PROVE state' = "Closed"
    BY Zenon, <1>1, <2>2
    DEF Reconnect, Attempt, NoMoreAttempts, Welcomed, Unanswered, Refused, Install, MayInstall,
        NotInstalled, Register, Hook, Clear, Wait, Finish, LoopCloses, CloseSession
  <2>3. ASSUME NEW c \in Conn, Deadline(c) \/ RemoteClose(c) \/ Disconnect(c) PROVE state' = "Closed"
    BY Zenon, <1>1, <2>3 DEF Deadline, RemoteClose, Disconnect
  <2>4. CASE \/ CloseClient \/ CloseClientSession \/ CloseClientPacket
             \/ AppClose \/ Teardown \/ StrayResume \/ Idle \/ UNCHANGED vars
    BY Zenon, <1>1, <2>4
    DEF CloseClient, CloseClientSession, CloseClientPacket, AppClose, Teardown, StrayResume, Idle,
        CloseSession, vars
  <2> QED
    BY Zenon, <1>1, <2>1, <2>2, <2>3, <2>4 DEF Next
<1> HIDE DEF clientVars, sessVars, connVars, loopVars, ownerVars
<1> QED
  BY <1>1, PTL DEF Spec, ClosedForGood

-------------------------------------------------------------------------------
(* The handshake. *)

\* What the checks of handleConnection ask of a HELLO.
HelloPasses ==
    /\ client.role = "game" \/ client.resume => datagrams
    /\ client.group # "long"
    /\ client.role = server.role /\ client.app = "a"
    /\ client.credential # "bad"

\* What the server asks of a new session.
AdmissionPasses ==
    /\ Hello!Admitted
    /\ client.group # "" => server.closesGroups
    /\ situation = "closed group" => client.group = ""
    /\ situation \notin {"draining", "full"}

\* What the client asks of a WELCOME.
WelcomePasses(w) ==
    /\ client.role = "game" => datagrams
    /\ Hello!ValidateClientWelcome(w)
    /\ client.expects # "other"
    /\ w.epoch > 0

\* No check closes a connection with a code that says something else.
Code(c) == c \notin {"Normal", "none", "open"}

\* The checks of one side let a connection pass when none of them fails, and
\* close it with the code of one that does.
LEMMA VerdictFinds ==
    ASSUME NEW checks, NEW n \in 1..5, DOMAIN checks = 1..n,
           \A i \in 1..n : Code(checks[i][2])
    PROVE  /\ Hello!Verdict(checks) = "Normal" <=> \A i \in 1..n : checks[i][1]
           /\ Hello!Verdict(checks) = "Normal" \/ Code(Hello!Verdict(checks))
<1> DEFINE failed == {i \in DOMAIN checks : ~checks[i][1]}
<1>1. CASE failed = {}
  BY <1>1 DEF Hello!Verdict
<1>2. CASE failed # {}
  <2>1. failed \subseteq 1..5
    OBVIOUS
  <2>2. \E x \in failed : \A y \in failed : x <= y
    <3> HIDE DEF failed
    <3>1. PICK z : z \in failed
      BY <1>2
    <3>2. z = 1 \/ z = 2 \/ z = 3 \/ z = 4 \/ z = 5
      BY <2>1, <3>1
    <3> QED
      BY <2>1, <3>1, <3>2
  <2> DEFINE least == Hello!Min(failed)
  <2>3. least \in failed
    <3> HIDE DEF failed
    <3> QED
      BY <2>2 DEF Hello!Min
  <2>4. Hello!Verdict(checks) = checks[least][2]
    BY <1>2 DEF Hello!Verdict
  <2> HIDE DEF least
  <2> QED
    BY <2>3, <2>4 DEF Code
<1> QED
  BY <1>1, <1>2

\* The checks of handleConnection on a HELLO, as one condition.
LEMMA HelloVerdict ==
    /\ Hello!Verdict(Hello!HelloChecks) = "Normal" <=> HelloPasses
    /\ Hello!Verdict(Hello!HelloChecks) = "Normal" \/ Code(Hello!Verdict(Hello!HelloChecks))
<1> DEFINE C == Hello!HelloChecks
<1>1. DOMAIN C = 1..4 /\ \A i \in 1..4 : Code(C[i][2])
  BY DEF Hello!HelloChecks, Code
<1>2. /\ C[1][1] <=> (client.role = "game" \/ client.resume => datagrams)
      /\ C[2][1] <=> (client.group # "long")
      /\ C[3][1] <=> (client.role = server.role /\ client.app = "a")
      /\ C[4][1] <=> (client.credential # "bad")
  BY Zenon DEF Hello!HelloChecks
<1> HIDE DEF C
<1>3. (\A i \in 1..4 : C[i][1]) <=> C[1][1] /\ C[2][1] /\ C[3][1] /\ C[4][1]
  OBVIOUS
<1>4. HelloPasses <=> C[1][1] /\ C[2][1] /\ C[3][1] /\ C[4][1]
  BY <1>2 DEF HelloPasses
<1> QED
  BY <1>1, <1>3, <1>4, VerdictFinds DEF C

\* The checks of the server on a new session, as one condition.
LEMMA AdmissionVerdict ==
    /\ Hello!Verdict(Hello!AdmissionChecks) = "Normal" <=> AdmissionPasses
    /\ Hello!Verdict(Hello!AdmissionChecks) = "Normal" \/ Code(Hello!Verdict(Hello!AdmissionChecks))
<1> DEFINE C == Hello!AdmissionChecks
<1>1. DOMAIN C = 1..5 /\ \A i \in 1..5 : Code(C[i][2])
  BY DEF Hello!AdmissionChecks, Code
<1>2. /\ C[1][1] <=> Hello!Admitted
      /\ C[2][1] <=> (client.group # "" => server.closesGroups)
      /\ C[3][1] <=> (situation = "closed group" => client.group = "")
      /\ C[4][1] <=> (situation # "draining")
      /\ C[5][1] <=> (situation # "full")
  BY Zenon DEF Hello!AdmissionChecks
<1> HIDE DEF C
<1>3. (\A i \in 1..5 : C[i][1]) <=> C[1][1] /\ C[2][1] /\ C[3][1] /\ C[4][1] /\ C[5][1]
  OBVIOUS
<1>4. AdmissionPasses <=> C[1][1] /\ C[2][1] /\ C[3][1] /\ C[4][1] /\ C[5][1]
  BY <1>2, Zenon DEF AdmissionPasses
<1> QED
  BY <1>1, <1>3, <1>4, VerdictFinds DEF C

\* The checks of resumeConnection, as one condition.
LEMMA ResumeVerdict ==
    /\ Hello!Verdict(Hello!ResumeChecks) = "Normal" <=> session.state \notin {"none", "closed"}
    /\ Hello!Verdict(Hello!ResumeChecks) = "Normal" \/ Code(Hello!Verdict(Hello!ResumeChecks))
<1> DEFINE C == Hello!ResumeChecks
<1>1. DOMAIN C = 1..2 /\ \A i \in 1..2 : Code(C[i][2])
  BY DEF Hello!ResumeChecks, Code
<1>2. /\ C[1][1] <=> (session.state # "none")
      /\ C[2][1] <=> (session.state # "closed")
  BY Zenon DEF Hello!ResumeChecks
<1> HIDE DEF C
<1>3. (\A i \in 1..2 : C[i][1]) <=> C[1][1] /\ C[2][1]
  OBVIOUS
<1>4. session.state \notin {"none", "closed"} <=> C[1][1] /\ C[2][1]
  BY <1>2
<1> QED
  BY <1>1, <1>3, <1>4, VerdictFinds DEF C

\* The checks of the client on a WELCOME, as one condition.
LEMMA WelcomeVerdict ==
    ASSUME NEW w
    PROVE  /\ Hello!Verdict(Hello!WelcomeChecks(w)) = "Normal" <=> WelcomePasses(w)
           /\ \/ Hello!Verdict(Hello!WelcomeChecks(w)) = "Normal"
              \/ Code(Hello!Verdict(Hello!WelcomeChecks(w)))
<1> DEFINE C == Hello!WelcomeChecks(w)
<1>1. DOMAIN C = 1..4 /\ \A i \in 1..4 : Code(C[i][2])
  BY DEF Hello!WelcomeChecks, Code
<1>2. /\ C[1][1] <=> (client.role = "game" => datagrams)
      /\ C[2][1] <=> Hello!ValidateClientWelcome(w)
      /\ C[3][1] <=> (client.expects # "other")
      /\ C[4][1] <=> (w.epoch > 0)
  BY Zenon DEF Hello!WelcomeChecks
<1> HIDE DEF C
<1>3. (\A i \in 1..4 : C[i][1]) <=> C[1][1] /\ C[2][1] /\ C[3][1] /\ C[4][1]
  OBVIOUS
<1>4. WelcomePasses(w) <=> C[1][1] /\ C[2][1] /\ C[3][1] /\ C[4][1]
  BY <1>2 DEF WelcomePasses
<1> QED
  BY <1>1, <1>3, <1>4, VerdictFinds DEF C

\* The two configurations are what Dial and Serve accept, and a resumed session
\* is an earlier one of a game client.
ConfigOK ==
    /\ client \in Hello!Client /\ server \in Hello!Server /\ situation \in Hello!Situation
    /\ client.resume =>
         /\ client.role = "game" /\ server.role = "game" /\ client.app = "a"
         /\ client.group = "" /\ client.ticket = "" /\ client.expects = "anyone"

\* A HELLO is refused by the checks of handleConnection only if the ends are
\* not compatible.
LEMMA HelloCause == ASSUME ConfigOK, ~HelloPasses PROVE ~Hello!Compatible
  BY Zenon DEF ConfigOK, HelloPasses, Hello!Compatible, Hello!Client

\* The same for what the server asks of a new session, and of a resumed one.
LEMMA AdmissionCause ==
    ASSUME ConfigOK, HelloPasses, ~client.resume, ~AdmissionPasses
    PROVE  ~Hello!Compatible
<1>1. server.role \in {"bootstrap", "game"} /\ situation \in {"room", "full", "draining", "closed group"}
  BY Zenon DEF ConfigOK, Hello!Server, Hello!Role, Hello!Situation
<1> QED
  BY <1>1, Zenon DEF HelloPasses, AdmissionPasses, Hello!Compatible, Hello!Admitted

\* A session that is gone or closed cannot be resumed.
LEMMA ResumeCause ==
    ASSUME client.resume, session.state \in {"none", "closed"} PROVE ~Hello!Compatible
  BY DEF Hello!Compatible

\* A client accepts the WELCOME of a server that admitted it exactly if the ends
\* are compatible.
LEMMA WelcomeCause ==
    ASSUME Hello!HandshakeAssumption, ConfigOK, HelloPasses, client.resume \/ AdmissionPasses,
           session.state = "active", session.epoch \in Nat, session.epoch > 0,
           ~client.resume => session.epoch = 1
    PROVE  WelcomePasses(Hello!Welcome) <=> Hello!Compatible
<1> DEFINE w == Hello!Welcome
<1>1. server.grace \in Nat /\ (server.grace \div 10 > 0 <=> server.grace >= 10)
  <2>1. server.grace \in Nat
    BY Zenon DEF ConfigOK, Hello!Server, Hello!HandshakeAssumption
  <2> QED
    BY <2>1
<1>2. client.role = server.role /\ client.role \in {"bootstrap", "game"}
  BY Zenon DEF ConfigOK, HelloPasses, Hello!Client, Hello!Role
<1>3. /\ w.resumed = client.resume /\ w.epoch = session.epoch
      /\ w.resumable <=> server.role = "game"
      /\ w.secret = (server.role = "game" /\ ~client.resume)
      /\ w.graceMS = IF server.role = "game" THEN server.grace \div 10 ELSE 0
  BY Zenon DEF Hello!Welcome
<1> HIDE DEF w
<1>4. client.resume \in BOOLEAN
  BY Zenon DEF ConfigOK, Hello!Client
<1>5. WelcomePasses(w) <=>
        /\ client.role = "game" => datagrams
        /\ client.credential = "good" /\ client.expects # "other"
        /\ client.role = "game" => server.grace >= 10
  <2>1. CASE client.role = "bootstrap"
    BY <1>2, <1>3, <2>1, Zenon DEF WelcomePasses, Hello!ValidateClientWelcome, ConfigOK
  <2>2. CASE client.role = "game"
    BY <1>1, <1>2, <1>3, <1>4, <2>2 DEF WelcomePasses, Hello!ValidateClientWelcome
  <2> QED
    BY <1>2, <2>1, <2>2
<1>6. Hello!Compatible <=>
        /\ client.role = "game" => datagrams
        /\ client.credential = "good" /\ client.expects # "other"
        /\ client.role = "game" => server.grace >= 10
  <2>1. CASE client.resume
    BY <1>2, <2>1 DEF Hello!Compatible, HelloPasses
  <2>2. CASE ~client.resume
    <3>1. situation \in {"room", "full", "draining", "closed group"}
      BY Zenon DEF ConfigOK, Hello!Situation
    <3> QED
      BY <1>2, <2>2, <3>1, Zenon DEF Hello!Compatible, HelloPasses, AdmissionPasses, Hello!Admitted
  <2> QED
    BY <2>1, <2>2
<1> QED
  BY <1>5, <1>6 DEF w

\* Where the server stands: what it checked, and whether it has the session.
ServerOK ==
    /\ handler \in {"none", "reading", "admitting", "welcoming", "serving", "returned"}
    /\ session \in [state : {"none", "suspended", "active", "closed"}, epoch : Nat]
    /\ session.state = "active" <=> handler \in {"welcoming", "serving"}
    /\ handler \in {"none", "reading", "admitting"} /\ ~client.resume => session.epoch = 0
    /\ handler \in {"welcoming", "serving"} =>
         /\ session.epoch > 0 /\ (~client.resume => session.epoch = 1)
         /\ client.resume \/ AdmissionPasses
    /\ handler \in {"admitting", "welcoming", "serving"} => HelloPasses

\* Where the connection and the client stand: a WELCOME is the server's last word
\* while the connection is open, and a connection that nobody interrupted is
\* closed by whoever found the ends incompatible.
ClientOK ==
    /\ dial \in {"idle", "waiting", "connected", "failed"}
    /\ dial = "idle" => handler = "none" /\ conn = "none" /\ welcome = {}
    /\ conn = "none" => dial = "idle"
    /\ conn = "open" => \A w \in welcome : handler = "serving" /\ w = Hello!Welcome
    /\ handler \in {"reading", "admitting", "welcoming"} /\ ~interrupted => conn = "open"
    /\ dial = "connected" => conn = "open" /\ welcome # {} /\ Hello!Compatible
    /\ dial = "failed" => conn # "open"
    /\ conn \notin {"none", "open"} /\ ~interrupted => ~Hello!Compatible

\* The inductive invariant of the handshake.
HelloInv == ConfigOK /\ ServerOK /\ ClientOK

\* The invariant holds before Dial.
LEMMA HelloInit == ASSUME Hello!HandshakeAssumption, Hello!Init PROVE HelloInv
<1>1. ConfigOK
  BY Zenon DEF Hello!Init, ConfigOK
<1>2. ServerOK
  <2>1. \/ session = [state |-> "none", epoch |-> 0]
        \/ (client.resume /\ session = [state |-> "suspended", epoch |-> 1])
    BY Zenon DEF Hello!Init, Hello!NoSession
  <2>2. handler = "none"
    BY Zenon DEF Hello!Init
  <2> QED
    BY <2>1, <2>2 DEF ServerOK
<1>3. ClientOK
  BY Zenon DEF Hello!Init, ClientOK
<1> QED
  BY <1>1, <1>2, <1>3 DEF HelloInv

\* While the configurations stay and the session is not opened or closed, the
\* ends stay compatible or incompatible.
LEMMA CompatibleStays ==
    ASSUME UNCHANGED Hello!config,
           ~client.resume \/ (session'.state \in {"none", "closed"} <=> session.state \in {"none", "closed"})
    PROVE  Hello!Compatible' <=> Hello!Compatible
  BY Zenon DEF Hello!config, Hello!Compatible

\* While the configurations stay, so does what the checks find in them.
LEMMA ConfigStays ==
    ASSUME UNCHANGED Hello!config
    PROVE  /\ ConfigOK' = ConfigOK /\ HelloPasses' = HelloPasses
           /\ AdmissionPasses' = AdmissionPasses /\ client'.resume = client.resume
  BY DEF Hello!config, ConfigOK, HelloPasses, AdmissionPasses, Hello!Admitted

\* Dial opens the connection and starts the handler.
LEMMA DialStep == ASSUME HelloInv, Hello!Dial PROVE HelloInv'
<1>1. UNCHANGED Hello!config /\ UNCHANGED <<session, welcome, interrupted>>
      /\ dial = "idle" /\ dial' = "waiting" /\ conn' = "open" /\ handler' = "reading"
  BY DEF Hello!Dial
<1>2. ServerOK'
  BY <1>1, ConfigStays DEF HelloInv, ServerOK, ClientOK
<1>3. ClientOK'
  BY <1>1 DEF HelloInv, ClientOK
<1> QED
  BY <1>1, <1>2, <1>3, ConfigStays DEF HelloInv

\* handleConnection reads the HELLO: it goes on only with one that passes its
\* checks, and closes the connection of a client that is not compatible.
LEMMA ReadHelloStep == ASSUME HelloInv, Hello!ReadHello PROVE HelloInv'
<1>1. UNCHANGED Hello!config /\ UNCHANGED <<dial, welcome, session, interrupted>>
      /\ handler = "reading" /\ conn = "open"
  BY DEF Hello!ReadHello
<1>2. Hello!Compatible' <=> Hello!Compatible
  BY <1>1, CompatibleStays
<1>3. \/ HelloPasses /\ handler' = "admitting" /\ conn' = conn
      \/ ~HelloPasses /\ handler' = "returned" /\ Code(conn')
  BY HelloVerdict DEF Hello!ReadHello
<1>4. ServerOK'
  BY <1>1, <1>3, ConfigStays DEF HelloInv, ServerOK
<1>5. ClientOK'
  BY <1>1, <1>2, <1>3, HelloCause DEF HelloInv, ClientOK, Code
<1> QED
  BY <1>1, <1>4, <1>5, ConfigStays DEF HelloInv

\* The admission of a new session, or the lookup of a resumed one.
LEMMA AdmitStep == ASSUME HelloInv, Hello!Admit PROVE HelloInv'
<1>1. UNCHANGED Hello!config /\ UNCHANGED <<dial, welcome, interrupted>> /\ handler = "admitting"
  BY DEF Hello!Admit
<1> DEFINE found == Hello!Verdict(IF client.resume THEN Hello!ResumeChecks ELSE Hello!AdmissionChecks)
           passes == IF client.resume THEN session.state \notin {"none", "closed"} ELSE AdmissionPasses
<1>2. (found = "Normal" <=> passes) /\ (found = "Normal" \/ Code(found))
  BY ResumeVerdict, AdmissionVerdict
<1>3. ASSUME ~passes PROVE ~Hello!Compatible
  BY <1>1, <1>3, ResumeCause, AdmissionCause DEF HelloInv, ServerOK
<1>4. \/ /\ passes /\ handler' = "welcoming" /\ UNCHANGED conn
         /\ session' = [state |-> "active", epoch |-> session.epoch + 1]
      \/ /\ ~passes \/ interrupted
         /\ handler' = "returned" /\ UNCHANGED session
         /\ IF conn = "open" THEN Code(conn') ELSE conn' = conn
  <2> HIDE DEF passes
  <2>1. PICK verdict \in {found} \cup (IF interrupted THEN {"Forbidden"} ELSE {}) :
          IF verdict = "Normal"
          THEN /\ handler' = "welcoming"
               /\ session' = [state |-> "active", epoch |-> session.epoch + 1]
               /\ UNCHANGED conn
          ELSE handler' = "returned" /\ Hello!CloseWith(verdict) /\ UNCHANGED session
    BY DEF Hello!Admit
  <2> HIDE DEF found
  <2>2. verdict = found \/ (interrupted /\ verdict = "Forbidden")
    BY <2>1
  <2>3. verdict = "Normal" \/ Code(verdict)
    BY <1>2, <2>2 DEF Code
  <2> QED
    BY <1>2, <2>1, <2>2, <2>3 DEF Hello!CloseWith
<1> HIDE DEF found
<1>5. ServerOK'
  BY <1>1, <1>4, ConfigStays DEF HelloInv, ServerOK
<1>6. ClientOK'
  <2>1. CASE handler' = "welcoming"
    <3>1. Hello!Compatible' <=> Hello!Compatible
      BY <1>1, <1>4, <2>1, CompatibleStays
    <3> QED
      BY <1>1, <1>4, <2>1, <3>1 DEF HelloInv, ClientOK
  <2>2. CASE handler' = "returned"
    <3> HIDE DEF passes
    <3>1. Hello!Compatible' <=> Hello!Compatible
      BY <1>1, <1>4, <2>2, CompatibleStays
    <3> QED
      BY <1>1, <1>3, <1>4, <2>2, <3>1 DEF HelloInv, ClientOK, Code
  <2> QED
    BY <1>4, <2>1, <2>2
<1> QED
  BY <1>1, <1>5, <1>6, ConfigStays DEF HelloInv

\* The handler writes its WELCOME, or finds the connection gone and suspends.
LEMMA WriteWelcomeStep == ASSUME HelloInv, Hello!WriteWelcome PROVE HelloInv'
<1>1. UNCHANGED Hello!config /\ UNCHANGED <<dial, conn, interrupted>> /\ handler = "welcoming"
  BY DEF Hello!WriteWelcome
<1>2. \/ /\ conn = "open" /\ handler' = "serving"
         /\ welcome' = {Hello!Welcome} /\ UNCHANGED session
      \/ /\ conn # "open" /\ handler' = "returned" /\ UNCHANGED welcome
         /\ session' = [session EXCEPT !.state = IF @ = "active" THEN "suspended" ELSE @]
  BY DEF Hello!WriteWelcome, Hello!Suspended
<1>3. session'.epoch = session.epoch /\ session.state = "active"
      /\ session'.state = IF handler' = "serving" THEN "active" ELSE "suspended"
  BY <1>1, <1>2 DEF HelloInv, ServerOK
<1>4. ServerOK'
  BY <1>1, <1>2, <1>3, ConfigStays DEF HelloInv, ServerOK
<1>5. Hello!Compatible' <=> Hello!Compatible
  BY <1>1, <1>2, <1>3, CompatibleStays
<1>6. conn = "open" => Hello!Welcome' = Hello!Welcome
  BY <1>1, <1>2 DEF Hello!Welcome, Hello!config
<1>7. ClientOK'
  BY <1>1, <1>2, <1>5, <1>6 DEF HelloInv, ClientOK
<1> QED
  BY <1>1, <1>4, <1>7, ConfigStays DEF HelloInv

\* The deferred finishConnection suspends the session of a lost connection.
LEMMA FinishStep == ASSUME HelloInv, Hello!Finish PROVE HelloInv'
<1>1. UNCHANGED Hello!config /\ UNCHANGED <<dial, conn, welcome, interrupted>>
      /\ handler = "serving" /\ conn # "open" /\ handler' = "returned"
      /\ session' = [session EXCEPT !.state = IF @ = "active" THEN "suspended" ELSE @]
  BY DEF Hello!Finish, Hello!Suspended
<1>2. session' \in [state : {"none", "suspended", "active", "closed"}, epoch : Nat]
      /\ session.state = "active" /\ session'.state = "suspended"
  BY <1>1 DEF HelloInv, ServerOK
<1>3. ServerOK'
  BY <1>1, <1>2, ConfigStays DEF HelloInv, ServerOK
<1>4. Hello!Compatible' <=> Hello!Compatible
  BY <1>1, <1>2, CompatibleStays
<1>5. ClientOK'
  BY <1>1, <1>4 DEF HelloInv, ClientOK
<1> QED
  BY <1>1, <1>3, <1>5, ConfigStays DEF HelloInv

\* A handler whose connection is gone or whose time is over returns.
LEMMA HelloGiveUpStep == ASSUME HelloInv, Hello!GiveUp PROVE HelloInv'
<1>1. UNCHANGED Hello!config /\ UNCHANGED <<dial, welcome, session, interrupted>>
      /\ handler = "reading" /\ (interrupted \/ conn # "open") /\ handler' = "returned"
      /\ conn' = IF conn = "open" THEN "ProtocolViolation" ELSE conn
  BY DEF Hello!GiveUp, Hello!CloseWith
<1>2. ServerOK'
  BY <1>1, ConfigStays DEF HelloInv, ServerOK
<1>3. Hello!Compatible' <=> Hello!Compatible
  BY <1>1, CompatibleStays
<1>4. ClientOK'
  BY <1>1, <1>3 DEF HelloInv, ClientOK
<1> QED
  BY <1>1, <1>2, <1>4, ConfigStays DEF HelloInv

\* The client accepts a WELCOME, or closes the connection: by WelcomeCause it
\* accepts exactly if the ends are compatible.
LEMMA ReadWelcomeStep ==
    ASSUME Hello!HandshakeAssumption, HelloInv, Hello!ReadWelcome PROVE HelloInv'
<1>1. UNCHANGED Hello!config /\ UNCHANGED <<handler, welcome, session, interrupted>>
      /\ dial = "waiting" /\ conn = "open"
  BY DEF Hello!ReadWelcome
<1>2. PICK w \in welcome :
         IF Hello!Verdict(Hello!WelcomeChecks(w)) = "Normal"
         THEN dial' = "connected" /\ UNCHANGED conn
         ELSE dial' = "failed" /\ conn' = Hello!Verdict(Hello!WelcomeChecks(w))
  BY DEF Hello!ReadWelcome
<1>3. handler = "serving" /\ w = Hello!Welcome
  BY <1>1, <1>2 DEF HelloInv, ClientOK
<1>4. WelcomePasses(w) <=> Hello!Compatible
  BY <1>3, WelcomeCause DEF HelloInv, ServerOK
<1>5. \/ Hello!Compatible /\ dial' = "connected" /\ conn' = conn
      \/ ~Hello!Compatible /\ dial' = "failed" /\ Code(conn')
  BY <1>2, <1>4, WelcomeVerdict
<1>6. Hello!Compatible' <=> Hello!Compatible
  BY <1>1, CompatibleStays
<1>7. ServerOK'
  BY <1>1, ConfigStays DEF HelloInv, ServerOK
<1>8. Hello!Welcome' = Hello!Welcome
  BY <1>1 DEF Hello!Welcome, Hello!config
<1>9. ClientOK'
  BY <1>1, <1>2, <1>3, <1>5, <1>6, <1>8 DEF HelloInv, ClientOK, Code
<1> QED
  BY <1>1, <1>7, <1>9, ConfigStays DEF HelloInv

\* The read of the client fails, the connection is lost, or time runs out.
LEMMA NetworkStep ==
    ASSUME HelloInv, Hello!ReadFails \/ Hello!Interrupt PROVE HelloInv'
<1>1. UNCHANGED Hello!config /\ UNCHANGED <<handler, welcome, session>>
  BY DEF Hello!ReadFails, Hello!Interrupt
<1>2. \/ /\ dial = "waiting" /\ (conn # "open" \/ interrupted)
         /\ dial' = "failed" /\ UNCHANGED interrupted
         /\ conn' = IF conn = "open" THEN "ProtocolViolation" ELSE conn
      \/ /\ conn = "open" /\ dial # "connected" /\ UNCHANGED dial
         /\ interrupted' /\ conn' \in {"open", "lost"}
  BY DEF Hello!ReadFails, Hello!Interrupt, Hello!CloseWith
<1>3. ServerOK'
  BY <1>1, ConfigStays DEF HelloInv, ServerOK
<1>4. Hello!Compatible' <=> Hello!Compatible
  BY <1>1, CompatibleStays
<1>5. Hello!Welcome' = Hello!Welcome
  BY <1>1 DEF Hello!Welcome, Hello!config
<1>6. ClientOK'
  BY <1>1, <1>2, <1>4, <1>5 DEF HelloInv, ClientOK
<1> QED
  BY <1>1, <1>3, <1>6, ConfigStays DEF HelloInv

\* The grace timer closes a suspended session.
LEMMA GraceStep == ASSUME HelloInv, Hello!GraceEnds PROVE HelloInv'
<1>1. UNCHANGED Hello!config /\ UNCHANGED <<dial, handler, conn, welcome, interrupted>>
      /\ session.state = "suspended" /\ session' = [session EXCEPT !.state = "closed"]
  BY DEF Hello!GraceEnds
<1>2. session' = [state |-> "closed", epoch |-> session.epoch]
  BY <1>1 DEF HelloInv, ServerOK
<1>3. ServerOK'
  BY <1>1, <1>2, ConfigStays DEF HelloInv, ServerOK
<1>4. Hello!Compatible' => Hello!Compatible
  BY <1>1, <1>2, Zenon DEF Hello!config, Hello!Compatible
<1>5. (handler # "serving" /\ conn # "open") \/ welcome = {}
  BY <1>1 DEF HelloInv, ServerOK, ClientOK
<1>6. ClientOK'
  BY <1>1, <1>4, <1>5 DEF HelloInv, ClientOK
<1> QED
  BY <1>1, <1>3, <1>6, ConfigStays DEF HelloInv

\* Every step keeps the invariant.
LEMMA HelloStep ==
    ASSUME Hello!HandshakeAssumption, HelloInv, [Hello!Next]_(Hello!vars) PROVE HelloInv'
<1>1. CASE UNCHANGED Hello!vars
  <2>1. UNCHANGED Hello!config /\ UNCHANGED <<dial, handler, conn, welcome, session, interrupted>>
    BY <1>1 DEF Hello!vars
  <2>2. ServerOK'
    BY <2>1, ConfigStays DEF HelloInv, ServerOK
  <2>3. Hello!Compatible' <=> Hello!Compatible
    BY <2>1, CompatibleStays
  <2>4. Hello!Welcome' = Hello!Welcome
    BY <2>1 DEF Hello!Welcome, Hello!config
  <2>5. ClientOK'
    BY <2>1, <2>3, <2>4 DEF HelloInv, ClientOK
  <2> QED
    BY <2>1, <2>2, <2>5, ConfigStays DEF HelloInv
<1> QED
  BY <1>1, DialStep, ReadHelloStep, AdmitStep, WriteWelcomeStep, FinishStep, HelloGiveUpStep,
     ReadWelcomeStep, NetworkStep, GraceStep
  DEF Hello!Next, Hello!Serving

\* The invariant holds in every state of the handshake.
LEMMA HelloInvariant ==
    ASSUME Hello!HandshakeAssumption PROVE Hello!Spec => []HelloInv
  BY HelloInit, HelloStep, PTL DEF Hello!Spec

\* Two ends agree for every configuration and every grace period: a Dial or a
\* resume that was not interrupted fails only if the configurations are not
\* compatible, although the checks are spread over five functions of two sides.
THEOREM CompatibleEndsAgree ==
    ASSUME Hello!HandshakeAssumption PROVE Hello!Spec => []Hello!HelloRefusedForCause
<1>1. HelloInv => Hello!HelloRefusedForCause
  BY DEF HelloInv, ClientOK, Hello!HelloRefusedForCause
<1> QED
  BY <1>1, HelloInvariant, PTL

\* A client that has a session has the one the server opened for it: the two
\* configurations are compatible and the WELCOME names the session's own epoch.
THEOREM TermsAgree ==
    ASSUME Hello!HandshakeAssumption PROVE Hello!Spec => []Hello!AgreedTerms
<1>1. HelloInv => Hello!AgreedTerms
  BY DEF HelloInv, ClientOK, Hello!AgreedTerms, Hello!Welcome
<1> QED
  BY <1>1, HelloInvariant, PTL

\* A handshake that fails at any point leaves the client no open connection, and
\* a server handler that returned leaves no active session.
THEOREM FailureLeavesNothing ==
    ASSUME Hello!HandshakeAssumption PROVE Hello!Spec => []Hello!FailureSuspends
<1>1. HelloInv => Hello!FailureSuspends
  BY DEF HelloInv, ClientOK, ServerOK, Hello!FailureSuspends
<1> QED
  BY <1>1, HelloInvariant, PTL

===============================================================================
