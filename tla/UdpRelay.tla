------------------------------- MODULE UdpRelay -------------------------------
(***************************************************************************)
(* The fault-injecting UDP relay of the tests: a reader per socket admits  *)
(* packets, a scheduler holds them for a while and forwards or drops them. *)
(* RebindUpstream replaces the socket to the server; Close, which the      *)
(* relay also calls itself on overload, ends everything.                   *)
(*                                                                         *)
(* Delays are arbitrary, so the heap is a count.  Bytes are counted in the *)
(* same statements as packets, and left out, as are the statistics.        *)
(***************************************************************************)
EXTENDS Integers, FiniteSets

CONSTANTS
    Sockets,            \* upstream sockets 1..Sockets: a rebind takes the next
    MaxPackets

RelayAssumption == Sockets \in Nat \ {0} /\ MaxPackets \in Nat \ {0}

Client == 0
Reader == 0..Sockets        \* a reader for each socket
Direction == {"ClientToServer", "ServerToClient"}

VARIABLES
    open,               \* open sockets
    upstream,           \* the current upstream socket
    reader,             \* where each reader is
    clientAddr,         \* whether the client's address is known
    in, queues,         \* packets in the channel and in the heap
    pendingPackets,
    blackhole,          \* directions that are dropped
    canceled, done,
    rebinder,           \* RebindUpstream: idle, listening or replaced
    previous,           \* the socket it has yet to close
    closer              \* Close: idle, called, canceled, waiting or returned

packets == <<in, queues, pendingPackets>>
calls == <<rebinder, previous, closer>>
sockets == <<open, upstream>>
vars == <<packets, reader, clientAddr, canceled, done, calls, sockets, blackhole>>

Init ==
    /\ open = {Client, 1} /\ upstream = 1
    /\ reader = [r \in Reader |-> IF r \in open THEN "reading" ELSE "none"]
    /\ clientAddr = FALSE
    /\ in = 0 /\ queues = 0 /\ pendingPackets = 0
    /\ blackhole = {}
    /\ canceled = FALSE /\ done = FALSE
    /\ rebinder = "idle" /\ previous = 0 /\ closer = "idle"

-------------------------------------------------------------------------------
(* readClient, readUpstream and enqueue. *)

Blackholed(r) == (IF r = Client THEN "ClientToServer" ELSE "ServerToClient") \in blackhole

\* Fault: the limit is found exceeded one packet late.
HasRoomLate == pendingPackets <= MaxPackets

HasRoom == pendingPackets < MaxPackets

\* a packet is read; the server's are discarded until the client is known
Read(r) ==
    /\ reader[r] = "reading" /\ r \in open
    /\ clientAddr' = (clientAddr \/ r = Client)
    /\ reader' = [reader EXCEPT ![r] = IF clientAddr' THEN "enqueue" ELSE "reading"]
    /\ UNCHANGED <<packets, canceled, done, calls, sockets, blackhole>>

\* and dropped
Drop(r) ==
    /\ reader[r] = "enqueue" /\ Blackholed(r)
    /\ reader' = [reader EXCEPT ![r] = "reading"]
    /\ UNCHANGED <<packets, clientAddr, canceled, done, calls, sockets, blackhole>>

\* or too many: failLocked closes the relay, once
Overload(r) ==
    /\ reader[r] = "enqueue" /\ ~Blackholed(r) /\ ~HasRoom
    /\ reader' = [reader EXCEPT ![r] = "reading"]
    /\ closer' = IF closer = "idle" THEN "called" ELSE closer
    /\ UNCHANGED <<packets, clientAddr, canceled, done, rebinder, previous, sockets, blackhole>>

\* or counted
Admit(r) ==
    /\ reader[r] = "enqueue" /\ ~Blackholed(r) /\ HasRoom
    /\ reader' = [reader EXCEPT ![r] = "sending"]
    /\ pendingPackets' = pendingPackets + 1
    /\ UNCHANGED <<in, queues, clientAddr, canceled, done, calls, sockets, blackhole>>

\* a read of a closed socket fails
Leave(r) ==
    /\ reader[r] = "reading" /\ r \notin open
    /\ reader' = [reader EXCEPT ![r] = "gone"]
    /\ UNCHANGED <<packets, clientAddr, canceled, done, calls, sockets, blackhole>>

\* outside r.mu; a canceled relay may take either branch
Send(r) ==
    /\ reader[r] = "sending"
    /\ \/ in < MaxPackets /\ in' = in + 1 /\ UNCHANGED pendingPackets
       \/ canceled /\ pendingPackets' = pendingPackets - 1 /\ UNCHANGED in
    /\ reader' = [reader EXCEPT ![r] = "reading"]
    /\ UNCHANGED <<queues, clientAddr, canceled, done, calls, sockets, blackhole>>

-------------------------------------------------------------------------------
(* schedule. *)

\* a packet from the channel is lost or waits for its time
Take ==
    /\ ~done /\ in > 0
    /\ in' = in - 1
    /\ \/ queues' = queues + 1 /\ UNCHANGED pendingPackets
       \/ pendingPackets' = pendingPackets - 1 /\ UNCHANGED queues
    /\ UNCHANGED <<reader, clientAddr, canceled, done, calls, sockets, blackhole>>

\* Fault: a packet whose write failed is not released.
ForwardKeeping ==
    /\ ~done /\ queues > 0
    /\ queues' = queues - 1
    /\ pendingPackets' \in {pendingPackets, pendingPackets - 1}
    /\ UNCHANGED <<in, reader, clientAddr, canceled, done, calls, sockets, blackhole>>

\* its time has come: the packet is written, or dropped if that fails
Forward ==
    /\ ~done /\ queues > 0
    /\ queues' = queues - 1
    /\ pendingPackets' = pendingPackets - 1
    /\ UNCHANGED <<in, reader, clientAddr, canceled, done, calls, sockets, blackhole>>

\* canceled: the heap and then the channel are drained, one by one
Drain ==
    /\ canceled /\ ~done
    /\ \/ queues > 0 /\ queues' = queues - 1 /\ UNCHANGED in
       \/ queues = 0 /\ in > 0 /\ in' = in - 1 /\ UNCHANGED queues
    /\ pendingPackets' = pendingPackets - 1
    /\ UNCHANGED <<reader, clientAddr, canceled, done, calls, sockets, blackhole>>

Finish ==
    /\ canceled /\ ~done /\ queues = 0 /\ in = 0
    /\ done' = TRUE
    /\ UNCHANGED <<packets, reader, clientAddr, canceled, calls, sockets, blackhole>>

-------------------------------------------------------------------------------
(* RebindUpstream, SetBlackhole and Close. *)

Listen ==
    /\ rebinder = "idle" /\ upstream < Sockets
    /\ rebinder' = "listening"
    /\ open' = open \cup {upstream + 1}
    /\ UNCHANGED <<packets, reader, clientAddr, canceled, done, previous, closer, upstream, blackhole>>

\* Fault: a relay closed meanwhile is not noticed.
ReplaceAnyway ==
    /\ rebinder = "listening"
    /\ upstream' = upstream + 1 /\ previous' = upstream
    /\ reader' = [reader EXCEPT ![upstream'] = "reading"]
    /\ rebinder' = "replaced" /\ UNCHANGED open
    /\ UNCHANGED <<packets, clientAddr, canceled, done, closer, blackhole>>

\* under r.mu; the replacement is closed again when the relay is canceled
Replace ==
    /\ rebinder = "listening"
    /\ \/ /\ canceled
          /\ open' = open \ {upstream + 1}
          /\ rebinder' = "idle" /\ UNCHANGED <<upstream, previous, reader>>
       \/ /\ ~canceled
          /\ upstream' = upstream + 1 /\ previous' = upstream
          /\ reader' = [reader EXCEPT ![upstream'] = "reading"]
          /\ rebinder' = "replaced" /\ UNCHANGED open
    /\ UNCHANGED <<packets, clientAddr, canceled, done, closer, blackhole>>

ClosePrevious ==
    /\ rebinder = "replaced"
    /\ open' = open \ {previous}
    /\ rebinder' = "idle"
    /\ UNCHANGED <<packets, reader, clientAddr, canceled, done, previous, closer, upstream, blackhole>>

SetBlackhole(d) ==
    /\ blackhole' = IF d \in blackhole THEN blackhole \ {d} ELSE blackhole \cup {d}
    /\ UNCHANGED <<packets, reader, clientAddr, canceled, done, calls, sockets>>

CallClose ==
    /\ closer = "idle"
    /\ closer' = "called"
    /\ UNCHANGED <<packets, reader, clientAddr, canceled, done, rebinder, previous, sockets, blackhole>>

CloseCancel ==
    /\ closer = "called"
    /\ canceled' = TRUE
    /\ open' = open \ {Client}
    /\ closer' = "canceled"
    /\ UNCHANGED <<packets, reader, clientAddr, done, rebinder, previous, upstream, blackhole>>

\* the upstream socket of the moment, read under r.mu
CloseUpstream ==
    /\ closer = "canceled"
    /\ open' = open \ {upstream}
    /\ closer' = "waiting"
    /\ UNCHANGED <<packets, reader, clientAddr, canceled, done, rebinder, previous, upstream, blackhole>>

CloseReturn ==
    /\ closer = "waiting" /\ done
    /\ closer' = "returned"
    /\ UNCHANGED <<packets, reader, clientAddr, canceled, done, rebinder, previous, sockets, blackhole>>

-------------------------------------------------------------------------------

ScheduleStep == Take \/ Forward \/ Drain \/ Finish
RebindStep == Replace \/ ClosePrevious
CloseStep == CloseCancel \/ CloseUpstream \/ CloseReturn

Next ==
    \/ \E r \in Reader : Read(r) \/ Drop(r) \/ Overload(r) \/ Admit(r) \/ Send(r) \/ Leave(r)
    \/ ScheduleStep \/ RebindStep \/ CloseStep
    \/ Listen \/ CallClose \/ \E d \in Direction : SetBlackhole(d)

\* goroutines run; nothing obliges a caller to rebind or to close
Fairness ==
    /\ WF_vars(ScheduleStep) /\ WF_vars(RebindStep) /\ WF_vars(CloseStep)

Spec == Init /\ [][Next]_vars /\ Fairness

-------------------------------------------------------------------------------
(* Properties. *)

Admitted == {r \in Reader : reader[r] = "sending"}

\* Every admitted packet is counted until it is forwarded, dropped or released,
\* by whichever of the readers and the scheduler has it, and never more than
\* MaxPackets are: a reader finds room in the channel, which it sends to
\* outside r.mu, and blocks on nothing.
PacketsAreCounted ==
    /\ pendingPackets = in + queues + Cardinality(Admitted)
    /\ pendingPackets <= MaxPackets

\* Close returns, also when the relay calls it for an overload, and leaves no
\* socket open, although RebindUpstream replaces sockets meanwhile.
CloseReleases == closer # "idle" ~> closer = "returned" /\ open = {}
===============================================================================
