---------------------------- MODULE MCEndpointParts ----------------------------
(***************************************************************************)
(* The smaller machines around a session, checked in one run: the client   *)
(* endpoint, streams of the application, the handler pool whose worker     *)
(* yields after every callback, and the relay that delays and rebinds a    *)
(* connection.  They share no state, so a behaviour moves one of them, its *)
(* part, and leaves the others as they start: each is explored on its own. *)
(***************************************************************************)
EXTENDS ClientReconnect, TLC

CONSTANTS c1, c2, c3, s1, s2, o1, o2, w1, None

VARIABLES
    part,       \* the machine that moves
    \* CustomStreams
    customMode, customCurrent, customOpener, customHeader, customReply,
    customAcceptor, customDelivered, customInStreams, customOutStreams,
    customSlotFree,
    \* HandlerScheduler
    poolCurrent, poolState, poolPending, poolQueue, poolScheduled, poolReady,
    poolAccepting, poolWork, poolCancelled, poolAt, poolHolds, poolCount,
    poolItem,
    \* UdpRelay
    relayOpen, relayUpstream, relayReader, relayClientAddr, relayIn, relayQueues,
    relayPendingPackets, relayBlackhole, relayCanceled, relayDone, relayRebinder,
    relayPrevious, relayCloser

Custom == INSTANCE CustomStreams WITH
    Stream <- {s1, s2}, Limit <- 1, mode <- customMode, current <- customCurrent,
    opener <- customOpener, header <- customHeader, reply <- customReply,
    acceptor <- customAcceptor, delivered <- customDelivered,
    inStreams <- customInStreams, outStreams <- customOutStreams,
    slotFree <- customSlotFree

Pool == INSTANCE HandlerScheduler WITH
    Session <- {s1, s2}, Ops <- {o1, o2}, Worker <- {w1},
    SessionOf <- (o1 :> s1 @@ o2 :> s2), MaxReady <- 2, Quantum <- 1,
    QueueMessages <- 2, CloseOnEnd <- FALSE, MayClose <- FALSE,
    current <- poolCurrent, state <- poolState, pending <- poolPending,
    queue <- poolQueue, scheduled <- poolScheduled, ready <- poolReady,
    accepting <- poolAccepting, work <- poolWork, cancelled <- poolCancelled,
    at <- poolAt, holds <- poolHolds, count <- poolCount, item <- poolItem

Relay == INSTANCE UdpRelay WITH
    Sockets <- 2, MaxPackets <- 2, open <- relayOpen, upstream <- relayUpstream,
    reader <- relayReader, clientAddr <- relayClientAddr, in <- relayIn,
    queues <- relayQueues, pendingPackets <- relayPendingPackets,
    blackhole <- relayBlackhole, canceled <- relayCanceled, done <- relayDone,
    rebinder <- relayRebinder, previous <- relayPrevious, closer <- relayCloser

ASSUME Custom!StreamsAssumption /\ Pool!SchedulerAssumption /\ Relay!RelayAssumption

customVars == <<customMode, customCurrent, customOpener, customHeader,
    customReply, customAcceptor, customDelivered, customInStreams,
    customOutStreams, customSlotFree>>

poolVars == <<poolCurrent, poolState, poolPending, poolQueue, poolScheduled,
    poolReady, poolAccepting, poolWork, poolCancelled, poolAt, poolHolds,
    poolCount, poolItem>>

relayVars == <<relayOpen, relayUpstream, relayReader, relayClientAddr, relayIn,
    relayQueues, relayPendingPackets, relayBlackhole, relayCanceled, relayDone,
    relayRebinder, relayPrevious, relayCloser>>

allVars == <<part, vars, customVars, poolVars, relayVars>>

PartsInit ==
    /\ part \in {"client", "custom", "pool", "relay"}
    /\ Init /\ Custom!Init /\ Pool!Init /\ Relay!Init
    /\ part # "client" => resumable
    /\ part # "custom" => customMode = "polling"

\* only the relay may stop, once it is closed
PartsNext ==
    /\ UNCHANGED part
    /\ \/ part = "client" /\ Next /\ UNCHANGED <<customVars, poolVars, relayVars>>
       \/ part = "custom" /\ Custom!Next /\ UNCHANGED <<vars, poolVars, relayVars>>
       \/ part = "pool" /\ Pool!Next /\ UNCHANGED <<vars, customVars, relayVars>>
       \/ part = "relay" /\ Relay!Next /\ UNCHANGED <<vars, customVars, poolVars>>
       \/ part = "relay" /\ relayCloser = "returned" /\ UNCHANGED allVars

\* nothing that the fairness of a part asks for is enabled where it starts
PartsSpec ==
    /\ PartsInit /\ [][PartsNext]_allVars
    /\ Fairness /\ Custom!Fairness /\ Pool!Fairness /\ Relay!Fairness

-------------------------------------------------------------------------------
(* The properties of the parts. *)

\* Every reconnect ends with the session attached again or closed, and a closed
\* client ends its session, also when a reconnect is attaching it.
ClientSettles == ReconnectSettles /\ ClosedEnds

\* Every stream of the application is settled: its slots return, it reached the
\* other application if its opener was granted it and never if it was refused.
\* The counters of slots are exact, whichever of a failed acceptance, Close and
\* Abort released a slot first.
StreamsSettle ==
    /\ [](Custom!SlotsAreExact /\ Custom!RefusedIsNotDelivered)
    /\ Custom!StreamsSettle

\* Every token is eventually taken by a worker, so that no connection is
\* starved, and a worker that yields finds room in the ready channel.
TokensAreServed == []Pool!YieldHasRoom /\ Pool!TokensAreServed

\* The relay counts every admitted packet until it is forwarded or dropped;
\* Close returns and leaves no socket open, although RebindUpstream replaces
\* sockets meanwhile.
RelayReleases == []Relay!PacketsAreCounted /\ Relay!CloseReleases
================================================================================
