----------------------------- MODULE MCSafetyParts -----------------------------
(***************************************************************************)
(* The machines below and around a session of which only safety is asked,  *)
(* checked in one run.  They share no state.  A behaviour is a behaviour   *)
(* of one of them, its part, so that the same variables serve them all;    *)
(* those a part does not need keep the value 0, and a property is asked    *)
(* where its machine is the part.                                          *)
(***************************************************************************)
EXTENDS Integers, TLC

CONSTANTS p1, r1, r2, q1, s1, s2, o1, o2, w1, w2, None

VARIABLES
    part,       \* the machine that moves
    v1, v2, v3, v4, v5, v6, v7, v8, v9, v10, v11, v12, v13

Limits == INSTANCE RateLimits WITH
    Source <- {"a", "b"}, Price <- 2, Full <- 3, Idle <- 3, MaxSources <- 1,
    MessagePrice <- 2, MessageFull <- 2, MaxTime <- 6, MaxBursts <- 4,
    now <- v1, sources <- v2, fill <- v3, seen <- v4, rateTokens <- v5,
    rateAt <- v6, mark <- v7, paid <- v8, messagesPaid <- v9, bursts <- v10

Queue == INSTANCE BoundedQueue WITH
    Pusher <- {p1}, Reserver <- {r1, r2}, Consumer <- {q1}, Key <- {1, 2},
    Size <- {1, 2}, MaxBytes <- 4, MaxItems <- 3,
    items <- v1, bytes <- v2, reservedBytes <- v3, reservedItems <- v4,
    closed <- v5, notify <- v6, pc <- v7, want <- v8

Polling == INSTANCE PollingQueue WITH
    Conn <- {"old", "new"}, Reads <- {"old"}, Receives <- {"new"}, Size <- {1},
    MaxBytes <- 2, MaxItems <- 1, MaxApp <- 2, MaxOther <- 1, MaxHeld <- 1,
    items <- v1, closed <- v2, terminal <- v3, used <- v4, other <- v5,
    token <- v6, pc <- v7, want <- v8, conn <- v9, next <- v10, held <- v11,
    accepted <- v12, returned <- v13

Inbox == INSTANCE HandlerInbox WITH
    Size <- {1, 2}, MaxBytes <- 3, MaxItems <- 2, MaxApp <- 5, MaxOther <- 1,
    used <- v1, other <- v2, queue <- v3, scheduled <- v4, accepting <- v5,
    running <- v6, pc <- v7, want <- v8, current <- v9, dropped <- v10

Pool == INSTANCE HandlerScheduler WITH
    Session <- {s1, s2}, Ops <- {o1, o2}, Worker <- {w1, w2},
    SessionOf <- (o1 :> s1 @@ o2 :> s2), MaxReady <- 1, Quantum <- 2,
    QueueMessages <- 2, CloseOnEnd <- FALSE, MayClose <- TRUE,
    current <- v1, state <- v2, pending <- v3, queue <- v4, scheduled <- v5,
    ready <- v6, accepting <- v7, work <- v8, cancelled <- v9, at <- v10,
    holds <- v11, count <- v12, item <- v13

Channel == INSTANCE Channels WITH
    Channel <- {1, 2}, SenderLimit <- [reliable |-> 2, datagram |-> 2],
    ReceiverLimit <- [reliable |-> 1, datagram |-> 1], QueueMessages <- 2,
    MaxSent <- 3,
    outbound <- v1, reliable <- v2, sent <- v3, streams <- v4, datagrams <- v5,
    inbound <- v6, reading <- v7, received <- v8, queue <- v9, running <- v10,
    log <- v11, current <- v12, closedFor <- v13

Ledger == INSTANCE Ledgers WITH
    Call <- {"m1", "m2", "r1", "r2"}, Replies <- {"r1", "r2"},
    Size <- [m1 |-> 1, m2 |-> 2, r1 |-> 1, r2 |-> 2], QueueBytes <- 4,
    Response <- 2, MaxApp <- 4, MaxOther <- 1,
    ordinary <- v1, reply <- v2, app <- v3, at <- v4, used <- v5, other <- v6

Observer == INSTANCE ObserverQueue WITH
    Duration <- {0, 1, 3, 4, 5, 9}, Doublings <- 2, Second <- 5, Capacity <- 1,
    MaxSeen <- 3,
    seen <- v1, pending <- v2, flusher <- v3, batch <- v4, queue <- v5,
    host <- v6, told <- v7, lost <- v8, dropped <- v9, canceled <- v10

Hello == INSTANCE Handshake WITH
    Grace <- {5, 10},
    client <- v1, server <- v2, situation <- v3, datagrams <- v4, dial <- v5,
    handler <- v6, conn <- v7, welcome <- v8, session <- v9, interrupted <- v10

Ticket == INSTANCE Tickets WITH
    Key <- {1, 2}, SignerKey <- 1, Second <- 2, Lifetime <- 4, Leeway <- 1,
    Skew <- 1, MaxTime <- 6, MaxRestarts <- 1,
    now <- v1, skew <- v2, incarnation <- v3, listed <- v4, keys <- v5,
    until <- v6, reply <- v7, ticket <- v8, outcome <- v9

Frames == INSTANCE Framing WITH
    Base <- 8, Sample <- 0..4, MaxLength <- 6, NotText <- 4, MaxChannel <- 17,
    MaxType <- 1025, MaxTimeout <- 18, MaxDiagnostic <- 1, Overhead <- 13,
    SenderBytes <- 2, ReceiverBytes <- 3, DatagramBytes <- 22,
    sent <- v1, bytes <- v2

ASSUME
    /\ Limits!RateAssumption
    /\ Queue!QueueAssumption
    /\ Polling!InboxAssumption
    /\ Inbox!HandlerAssumption
    /\ Pool!SchedulerAssumption
    /\ Channel!ChannelsAssumption
    /\ Ledger!LedgersAssumption
    /\ Observer!ObserverAssumption
    /\ Hello!HandshakeAssumption
    /\ Ticket!TicketsAssumption
    /\ Frames!FramingAssumption

allVars == <<part, v1, v2, v3, v4, v5, v6, v7, v8, v9, v10, v11, v12, v13>>

PartsInit ==
    \/ part = "limits" /\ Limits!Init /\ v11 = 0 /\ v12 = 0 /\ v13 = 0
    \/ /\ part = "queue" /\ Queue!Init
       /\ v9 = 0 /\ v10 = 0 /\ v11 = 0 /\ v12 = 0 /\ v13 = 0
    \/ part = "polling" /\ Polling!Init
    \/ part = "inbox" /\ Inbox!Init /\ v11 = 0 /\ v12 = 0 /\ v13 = 0
    \/ part = "pool" /\ Pool!Init
    \/ part = "channels" /\ Channel!Init
    \/ /\ part = "ledgers" /\ Ledger!Init
       /\ v7 = 0 /\ v8 = 0 /\ v9 = 0 /\ v10 = 0 /\ v11 = 0 /\ v12 = 0 /\ v13 = 0
    \/ part = "observer" /\ Observer!Init /\ v11 = 0 /\ v12 = 0 /\ v13 = 0
    \/ part = "handshake" /\ Hello!Init /\ v11 = 0 /\ v12 = 0 /\ v13 = 0
    \/ part = "tickets" /\ Ticket!Init /\ v10 = 0 /\ v11 = 0 /\ v12 = 0 /\ v13 = 0
    \/ /\ part = "framing" /\ Frames!Init
       /\ v3 = 0 /\ v4 = 0 /\ v5 = 0 /\ v6 = 0 /\ v7 = 0 /\ v8 = 0
       /\ v9 = 0 /\ v10 = 0 /\ v11 = 0 /\ v12 = 0 /\ v13 = 0

\* six parts may stop: nothing is left to send, or a bound is reached
PartsNext ==
    \/ part = "limits" /\ Limits!Next /\ UNCHANGED <<part, v11, v12, v13>>
    \/ /\ part = "queue" /\ Queue!Next
       /\ UNCHANGED <<part, v9, v10, v11, v12, v13>>
    \/ part = "polling" /\ Polling!Next /\ UNCHANGED <<part>>
    \/ part = "inbox" /\ Inbox!Next /\ UNCHANGED <<part, v11, v12, v13>>
    \/ part = "pool" /\ Pool!Next /\ UNCHANGED <<part>>
    \/ part = "channels" /\ Channel!Next /\ UNCHANGED <<part>>
    \/ /\ part = "ledgers" /\ Ledger!Next
       /\ UNCHANGED <<part, v7, v8, v9, v10, v11, v12, v13>>
    \/ part = "observer" /\ Observer!Next /\ UNCHANGED <<part, v11, v12, v13>>
    \/ part = "handshake" /\ Hello!Next /\ UNCHANGED <<part, v11, v12, v13>>
    \/ /\ part = "tickets" /\ Ticket!Next
       /\ UNCHANGED <<part, v10, v11, v12, v13>>
    \/ /\ part = "framing" /\ Frames!Next
       /\ UNCHANGED <<part, v3, v4, v5, v6, v7, v8, v9, v10, v11, v12, v13>>
    \/ /\ part \in {"limits", "polling", "channels", "observer", "handshake", "framing"}
       /\ UNCHANGED allVars

PartsSpec == PartsInit /\ [][PartsNext]_allVars

\* the reservers of the queue and the workers of the pool are alike, and so are
\* its connections, with their sessions
Symmetry ==
    Permutations({r1, r2}) \cup Permutations({w1, w2})
      \cup {s1 :> s2 @@ s2 :> s1 @@ o1 :> o2 @@ o2 :> o1}

-------------------------------------------------------------------------------
(* The properties of the parts. *)

\* In every window of time handshakeLimiter admits a source for at most one
\* burst and the refill of the window, although its bucket may be forgotten and
\* made anew; allowInboundMessage admits at most the refill and one burst for
\* every connection attached in the window.
RatesAreKept ==
    part = "limits" =>
        /\ Limits!TypeOK
        /\ Limits!HandshakesWithinRate
        /\ Limits!MessagesWithinRate

\* After any mix of its operations the counters of a Queue are exact, queued
\* items and outstanding reservations are within both bounds, and a key is
\* queued at most once.
QueueIsExact ==
    part = "queue" =>
        /\ Queue!TypeOK
        /\ Queue!WithinLimits
        /\ Queue!ChargesAreExact
        /\ Queue!OneItemPerKey

\* Both budgets of the polling inbox are exact, whatever refusals, timeouts,
\* discarded epochs and Close a payload went through; a late Commit leaves
\* nothing in a closed inbox; a SessionEnded notice it accepted is returned by
\* Next or still there.
InboxIsExact ==
    part = "polling" =>
        /\ Polling!TypeOK
        /\ Polling!InboxChargesAreExact
        /\ Polling!EndedIsKept
        /\ Polling!ClosedIsDrained

\* The application budget holds exactly the envelopes of handler mode, and a
\* message committed after its epoch was dropped still has a token, so that a
\* worker will release it.
HandlerMemoryIsExact ==
    part = "inbox" =>
        /\ Inbox!TypeOK
        /\ Inbox!HandlerChargesAreExact
        /\ Inbox!MessagesAreScheduled

\* A connection owns one scheduling token, which is ready or held by one worker;
\* while the pool accepts work none is queued without a token; the WaitGroup
\* that shutdown waits for counts exactly the tokens, and the pool is
\* cancelled when there are none.
TokensAreExact ==
    part = "pool" =>
        /\ Pool!TypeOK
        /\ Pool!OneToken
        /\ Pool!QueuedIsScheduled
        /\ Pool!WorkCountsTokens
        /\ Pool!CancelledIsQuiet

\* A reliable channel delivers every message in order and with no gap, an older
\* update never follows a newer one on a sequenced channel, and a receiver
\* never takes what a correct sender let through for a violation.
ChannelsKeepOrder ==
    part = "channels" =>
        /\ Channel!TypeOK
        /\ Channel!ChannelPeersNeverViolate
        /\ Channel!ReliableInOrder
        /\ Channel!SequencedIsFresh

\* Every byte charged to a session is held by one call that will refund it, and
\* ordinary traffic never takes the bytes kept for a response.
LedgersAreExact ==
    part = "ledgers" =>
        /\ Ledger!LedgersAreExact
        /\ Ledger!ReplyFits

\* Every observation is counted once under its bound, or its loss is, also when
\* it is made while a batch is flushed.
ObservationsAccounted == part = "observer" => Observer!ObservationsAccounted

\* Two ends with compatible configurations always agree on a session; a client
\* that has one has the one the server opened for it; a handshake that fails on
\* one side leaves nothing active on the other.
HandshakeAgrees ==
    part = "handshake" =>
        /\ Hello!HelloRefusedForCause
        /\ Hello!AgreedTerms
        /\ Hello!FailureSuspends

\* A ticket admits only to the incarnation and the group it was signed for, in
\* its lifetime and in that of the credential, and is refused only for a reason
\* its holder can repair.
TicketsAdmitInTime ==
    part = "tickets" =>
        /\ Ticket!AdmittedInTime
        /\ Ticket!RefusedForCause

\* What an end may send is encoded, and read as it was sent when all of it is
\* there; what a reader accepts is what the encoder makes of it; decoders of
\* slices and readers of streams accept the same frames.
FramesAgree ==
    part = "framing" =>
        /\ Frames!FramesArrive
        /\ Frames!OneEncoding
        /\ Frames!ReadersAgree
================================================================================
