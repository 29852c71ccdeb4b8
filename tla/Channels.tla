------------------------------- MODULE Channels -------------------------------
(***************************************************************************)
(* Event channels of one connection, in one direction: send with its       *)
(* bindings and sequence numbers at one end; the stream readers, the       *)
(* datagram receiver and the handler queue at the other.  A channel is     *)
(* bound to one delivery mode by its first use, at each end on its own.    *)
(* Reliable messages arrive in order on a stream per channel; datagrams    *)
(* are lost and overtake each other.                                       *)
(***************************************************************************)
EXTENDS Integers, Sequences, FiniteSets

CONSTANTS
    Channel,
    SenderLimit, ReceiverLimit,   \* channels of each class, [reliable, datagram]
    QueueMessages,                \* of the receiver's handler queue
    MaxSent                       \* bound on the messages sent on a channel

Class == {"reliable", "datagram"}
Delivery == {"reliable", "unreliable", "sequenced"}

ChannelsAssumption ==
    /\ SenderLimit \in [Class -> Nat] /\ ReceiverLimit \in [Class -> Nat]
    /\ QueueMessages \in Nat \ {0} /\ MaxSent \in Nat

VARIABLES
    outbound,     \* the sender's binding of each channel
    reliable,     \* channels with an open stream
    sent,         \* messages sent on each channel; numbers them
    streams,      \* numbers on their way on each channel's stream
    datagrams,    \* datagrams on their way
    inbound,      \* the receiver's binding of each channel
    reading,      \* channels with a stream reader
    received,     \* the newest sequence number received on each channel
    queue,        \* the handler queue
    running,      \* the envelope a worker took from it, if any
    log,          \* numbers delivered to the application on each channel
    current,      \* the epoch is current at the receiver
    closedFor     \* why the receiver closed the session

sender == <<outbound, reliable, sent>>
net == <<streams, datagrams>>
receiver == <<inbound, reading, received, queue, running, log, current, closedFor>>
vars == <<sender, net, receiver>>

Message == [channel : Channel, delivery : Delivery, n : 1..MaxSent]

Init ==
    /\ outbound = [c \in Channel |-> "none"] /\ reliable = {}
    /\ sent = [c \in Channel |-> 0]
    /\ streams = [c \in Channel |-> <<>>] /\ datagrams = {}
    /\ inbound = [c \in Channel |-> "none"] /\ reading = {}
    /\ received = [c \in Channel |-> 0]
    /\ queue = <<>> /\ running = {}
    /\ log = [c \in Channel |-> <<>>]
    /\ current = TRUE /\ closedFor = "nothing"

-------------------------------------------------------------------------------
(* Bindings. *)

ClassOf(d) == IF d = "reliable" THEN "reliable" ELSE "datagram"
Bound(map, class) == {c \in Channel : map[c] # "none" /\ ClassOf(map[c]) = class}
SmallerOf(a, b) == IF a <= b THEN a ELSE b

\* Fault: the limit the peer advertised is ignored.
OutboundLimitLocal(class) == SenderLimit[class]

\* minimumAdvertisedLimit: a peer that advertises nothing sets no limit
OutboundLimit(class) ==
    IF ReceiverLimit[class] = 0 THEN SenderLimit[class]
    ELSE SmallerOf(SenderLimit[class], ReceiverLimit[class])

BindOutbound(c, d) ==
    /\ \/ outbound[c] = d
       \/ outbound[c] = "none" /\ Cardinality(Bound(outbound, ClassOf(d))) < OutboundLimit(ClassOf(d))
    /\ outbound' = [outbound EXCEPT ![c] = d]

\* a reliable channel has one stream; a datagram channel may repeat
CanBindInbound(c, d) ==
    \/ inbound[c] = d /\ d # "reliable"
    \/ inbound[c] = "none" /\ Cardinality(Bound(inbound, ClassOf(d))) < ReceiverLimit[ClassOf(d)]

-------------------------------------------------------------------------------
(* send. *)

\* the stream of a channel is opened by its first message, which may fail
\* after the channel was bound
SendReliable(c) ==
    /\ sent[c] < MaxSent
    /\ BindOutbound(c, "reliable")
    /\ \/ /\ reliable' = reliable \cup {c}
          /\ sent' = [sent EXCEPT ![c] = @ + 1]
          /\ streams' = [streams EXCEPT ![c] = Append(@, sent'[c])]
       \/ c \notin reliable /\ UNCHANGED <<reliable, sent, streams>>
    /\ UNCHANGED <<datagrams, receiver>>

\* numbered under eventMu; a datagram the transport refuses has its number too
SendDatagram(c, d) ==
    /\ d # "reliable" /\ sent[c] < MaxSent
    /\ BindOutbound(c, d)
    /\ sent' = [sent EXCEPT ![c] = @ + 1]
    /\ \/ datagrams' = datagrams \cup {[channel |-> c, delivery |-> d, n |-> sent'[c]]}
       \/ UNCHANGED datagrams
    /\ UNCHANGED <<reliable, streams, receiver>>

Lose(m) ==
    /\ datagrams' = datagrams \ {m}
    /\ UNCHANGED <<sender, streams, receiver>>

-------------------------------------------------------------------------------
(* The receiver. *)

\* session.Close, once: the epoch is no longer current
CloseFor(reason) ==
    /\ closedFor' = IF current THEN reason ELSE closedFor
    /\ current' = FALSE

\* a message is queued at the end, or the queue is full
Queue(m) ==
    /\ Len(queue) < QueueMessages
    /\ queue' = Append(queue, m)

\* Fault: the queued update is kept and the newer one put before it.
CoalesceInFront(m) ==
    /\ Len(queue) < QueueMessages
    /\ queue' = <<m>> \o queue

\* ReplaceWith: a queued update of the channel is replaced where it stands
Coalesce(m) ==
    LET same == {i \in DOMAIN queue : queue[i].delivery = "sequenced" /\ queue[i].channel = m.channel} IN
    IF same = {} THEN Queue(m)
    ELSE queue' = [i \in DOMAIN queue |-> IF i \in same THEN m ELSE queue[i]]

\* readReliableStream: the header of a new stream
AcceptStream(c) ==
    /\ c \in reliable \ reading /\ current
    /\ IF CanBindInbound(c, "reliable")
         THEN /\ inbound' = [inbound EXCEPT ![c] = "reliable"]
              /\ reading' = reading \cup {c}
              /\ UNCHANGED <<current, closedFor>>
         ELSE CloseFor("violation") /\ UNCHANGED <<inbound, reading>>
    /\ UNCHANGED <<sender, net, received, queue, running, log>>

\* Fault: a reliable message that finds the queue full is dropped.
ReadReliableDrops(c) ==
    /\ c \in reading /\ streams[c] # <<>>
    /\ streams' = [streams EXCEPT ![c] = Tail(@)]
    /\ \/ Queue([channel |-> c, delivery |-> "reliable", n |-> Head(streams[c])])
       \/ Len(queue) >= QueueMessages /\ UNCHANGED queue
    /\ UNCHANGED <<sender, datagrams, inbound, reading, received, running, log, current, closedFor>>

\* the reader waits for room and commits; one that waited too long, or read
\* too fast, closes the session.  A reader of a stopped epoch may still commit.
ReadReliable(c) ==
    /\ c \in reading /\ streams[c] # <<>>
    /\ streams' = [streams EXCEPT ![c] = Tail(@)]
    /\ \/ /\ Queue([channel |-> c, delivery |-> "reliable", n |-> Head(streams[c])])
          /\ UNCHANGED <<reading, current, closedFor>>
       \/ reading' = reading \ {c} /\ CloseFor("slow") /\ UNCHANGED queue
    /\ UNCHANGED <<sender, datagrams, inbound, received, running, log>>

\* Fault: sequence numbers are not compared.
IsStaleNever(m) == FALSE

IsStale(m) == m.delivery = "sequenced" /\ m.n <= received[m.channel]

\* deliverEvent: a message is dropped under pressure or after the epoch
DeliverEvent(m) ==
    \/ UNCHANGED queue
    \/ current /\ IF m.delivery = "sequenced" THEN Coalesce(m) ELSE Queue(m)

\* receiveDatagrams: a datagram the bindings refuse closes the session, a
\* stale update is dropped, the others are delivered
ReceiveDatagram(m) ==
    /\ datagrams' = datagrams \ {m}
    /\ IF CanBindInbound(m.channel, m.delivery)
         THEN /\ inbound' = [inbound EXCEPT ![m.channel] = m.delivery]
              /\ IF IsStale(m) THEN UNCHANGED <<received, queue>>
                 ELSE /\ received' = IF m.delivery = "sequenced"
                                       THEN [received EXCEPT ![m.channel] = m.n] ELSE received
                      /\ DeliverEvent(m)
              /\ UNCHANGED <<current, closedFor>>
         ELSE CloseFor("violation") /\ UNCHANGED <<inbound, received, queue>>
    /\ UNCHANGED <<sender, streams, reading, running, log>>

\* a worker takes the next envelope
TakeEnvelope ==
    /\ running = {} /\ queue # <<>>
    /\ running' = {Head(queue)}
    /\ queue' = Tail(queue)
    /\ UNCHANGED <<sender, net, inbound, reading, received, log, current, closedFor>>

\* invoke: the callback runs if the epoch is current
Invoke(m) ==
    /\ m \in running
    /\ running' = {}
    /\ log' = IF current THEN [log EXCEPT ![m.channel] = Append(@, m.n)] ELSE log
    /\ UNCHANGED <<sender, net, inbound, reading, received, queue, current, closedFor>>

\* the session is suspended or closed for a reason of its own
EndEpoch ==
    /\ current
    /\ CloseFor("other")
    /\ UNCHANGED <<sender, net, inbound, reading, received, queue, running, log>>

\* stopEpoch: dropQueuedHandlers
StopEpoch ==
    /\ ~current
    /\ queue' = <<>>
    /\ UNCHANGED <<sender, net, inbound, reading, received, running, log, current, closedFor>>

-------------------------------------------------------------------------------

Next ==
    \/ \E c \in Channel : SendReliable(c) \/ AcceptStream(c) \/ ReadReliable(c)
    \/ \E c \in Channel, d \in Delivery : SendDatagram(c, d)
    \/ \E m \in datagrams : Lose(m) \/ ReceiveDatagram(m)
    \/ \E m \in running : Invoke(m)
    \/ TakeEnvelope \/ EndEpoch \/ StopEpoch

Spec == Init /\ [][Next]_vars

-------------------------------------------------------------------------------
(* Properties. *)

\* Every variable has its type, and the handler queue is within its limit.
TypeOK ==
    /\ outbound \in [Channel -> Delivery \cup {"none"}]
    /\ inbound \in [Channel -> Delivery \cup {"none"}]
    /\ reliable \subseteq Channel /\ reading \subseteq Channel
    /\ sent \in [Channel -> 0..MaxSent] /\ received \in [Channel -> 0..MaxSent]
    /\ streams \in [Channel -> Seq(1..MaxSent)] /\ datagrams \subseteq Message
    /\ queue \in Seq(Message) /\ Len(queue) <= QueueMessages
    /\ running \subseteq Message /\ log \in [Channel -> Seq(1..MaxSent)]
    /\ current \in BOOLEAN /\ closedFor \in {"nothing", "violation", "slow", "other"}

\* Two correct endpoints agree on bindings and limits: the receiver never
\* takes what send let through for a protocol violation, although each end
\* binds on its own and a stream may fail to open after its channel was bound.
ChannelPeersNeverViolate == closedFor # "violation"

\* On a reliable channel the application sees every message in order, with no
\* gap, up to the end of the epoch.
ReliableInOrder ==
    \A c \in Channel : inbound[c] = "reliable" => log[c] = [i \in DOMAIN log[c] |-> i]

\* On a sequenced channel an older update never follows a newer one, however
\* datagrams overtake each other and updates are coalesced in the queue.
SequencedIsFresh ==
    \A c \in Channel : inbound[c] = "sequenced" =>
        \A i, j \in DOMAIN log[c] : i < j => log[c][i] < log[c][j]

===============================================================================
