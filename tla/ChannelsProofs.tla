------------------------ MODULE ChannelsProofs ------------------------
(***************************************************************************)
(* What the application sees of a reliable channel, for every set of       *)
(* channels, every limit and every order of the streams' events: the epoch *)
(* may end at any step, queues may refuse, and datagrams of other channels *)
(* may be lost, reordered and coalesced in between.                        *)
(***************************************************************************)
EXTENDS Channels, TLAPS

\* The two ends agree on the bindings: the receiver binds only what the sender
\* bound and reads each stream once.
Agreed ==
    /\ \A c \in Channel : inbound[c] \in {"none", outbound[c]}
    /\ \A c \in reliable : outbound[c] = "reliable"
    /\ \A m \in datagrams : m.delivery # "reliable" /\ outbound[m.channel] = m.delivery
    /\ \A c \in Channel : current /\ inbound[c] = "reliable" => c \in reading

\* What the receiver holds was sent on a bound channel, one worker runs at a
\* time, and only a reliable channel has a stream.
Placed ==
    /\ \A m \in running : outbound[m.channel] = m.delivery
    /\ \A i \in DOMAIN queue : outbound[queue[i].channel] = queue[i].delivery
    /\ \A m, k \in running : m = k
    /\ \A c \in Channel : outbound[c] = "none" => sent[c] = 0 /\ log[c] = <<>>
    /\ \A c \in Channel : outbound[c] # "reliable" => streams[c] = <<>>

\* The messages of a reliable channel that were read off its stream.
ReadOf(c) == sent[c] - Len(streams[c])

\* A reliable channel: its stream holds the last numbers that were sent, the
\* application has the first ones, and those between are, while the epoch
\* lasts, with the worker and in the queue, in order and without a gap.
InOrder(c) ==
    /\ \A i \in DOMAIN streams[c] : streams[c][i] = ReadOf(c) + i
    /\ \A i \in DOMAIN log[c] : log[c][i] = i
    /\ current =>
         /\ Len(log[c]) <= ReadOf(c)
         /\ \A m \in running : m.channel = c => m.n = Len(log[c]) + 1 /\ m.n <= ReadOf(c)
         /\ \A i \in DOMAIN queue : queue[i].channel = c =>
              /\ Len(log[c]) < queue[i].n /\ queue[i].n <= ReadOf(c)
              /\ \A m \in running : m.channel = c => m.n < queue[i].n
              /\ \A j \in DOMAIN queue : queue[j].channel = c /\ i < j => queue[i].n < queue[j].n
         /\ \A k \in (Len(log[c]) + 1)..ReadOf(c) :
              \/ \E m \in running : m.channel = c /\ m.n = k
              \/ \E i \in DOMAIN queue : queue[i].channel = c /\ queue[i].n = k

\* The inductive invariant.
ChannelsInv ==
    /\ TypeOK /\ Agreed /\ Placed
    /\ \A c \in Channel : outbound[c] = "reliable" => InOrder(c)

\* What Append does to a sequence.
LEMMA AppendSeq ==
    ASSUME NEW S, NEW s \in Seq(S), NEW x \in S
    PROVE  /\ Append(s, x) \in Seq(S) /\ Len(Append(s, x)) = Len(s) + 1
           /\ Len(s) \in Nat /\ DOMAIN s = 1..Len(s)
           /\ DOMAIN Append(s, x) = 1..(Len(s) + 1)
           /\ \A i \in 1..Len(s) : Append(s, x)[i] = s[i]
           /\ Append(s, x)[Len(s) + 1] = x
  OBVIOUS

\* Likewise for Tail.
LEMMA TailSeq ==
    ASSUME NEW S, NEW s \in Seq(S), s # <<>>
    PROVE  /\ Tail(s) \in Seq(S) /\ Len(Tail(s)) = Len(s) - 1
           /\ Len(s) \in Nat \ {0} /\ DOMAIN s = 1..Len(s)
           /\ DOMAIN Tail(s) = 1..(Len(s) - 1)
           /\ \A i \in 1..(Len(s) - 1) : Tail(s)[i] = s[i + 1]
           /\ Head(s) = s[1] /\ s[1] \in S
  OBVIOUS

\* send binds a channel once.
LEMMA Binds ==
    ASSUME TypeOK, NEW c \in Channel, NEW d \in Delivery, BindOutbound(c, d)
    PROVE  /\ outbound' \in [Channel -> Delivery \cup {"none"}]
           /\ outbound[c] \in {d, "none"} /\ outbound'[c] = d
           /\ \A b \in Channel \ {c} : outbound'[b] = outbound[b]
  BY DEF TypeOK, BindOutbound

\* Nothing is known of a channel that is not bound, on either end.
LEMMA UnboundIsEmpty ==
    ASSUME TypeOK, Placed, NEW c \in Channel, outbound[c] = "none" PROVE InOrder(c)
<1>1. sent[c] = 0 /\ streams[c] = <<>> /\ log[c] = <<>>
  BY DEF Placed
<1>2. \A m \in running : m.channel # c
  BY Zenon DEF TypeOK, Message, Delivery, Placed
<1>3. \A i \in DOMAIN queue : queue[i].channel # c
  <2> SUFFICES ASSUME NEW i \in DOMAIN queue PROVE queue[i].channel # c
    OBVIOUS
  <2>1. queue[i] \in Message /\ outbound[queue[i].channel] = queue[i].delivery
    BY DEF TypeOK, Placed
  <2> QED
    BY <2>1 DEF Message, Delivery
<1>4. ReadOf(c) = 0 /\ Len(log[c]) = 0 /\ DOMAIN log[c] = {} /\ DOMAIN streams[c] = {}
  <2>1. Len(<<>>) = 0 /\ DOMAIN <<>> = {}
    OBVIOUS
  <2>2. /\ Len(log[c]) = 0 /\ DOMAIN log[c] = {}
        /\ Len(streams[c]) = 0 /\ DOMAIN streams[c] = {}
    BY <1>1, <2>1, Zenon
  <2>3. sent[c] = 0
    BY <1>1
  <2> QED
    BY <2>2, <2>3 DEF ReadOf
<1> QED
  BY <1>2, <1>3, <1>4 DEF InOrder

\* The queue keeps its messages of a channel where they are.
KeepsQueue(c) ==
    /\ \A i \in DOMAIN queue : queue[i].channel = c => i \in DOMAIN queue' /\ queue'[i] = queue[i]
    /\ \A i \in DOMAIN queue' : queue'[i].channel = c => i \in DOMAIN queue /\ queue'[i] = queue[i]

KeepsRunning(c) ==
    /\ \A m \in running : m.channel = c => m \in running'
    /\ \A m \in running' : m.channel = c => m \in running

\* deliverEvent and the reader of another channel leave it alone.
LEMMA OtherChannel ==
    ASSUME TypeOK, NEW c \in Channel, NEW m \in Message, m.channel # c,
           Queue(m) \/ Coalesce(m) \/ queue' = queue
    PROVE  KeepsQueue(c)
<1>1. queue \in Seq(Message)
  BY DEF TypeOK
<1>2. CASE queue' = queue
  BY <1>2 DEF KeepsQueue
<1>3. CASE Queue(m)
  <2>1. queue' = Append(queue, m)
    BY <1>3 DEF Queue
  <2> QED
    BY <1>1, <2>1, AppendSeq DEF KeepsQueue
<1>4. CASE Coalesce(m) /\ ~Queue(m)
  <2>1. /\ DOMAIN queue' = DOMAIN queue
        /\ \A i \in DOMAIN queue : queue'[i] = IF queue[i].delivery = "sequenced" /\ queue[i].channel = m.channel
                                                THEN m ELSE queue[i]
    BY <1>4 DEF Coalesce
  <2> QED
    BY <2>1 DEF KeepsQueue
<1> QED
  BY <1>2, <1>3, <1>4

\* A step that leaves the messages of a reliable channel where they are keeps
\* their order, and so does the end of the epoch.
LEMMA OrderKept ==
    ASSUME NEW c \in Channel, InOrder(c), ReadOf(c)' = ReadOf(c), log'[c] = log[c],
           \A i \in DOMAIN streams'[c] : streams'[c][i] = ReadOf(c)' + i,
           current' => current /\ KeepsQueue(c) /\ KeepsRunning(c)
    PROVE  InOrder(c)'
<1>1. CASE ~current'
  BY <1>1 DEF InOrder
<1>2. CASE current'
  <2>1. current /\ KeepsQueue(c) /\ KeepsRunning(c)
    BY <1>2
  <2>2. Len(log'[c]) <= ReadOf(c)' /\ \A i \in DOMAIN log'[c] : log'[c][i] = i
    BY <2>1 DEF InOrder
  <2>3. \A m \in running' : m.channel = c => m.n = Len(log'[c]) + 1 /\ m.n <= ReadOf(c)'
    BY <2>1 DEF InOrder, KeepsRunning
  <2>4. ASSUME NEW i \in DOMAIN queue', queue'[i].channel = c
        PROVE  /\ Len(log'[c]) < queue'[i].n /\ queue'[i].n <= ReadOf(c)'
               /\ \A m \in running' : m.channel = c => m.n < queue'[i].n
               /\ \A j \in DOMAIN queue' : queue'[j].channel = c /\ i < j => queue'[i].n < queue'[j].n
    <3>1. i \in DOMAIN queue /\ queue'[i] = queue[i] /\ queue[i].channel = c
      BY <2>1, <2>4 DEF KeepsQueue
    <3>2. /\ Len(log[c]) < queue[i].n /\ queue[i].n <= ReadOf(c)
          /\ \A m \in running : m.channel = c => m.n < queue[i].n
          /\ \A j \in DOMAIN queue : queue[j].channel = c /\ i < j => queue[i].n < queue[j].n
      BY <2>1, <3>1 DEF InOrder
    <3>3. \A m \in running' : m.channel = c => m.n < queue'[i].n
      BY <2>1, <3>1, <3>2 DEF KeepsRunning
    <3>4. \A j \in DOMAIN queue' : queue'[j].channel = c /\ i < j => queue'[i].n < queue'[j].n
      BY <2>1, <3>1, <3>2 DEF KeepsQueue
    <3> QED
      BY <3>1, <3>2, <3>3, <3>4
  <2>5. ASSUME NEW k \in (Len(log'[c]) + 1)..ReadOf(c)'
        PROVE  \/ \E m \in running' : m.channel = c /\ m.n = k
               \/ \E i \in DOMAIN queue' : queue'[i].channel = c /\ queue'[i].n = k
    <3>1. \/ \E m \in running : m.channel = c /\ m.n = k
          \/ \E i \in DOMAIN queue : queue[i].channel = c /\ queue[i].n = k
      BY <2>1 DEF InOrder
    <3> QED
      BY <2>1, <3>1 DEF KeepsQueue, KeepsRunning
  <2> QED
    BY <2>2, <2>3, <2>4, <2>5 DEF InOrder
<1> QED
  BY <1>1, <1>2

\* The reader of a reliable channel queues the next message of its stream.
LEMMA ReadKeepsOrder ==
    ASSUME TypeOK, NEW c \in Channel, InOrder(c), ReadReliable(c) PROVE InOrder(c)'
<1> DEFINE m == [channel |-> c, delivery |-> "reliable", n |-> Head(streams[c])]
<1>1. UNCHANGED <<sent, running, log>> /\ streams[c] # <<>>
      /\ streams' = [streams EXCEPT ![c] = Tail(streams[c])]
      /\ ((Queue(m) /\ current' = current) \/ ~current')
  BY DEF ReadReliable, CloseFor, sender
<1>2. /\ streams \in [Channel -> Seq(1..MaxSent)] /\ queue \in Seq(Message)
      /\ sent[c] \in Nat /\ log[c] \in Seq(1..MaxSent) /\ running \subseteq Message
  BY DEF TypeOK
<1>3. streams[c] \in Seq(1..MaxSent) /\ streams'[c] = Tail(streams[c])
  BY <1>1, <1>2
<1>4. /\ Len(streams[c]) \in Nat \ {0} /\ DOMAIN streams[c] = 1..Len(streams[c])
      /\ Len(streams'[c]) = Len(streams[c]) - 1 /\ DOMAIN streams'[c] = 1..(Len(streams[c]) - 1)
      /\ \A i \in 1..(Len(streams[c]) - 1) : streams'[c][i] = streams[c][i + 1]
      /\ Head(streams[c]) = streams[c][1]
  BY <1>1, <1>3, TailSeq, Zenon
<1>5. ReadOf(c) \in Int /\ ReadOf(c)' = ReadOf(c) + 1
  BY <1>1, <1>2, <1>4 DEF ReadOf
<1>6. /\ \A i \in DOMAIN streams'[c] : streams'[c][i] = ReadOf(c)' + i
      /\ Head(streams[c]) = ReadOf(c) + 1
  <2>1. \A i \in 1..Len(streams[c]) : streams[c][i] = ReadOf(c) + i
    BY <1>4 DEF InOrder
  <2>2. ASSUME NEW i \in DOMAIN streams'[c] PROVE streams'[c][i] = ReadOf(c)' + i
    <3>1. i + 1 \in 1..Len(streams[c]) /\ streams'[c][i] = streams[c][i + 1]
      BY <1>4
    <3>2. streams[c][i + 1] = ReadOf(c) + (i + 1)
      BY <2>1, <3>1
    <3> QED
      BY <1>4, <1>5, <3>1, <3>2
  <2>3. 1 \in 1..Len(streams[c])
    BY <1>4
  <2> QED
    BY <1>4, <2>1, <2>2, <2>3
<1>7. \A i \in DOMAIN log'[c] : log'[c][i] = i
  BY <1>1 DEF InOrder
<1>8. CASE ~current'
  BY <1>6, <1>7, <1>8 DEF InOrder
<1>9. CASE current'
  <2>1. current /\ m.channel = c /\ m.n = ReadOf(c) + 1 /\ queue' = Append(queue, m) /\ m \in Message
    <3>1. current /\ queue' = Append(queue, m)
      BY <1>1, <1>9, Zenon DEF Queue
    <3>2. Head(streams[c]) \in 1..MaxSent
      BY <1>1, <1>3, TailSeq, Zenon
    <3>3. m \in Message
      BY <3>2 DEF Message, Delivery
    <3> QED
      BY <1>6, <3>1, <3>3
  <2> HIDE DEF m
  <2>2. /\ Len(queue) \in Nat /\ DOMAIN queue = 1..Len(queue) /\ DOMAIN queue' = 1..(Len(queue) + 1)
        /\ \A i \in 1..Len(queue) : queue'[i] = queue[i]
        /\ queue'[Len(queue) + 1] = m
    BY <1>2, <2>1, AppendSeq
  <2>3. Len(log[c]) \in Nat /\ log'[c] = log[c] /\ running' = running
    BY <1>1, <1>2
  <2>4. /\ Len(log[c]) <= ReadOf(c)
        /\ \A k \in running : k.channel = c => k.n = Len(log[c]) + 1 /\ k.n <= ReadOf(c)
    BY <2>1 DEF InOrder
  <2>5. ASSUME NEW i \in DOMAIN queue', queue'[i].channel = c
        PROVE  /\ Len(log'[c]) < queue'[i].n /\ queue'[i].n <= ReadOf(c)'
               /\ \A k \in running' : k.channel = c => k.n < queue'[i].n
               /\ \A j \in DOMAIN queue' : queue'[j].channel = c /\ i < j => queue'[i].n < queue'[j].n
    <3>1. CASE i = Len(queue) + 1
      <4>1. queue'[i].n = ReadOf(c) + 1 /\ \A j \in DOMAIN queue' : ~(i < j)
        BY <2>1, <2>2, <3>1
      <4> QED
        BY <1>5, <2>3, <2>4, <4>1
    <3>2. CASE i # Len(queue) + 1
      <4>1. i \in DOMAIN queue /\ queue'[i] = queue[i]
        BY <2>2, <3>2
      <4>2. /\ Len(log[c]) < queue[i].n /\ queue[i].n <= ReadOf(c)
            /\ \A k \in running : k.channel = c => k.n < queue[i].n
            /\ \A j \in DOMAIN queue : queue[j].channel = c /\ i < j => queue[i].n < queue[j].n
        BY <2>1, <2>5, <4>1 DEF InOrder
      <4>3. queue[i].n \in Int
        <5>1. queue[i] \in Message
          BY <1>2, <4>1
        <5> QED
          BY <5>1 DEF Message
      <4>4. \A j \in DOMAIN queue' : queue'[j].channel = c /\ i < j => queue'[i].n < queue'[j].n
        BY <1>5, <2>1, <2>2, <4>1, <4>2, <4>3
      <4> QED
        BY <1>5, <2>3, <4>1, <4>2, <4>3, <4>4
    <3> QED
      BY <3>1, <3>2
  <2>6. ASSUME NEW k \in (Len(log'[c]) + 1)..ReadOf(c)'
        PROVE  \/ \E r \in running' : r.channel = c /\ r.n = k
               \/ \E i \in DOMAIN queue' : queue'[i].channel = c /\ queue'[i].n = k
    <3>1. CASE k = ReadOf(c) + 1
      BY <2>1, <2>2, <3>1
    <3>2. CASE k # ReadOf(c) + 1
      <4>1. k \in (Len(log[c]) + 1)..ReadOf(c)
        BY <1>5, <2>3, <3>2
      <4>2. \/ \E r \in running : r.channel = c /\ r.n = k
            \/ \E i \in DOMAIN queue : queue[i].channel = c /\ queue[i].n = k
        BY <2>1, <4>1 DEF InOrder
      <4> QED
        BY <2>2, <2>3, <4>2
    <3> QED
      BY <3>1, <3>2
  <2>7. /\ Len(log'[c]) <= ReadOf(c)'
        /\ \A r \in running' : r.channel = c => r.n = Len(log'[c]) + 1 /\ r.n <= ReadOf(c)'
    <3>1. \A r \in running : r.n \in Int
      BY <1>2 DEF Message
    <3> QED
      BY <1>5, <2>3, <2>4, <3>1
  <2> QED
    BY <1>6, <1>7, <2>5, <2>6, <2>7 DEF InOrder
<1> QED
  BY <1>8, <1>9

\* A worker's callback takes the message that is next.
LEMMA InvokeKeepsOrder ==
    ASSUME TypeOK, Placed, NEW c \in Channel, InOrder(c), NEW m \in running, Invoke(m)
    PROVE  InOrder(c)'
<1>1. UNCHANGED <<sent, streams, queue, current>> /\ running' = {} /\ running = {m}
      /\ log' = IF current THEN [log EXCEPT ![m.channel] = Append(log[m.channel], m.n)] ELSE log
  BY DEF Invoke, sender, net, Placed
<1>2. /\ m \in Message /\ log \in [Channel -> Seq(1..MaxSent)] /\ queue \in Seq(Message)
      /\ m.channel \in Channel /\ m.n \in 1..MaxSent
  BY DEF TypeOK, Message
<1>3. ReadOf(c)' = ReadOf(c)
  BY <1>1 DEF ReadOf
<1>4. \A i \in DOMAIN streams'[c] : streams'[c][i] = ReadOf(c)' + i
  BY <1>1, <1>3 DEF InOrder
<1>5. CASE ~current
  BY <1>1, <1>3, <1>4, <1>5, OrderKept
<1>6. CASE current /\ m.channel # c
  <2>1. log'[c] = log[c]
    BY <1>1, <1>2, <1>6
  <2>2. KeepsQueue(c) /\ KeepsRunning(c)
    BY <1>1, <1>6 DEF KeepsQueue, KeepsRunning
  <2> QED
    BY <1>1, <1>3, <1>4, <2>1, <2>2, OrderKept
<1>7. CASE current /\ m.channel = c
  <2>1. log[c] \in Seq(1..MaxSent) /\ log'[c] = Append(log[c], m.n)
    BY <1>1, <1>2, <1>7
  <2>2. /\ Len(log[c]) \in Nat /\ DOMAIN log[c] = 1..Len(log[c])
        /\ Len(log'[c]) = Len(log[c]) + 1 /\ DOMAIN log'[c] = 1..(Len(log[c]) + 1)
        /\ \A i \in 1..Len(log[c]) : log'[c][i] = log[c][i]
        /\ log'[c][Len(log[c]) + 1] = m.n
    BY <1>2, <2>1, AppendSeq
  <2>3. m.n = Len(log[c]) + 1 /\ m.n <= ReadOf(c)
    BY <1>7 DEF InOrder
  <2>4. \A i \in DOMAIN log'[c] : log'[c][i] = i
    BY <2>2, <2>3 DEF InOrder
  <2>5. ASSUME NEW i \in DOMAIN queue', queue'[i].channel = c
        PROVE  /\ Len(log'[c]) < queue'[i].n /\ queue'[i].n <= ReadOf(c)'
               /\ \A j \in DOMAIN queue' : queue'[j].channel = c /\ i < j => queue'[i].n < queue'[j].n
    <3>1. i \in DOMAIN queue /\ queue[i].channel = c
      BY <1>1, <2>5
    <3>2. /\ queue[i].n <= ReadOf(c) /\ m.n < queue[i].n
          /\ \A j \in DOMAIN queue : queue[j].channel = c /\ i < j => queue[i].n < queue[j].n
      BY <1>7, <3>1 DEF InOrder
    <3> QED
      BY <1>1, <1>3, <2>2, <2>3, <3>2
  <2>6. ASSUME NEW k \in (Len(log'[c]) + 1)..ReadOf(c)'
        PROVE  \E i \in DOMAIN queue' : queue'[i].channel = c /\ queue'[i].n = k
    <3>1. k \in (Len(log[c]) + 1)..ReadOf(c) /\ k # m.n
      BY <1>3, <2>2, <2>3
    <3>2. \/ \E r \in running : r.channel = c /\ r.n = k
          \/ \E i \in DOMAIN queue : queue[i].channel = c /\ queue[i].n = k
      BY <1>7, <3>1 DEF InOrder
    <3> QED
      BY <1>1, <3>1, <3>2
  <2>7. Len(log'[c]) <= ReadOf(c)'
    BY <1>3, <2>2, <2>3
  <2> QED
    BY <1>1, <1>4, <2>4, <2>5, <2>6, <2>7 DEF InOrder
<1> QED
  BY <1>5, <1>6, <1>7

\* A worker takes the head of the queue: of its channel, nothing comes before it.
LEMMA TakeKeepsOrder ==
    ASSUME TypeOK, NEW c \in Channel, InOrder(c), TakeEnvelope PROVE InOrder(c)'
<1>1. UNCHANGED <<sent, streams, log, current>> /\ running = {} /\ queue # <<>>
      /\ running' = {Head(queue)} /\ queue' = Tail(queue)
  BY DEF TakeEnvelope, sender, net
<1>2. queue \in Seq(Message) /\ log[c] \in Seq(1..MaxSent)
  BY DEF TypeOK
<1>3. /\ Len(queue) \in Nat \ {0} /\ DOMAIN queue = 1..Len(queue)
      /\ DOMAIN queue' = 1..(Len(queue) - 1)
      /\ \A i \in 1..(Len(queue) - 1) : queue'[i] = queue[i + 1]
      /\ Head(queue) = queue[1] /\ queue[1] \in Message
  BY <1>1, <1>2, TailSeq
<1>4. ReadOf(c)' = ReadOf(c) /\ Len(log[c]) \in Nat
  BY <1>1, <1>2 DEF ReadOf
<1>5. /\ \A i \in DOMAIN streams'[c] : streams'[c][i] = ReadOf(c)' + i
      /\ \A i \in DOMAIN log'[c] : log'[c][i] = i
  BY <1>1, <1>4 DEF InOrder
<1>6. CASE ~current
  BY <1>1, <1>5, <1>6 DEF InOrder
<1>7. CASE current
  <2>1. ASSUME NEW i \in DOMAIN queue, queue[i].channel = c
        PROVE  /\ Len(log[c]) < queue[i].n /\ queue[i].n <= ReadOf(c) /\ queue[i].n \in Int
               /\ \A j \in DOMAIN queue : queue[j].channel = c /\ i < j => queue[i].n < queue[j].n
    <3>1. queue[i] \in Message
      BY <1>2, <2>1
    <3> QED
      BY <1>7, <2>1, <3>1 DEF InOrder, Message
  <2>2. Len(log'[c]) <= ReadOf(c)'
    BY <1>1, <1>4, <1>7 DEF InOrder
  <2>3. ASSUME NEW k \in (Len(log[c]) + 1)..ReadOf(c)
        PROVE  \E i \in DOMAIN queue : queue[i].channel = c /\ queue[i].n = k
    BY <1>1, <1>7 DEF InOrder
  <2>4. 1 \in DOMAIN queue
    BY <1>3
  \* the head is the next number: were a smaller one queued behind it, the
  \* numbers would not increase
  <2>5. queue[1].channel = c => queue[1].n = Len(log[c]) + 1
    <3> SUFFICES ASSUME queue[1].channel = c PROVE queue[1].n = Len(log[c]) + 1
      OBVIOUS
    <3>1. Len(log[c]) < queue[1].n /\ queue[1].n <= ReadOf(c) /\ queue[1].n \in Int
      BY <2>1, <2>4
    <3>2. Len(log[c]) + 1 \in (Len(log[c]) + 1)..ReadOf(c)
      BY <1>4, <3>1 DEF ReadOf, TypeOK
    <3>3. PICK i \in DOMAIN queue : queue[i].channel = c /\ queue[i].n = Len(log[c]) + 1
      BY <2>3, <3>2
    <3>4. i = 1 \/ 1 < i
      BY <1>3
    <3>5. 1 < i => queue[1].n < queue[i].n
      BY <2>1, <2>4, <3>3
    <3> QED
      BY <1>4, <3>1, <3>3, <3>4, <3>5
  <2>6. \A m \in running' : m.channel = c => m.n = Len(log'[c]) + 1 /\ m.n <= ReadOf(c)'
    BY <1>1, <1>3, <1>4, <2>1, <2>4, <2>5
  <2>7. ASSUME NEW i \in DOMAIN queue', queue'[i].channel = c
        PROVE  /\ Len(log'[c]) < queue'[i].n /\ queue'[i].n <= ReadOf(c)'
               /\ \A m \in running' : m.channel = c => m.n < queue'[i].n
               /\ \A j \in DOMAIN queue' : queue'[j].channel = c /\ i < j => queue'[i].n < queue'[j].n
    <3>1. i + 1 \in DOMAIN queue /\ queue'[i] = queue[i + 1] /\ i \in Nat /\ 1 < i + 1
      BY <1>3
    <3>2. queue[i + 1].channel = c
      BY <2>7, <3>1
    <3>3. Len(log[c]) < queue[i + 1].n /\ queue[i + 1].n <= ReadOf(c)
      BY <2>1, <3>1, <3>2
    <3>4. queue[1].channel = c => queue[1].n < queue[i + 1].n
      BY <2>1, <2>4, <3>1, <3>2
    <3>5. ASSUME NEW j \in DOMAIN queue', queue'[j].channel = c, i < j
          PROVE  queue'[i].n < queue'[j].n
      <4>1. j + 1 \in DOMAIN queue /\ queue'[j] = queue[j + 1] /\ i + 1 < j + 1
        BY <1>3, <3>5
      <4> QED
        BY <2>1, <3>1, <3>2, <3>5, <4>1
    <3> QED
      BY <1>1, <1>3, <1>4, <3>1, <3>3, <3>4, <3>5
  <2>8. ASSUME NEW k \in (Len(log'[c]) + 1)..ReadOf(c)'
        PROVE  \/ \E m \in running' : m.channel = c /\ m.n = k
               \/ \E i \in DOMAIN queue' : queue'[i].channel = c /\ queue'[i].n = k
    <3>1. PICK i \in DOMAIN queue : queue[i].channel = c /\ queue[i].n = k
      BY <1>1, <1>4, <2>3
    <3>2. CASE i = 1
      BY <1>1, <1>3, <3>1, <3>2
    <3>3. CASE i # 1
      <4>1. i - 1 \in DOMAIN queue' /\ queue'[i - 1] = queue[i]
        BY <1>3, <3>3
      <4> QED
        BY <3>1, <4>1
    <3> QED
      BY <3>2, <3>3
  <2> QED
    BY <1>5, <2>2, <2>6, <2>7, <2>8 DEF InOrder
<1> QED
  BY <1>6, <1>7

\* Every step keeps the order of every reliable channel.
LEMMA OrderStep ==
    ASSUME ChannelsAssumption, ChannelsInv, [Next]_vars, NEW c \in Channel, outbound'[c] = "reliable"
    PROVE  InOrder(c)'
<1> TypeOK /\ Agreed /\ Placed
  BY DEF ChannelsInv
<1>1. outbound[c] \in {"none", "reliable"} => InOrder(c)
  BY UnboundIsEmpty DEF ChannelsInv
<1>2. ASSUME NEW b \in Channel, NEW d \in Delivery, BindOutbound(b, d)
      PROVE  InOrder(c) /\ (b = c => d = "reliable")
  <2>1. /\ outbound[b] \in {d, "none"} /\ outbound'[b] = d
        /\ \A e \in Channel \ {b} : outbound'[e] = outbound[e]
    BY <1>2, Binds
  <2> QED
    BY <1>1, <2>1
<1>3. ASSUME NEW b \in Channel, SendReliable(b) PROVE InOrder(c)'
  <2>1. UNCHANGED <<queue, running, log, current>> /\ BindOutbound(b, "reliable")
    BY <1>3 DEF SendReliable, receiver
  <2>2. InOrder(c)
    BY <1>2, <2>1 DEF Delivery
  <2>3. KeepsQueue(c) /\ KeepsRunning(c)
    BY <2>1 DEF KeepsQueue, KeepsRunning
  <2>4. streams[c] \in Seq(1..MaxSent) /\ sent[c] \in Nat
    BY DEF TypeOK
  <2>5. ReadOf(c) \in Int /\ \A i \in DOMAIN streams[c] : streams[c][i] = ReadOf(c) + i
    BY <2>2, <2>4 DEF InOrder, ReadOf
  <2>6. CASE sent'[c] = sent[c] /\ streams'[c] = streams[c]
    <3>1. ReadOf(c)' = ReadOf(c)
      BY <2>6 DEF ReadOf
    <3> QED
      BY <2>1, <2>2, <2>3, <2>5, <2>6, <3>1, OrderKept
  <2>7. CASE ~(sent'[c] = sent[c] /\ streams'[c] = streams[c])
    <3>1. sent'[c] = sent[c] + 1 /\ streams'[c] = Append(streams[c], sent[c] + 1) /\ sent[c] + 1 \in 1..MaxSent
      <4>1. /\ sent[b] < MaxSent /\ sent' = [sent EXCEPT ![b] = sent[b] + 1]
            /\ streams' = [streams EXCEPT ![b] = Append(streams[b], sent'[b])]
        BY <1>3, <2>7 DEF SendReliable
      <4>2. sent \in [Channel -> 0..MaxSent] /\ streams \in [Channel -> Seq(1..MaxSent)] /\ MaxSent \in Nat
        BY DEF TypeOK, ChannelsAssumption
      <4>3. b = c
        BY <2>7, <4>1, <4>2
      <4>4. sent'[c] = sent[c] + 1 /\ sent[c] + 1 \in 1..MaxSent
        BY <4>1, <4>2, <4>3
      <4> QED
        BY <4>1, <4>2, <4>3, <4>4
    <3>2. /\ Len(streams[c]) \in Nat /\ DOMAIN streams[c] = 1..Len(streams[c])
          /\ Len(streams'[c]) = Len(streams[c]) + 1 /\ DOMAIN streams'[c] = 1..(Len(streams[c]) + 1)
          /\ \A i \in 1..Len(streams[c]) : streams'[c][i] = streams[c][i]
          /\ streams'[c][Len(streams[c]) + 1] = sent[c] + 1
      BY <2>4, <3>1, AppendSeq
    <3>3. ReadOf(c)' = ReadOf(c) /\ ReadOf(c) = sent[c] - Len(streams[c])
      BY <2>4, <3>1, <3>2 DEF ReadOf
    <3>4. \A i \in DOMAIN streams'[c] : streams'[c][i] = ReadOf(c)' + i
      <4> SUFFICES ASSUME NEW i \in DOMAIN streams'[c] PROVE streams'[c][i] = ReadOf(c) + i
        BY <3>3
      <4>1. CASE i \in 1..Len(streams[c])
        BY <2>5, <3>2, <4>1, Zenon
      <4>2. CASE i = Len(streams[c]) + 1
        BY <2>4, <3>2, <3>3, <4>2
      <4> QED
        BY <3>2, <4>1, <4>2
    <3> QED
      BY <2>1, <2>2, <2>3, <3>3, <3>4, OrderKept
  <2> QED
    BY <2>6, <2>7
<1>4. ASSUME sent'[c] = sent[c], streams'[c] = streams[c], log'[c] = log[c], InOrder(c),
             current' => current /\ KeepsQueue(c) /\ KeepsRunning(c)
      PROVE  InOrder(c)'
  <2>1. ReadOf(c)' = ReadOf(c)
    BY <1>4 DEF ReadOf
  <2>2. \A i \in DOMAIN streams'[c] : streams'[c][i] = ReadOf(c)' + i
    BY <1>4, <2>1 DEF InOrder
  <2> QED
    BY <1>4, <2>1, <2>2, OrderKept
<1>5. ASSUME NEW b \in Channel, NEW d \in Delivery, SendDatagram(b, d) PROVE InOrder(c)'
  <2>1. UNCHANGED <<streams, queue, running, log, current>> /\ BindOutbound(b, d) /\ d # "reliable"
        /\ sent' = [sent EXCEPT ![b] = sent[b] + 1]
    BY <1>5 DEF SendDatagram, receiver
  <2>2. InOrder(c) /\ b # c
    BY <1>2, <2>1
  <2>3. sent'[c] = sent[c]
    BY <2>1, <2>2 DEF TypeOK
  <2>4. KeepsQueue(c) /\ KeepsRunning(c)
    BY <2>1 DEF KeepsQueue, KeepsRunning
  <2> QED
    BY <1>4, <2>1, <2>2, <2>3, <2>4
<1>6. CASE outbound' = outbound
  <2> InOrder(c) /\ outbound[c] = "reliable"
    BY <1>1, <1>6
  <2>1. ASSUME NEW m \in datagrams, ReceiveDatagram(m) PROVE InOrder(c)'
    <3>1. UNCHANGED <<sent, streams, running, log>> /\ (Queue(m) \/ Coalesce(m) \/ queue' = queue)
          /\ (current' => current)
      BY <2>1 DEF ReceiveDatagram, DeliverEvent, CloseFor, sender
    <3>2. m \in Message /\ m.channel # c
      BY Zenon DEF TypeOK, Agreed
    <3>3. KeepsQueue(c) /\ KeepsRunning(c)
      BY <3>1, <3>2, OtherChannel DEF KeepsRunning
    <3> QED
      BY <1>4, <3>1, <3>3
  <2>2. ASSUME NEW b \in Channel, ReadReliable(b), b # c PROVE InOrder(c)'
    <3> DEFINE m == [channel |-> b, delivery |-> "reliable", n |-> Head(streams[b])]
    <3>1. UNCHANGED <<sent, running, log>> /\ (Queue(m) \/ queue' = queue) /\ streams[b] # <<>>
          /\ streams' = [streams EXCEPT ![b] = Tail(streams[b])] /\ (current' => current)
      BY <2>2 DEF ReadReliable, CloseFor, sender
    <3>2. streams'[c] = streams[c]
      BY <2>2, <3>1 DEF TypeOK
    <3>3. m \in Message /\ m.channel # c
      <4>1. streams[b] \in Seq(1..MaxSent) /\ streams[b] # <<>>
        BY <3>1 DEF TypeOK
      <4>2. Head(streams[b]) \in 1..MaxSent
        BY <4>1, TailSeq, Zenon
      <4> QED
        BY <2>2, <4>2 DEF Message, Delivery
    <3> HIDE DEF m
    <3>4. KeepsQueue(c) /\ KeepsRunning(c)
      BY <3>1, <3>3, OtherChannel DEF KeepsRunning
    <3> QED
      BY <1>4, <3>1, <3>2, <3>4
  <2>3. CASE EndEpoch \/ StopEpoch
    <3>1. UNCHANGED <<sent, streams, log>> /\ ~current'
      BY <2>3 DEF EndEpoch, CloseFor, StopEpoch, sender, net
    <3> QED
      BY <1>4, <3>1
  <2>4. CASE UNCHANGED vars \/ (\E b \in Channel : AcceptStream(b)) \/ \E m \in datagrams : Lose(m)
    <3>1. UNCHANGED <<sent, streams, queue, running, log>> /\ (current' => current)
      BY <2>4 DEF AcceptStream, CloseFor, Lose, vars, sender, net, receiver
    <3>2. KeepsQueue(c) /\ KeepsRunning(c)
      BY <3>1 DEF KeepsQueue, KeepsRunning
    <3> QED
      BY <1>4, <3>1, <3>2
  <2>5. CASE (\E b \in Channel : SendReliable(b)) \/ \E b \in Channel, d \in Delivery : SendDatagram(b, d)
    BY <1>3, <1>5, <2>5
  <2> QED
    BY <2>1, <2>2, <2>3, <2>4, <2>5, ReadKeepsOrder, InvokeKeepsOrder, TakeKeepsOrder DEF Next
<1>7. CASE outbound' # outbound
  <2>1. (\E b \in Channel : SendReliable(b)) \/ \E b \in Channel, d \in Delivery : SendDatagram(b, d)
    BY <1>7, Zenon DEF Next, AcceptStream, ReadReliable, Lose, ReceiveDatagram, Invoke, TakeEnvelope,
                EndEpoch, StopEpoch, vars, sender
  <2> QED
    BY <1>3, <1>5, <2>1
<1> QED
  BY <1>6, <1>7

\* A coalesced update stands where the one before it stood, or at the end.
LEMMA CoalesceTyped ==
    ASSUME ChannelsAssumption, TypeOK, NEW m \in Message, Queue(m) \/ Coalesce(m)
    PROVE  queue' \in Seq(Message) /\ Len(queue') <= QueueMessages
<1> queue \in Seq(Message) /\ Len(queue) <= QueueMessages /\ QueueMessages \in Nat
  BY DEF ChannelsAssumption, TypeOK
<1>1. CASE Queue(m)
  <2>1. Len(queue) < QueueMessages /\ queue' = Append(queue, m)
    BY <1>1 DEF Queue
  <2> QED
    BY <2>1, AppendSeq
<1>2. CASE ~Queue(m)
  <2> DEFINE same == {i \in DOMAIN queue : queue[i].delivery = "sequenced" /\ queue[i].channel = m.channel}
  <2>1. queue' = [i \in DOMAIN queue |-> IF i \in same THEN m ELSE queue[i]]
    BY <1>2 DEF Coalesce
  <2> HIDE DEF same
  <2>2. \A i \in 1..Len(queue) : queue[i] \in Message
    OBVIOUS
  <2>3. DOMAIN queue' = 1..Len(queue) /\ \A i \in 1..Len(queue) : queue'[i] \in Message
    BY <2>1, <2>2
  <2>4. queue' = [i \in 1..Len(queue) |-> queue'[i]]
    BY <2>1
  <2> QED
    BY <2>3, <2>4
<1> QED
  BY <1>1, <1>2

\* Every step keeps the types.
LEMMA ChannelsTypeStep ==
    ASSUME ChannelsAssumption, TypeOK, Agreed, [Next]_vars PROVE TypeOK'
<1>1. ASSUME NEW c \in Channel, SendReliable(c) PROVE TypeOK'
  <2>1. UNCHANGED <<datagrams, inbound, reading, received, queue, running, log, current, closedFor>>
        /\ sent[c] < MaxSent /\ BindOutbound(c, "reliable")
    BY <1>1, Zenon DEF SendReliable, receiver
  <2>2. outbound' \in [Channel -> Delivery \cup {"none"}]
    BY <2>1, Binds DEF Delivery
  <2>3. sent[c] + 1 \in 1..MaxSent
    BY <2>1 DEF TypeOK, ChannelsAssumption
  <2>4. /\ reliable' \subseteq Channel /\ sent' \in [Channel -> 0..MaxSent]
        /\ streams' \in [Channel -> Seq(1..MaxSent)]
    <3>1. CASE UNCHANGED <<reliable, sent, streams>>
      BY <3>1 DEF TypeOK
    <3>2. CASE ~UNCHANGED <<reliable, sent, streams>>
      <4>1. /\ reliable' = reliable \cup {c} /\ sent' = [sent EXCEPT ![c] = sent[c] + 1]
            /\ streams' = [streams EXCEPT ![c] = Append(streams[c], sent'[c])]
        BY <1>1, <3>2, Zenon DEF SendReliable
      <4>2. sent' \in [Channel -> 0..MaxSent] /\ sent'[c] = sent[c] + 1
        BY <2>3, <4>1 DEF TypeOK
      <4>3. Append(streams[c], sent'[c]) \in Seq(1..MaxSent)
        BY <2>3, <4>2, AppendSeq DEF TypeOK
      <4> QED
        BY <4>1, <4>2, <4>3 DEF TypeOK
    <3> QED
      BY <3>1, <3>2
  <2> QED
    BY <2>1, <2>2, <2>4, Zenon DEF TypeOK
<1>2. ASSUME NEW c \in Channel, NEW d \in Delivery, SendDatagram(c, d) PROVE TypeOK'
  <2>1. UNCHANGED <<reliable, streams, inbound, reading, received, queue, running, log, current, closedFor>>
        /\ sent[c] < MaxSent /\ BindOutbound(c, d) /\ sent' = [sent EXCEPT ![c] = sent[c] + 1]
        /\ (datagrams' = datagrams \/ datagrams' = datagrams \cup {[channel |-> c, delivery |-> d, n |-> sent'[c]]})
    BY <1>2, Zenon DEF SendDatagram, receiver
  <2>2. outbound' \in [Channel -> Delivery \cup {"none"}]
    BY <2>1, Binds
  <2>3. sent[c] + 1 \in 1..MaxSent
    BY <2>1 DEF TypeOK, ChannelsAssumption
  <2>4. sent' \in [Channel -> 0..MaxSent] /\ sent'[c] = sent[c] + 1
    BY <2>1, <2>3 DEF TypeOK
  <2>5. datagrams' \subseteq Message
    BY <2>1, <2>3, <2>4 DEF TypeOK, Message
  <2> QED
    BY <2>1, <2>2, <2>4, <2>5, Zenon DEF TypeOK
<1>3. ASSUME NEW m \in datagrams, ReceiveDatagram(m) PROVE TypeOK'
  <2>1. UNCHANGED <<outbound, reliable, sent, streams, reading, running, log>>
        /\ datagrams' = datagrams \ {m} /\ m \in Message
    BY <1>3, Zenon DEF ReceiveDatagram, sender, TypeOK
  <2>2. /\ inbound' = inbound \/ inbound' = [inbound EXCEPT ![m.channel] = m.delivery]
        /\ received' = received \/ received' = [received EXCEPT ![m.channel] = m.n]
        /\ queue' = queue \/ Queue(m) \/ Coalesce(m)
    BY <1>3, Zenon DEF ReceiveDatagram, DeliverEvent
  <2>3. /\ current' \in BOOLEAN
        /\ closedFor' \in {"nothing", "violation", "slow", "other"}
    BY <1>3, Zenon DEF ReceiveDatagram, CloseFor, TypeOK
  <2>4. inbound' \in [Channel -> Delivery \cup {"none"}] /\ received' \in [Channel -> 0..MaxSent]
    <3>1. m.channel \in Channel /\ m.delivery \in Delivery /\ m.n \in 0..MaxSent
      BY <2>1 DEF Message
    <3>2. inbound \in [Channel -> Delivery \cup {"none"}] /\ received \in [Channel -> 0..MaxSent]
      BY DEF TypeOK
    <3> QED
      BY <2>2, <3>1, <3>2
  <2>5. queue' \in Seq(Message) /\ Len(queue') <= QueueMessages
    BY <2>1, <2>2, CoalesceTyped DEF TypeOK
  <2> QED
    BY <2>1, <2>3, <2>4, <2>5, Zenon DEF TypeOK
<1>4. ASSUME NEW c \in Channel, ReadReliable(c) PROVE TypeOK'
  <2>1. UNCHANGED <<outbound, reliable, sent, datagrams, inbound, received, running, log>>
        /\ streams[c] # <<>> /\ streams' = [streams EXCEPT ![c] = Tail(streams[c])]
        /\ (reading' = reading \/ reading' = reading \ {c})
        /\ (queue' = queue \/ Queue([channel |-> c, delivery |-> "reliable", n |-> Head(streams[c])]))
    BY <1>4, Zenon DEF ReadReliable, sender
  <2>2. /\ current' \in BOOLEAN
        /\ closedFor' \in {"nothing", "violation", "slow", "other"}
    BY <1>4, Zenon DEF ReadReliable, CloseFor, TypeOK
  <2>3. Tail(streams[c]) \in Seq(1..MaxSent) /\ Head(streams[c]) \in 1..MaxSent
    <3>1. streams[c] \in Seq(1..MaxSent) /\ streams[c] # <<>>
      BY <2>1 DEF TypeOK
    <3> QED
      BY <3>1, TailSeq, Zenon
  <2>4. streams' \in [Channel -> Seq(1..MaxSent)] /\ reading' \subseteq Channel
    BY <2>1, <2>3 DEF TypeOK
  <2>5. [channel |-> c, delivery |-> "reliable", n |-> Head(streams[c])] \in Message
    BY <2>3 DEF Message, Delivery
  <2>6. queue' \in Seq(Message) /\ Len(queue') <= QueueMessages
    BY <2>1, <2>5, CoalesceTyped DEF TypeOK
  <2> QED
    BY <2>1, <2>2, <2>4, <2>6, Zenon DEF TypeOK
<1>5. ASSUME NEW m \in running, Invoke(m) PROVE TypeOK'
  <2>1. UNCHANGED <<outbound, reliable, sent, streams, datagrams, inbound, reading, received, queue, current, closedFor>>
        /\ running' = {} /\ m \in Message
        /\ (log' = log \/ log' = [log EXCEPT ![m.channel] = Append(log[m.channel], m.n)])
    BY <1>5, Zenon DEF Invoke, sender, net, TypeOK
  <2>2. Append(log[m.channel], m.n) \in Seq(1..MaxSent)
    BY <2>1, AppendSeq DEF Message, TypeOK
  <2>3. log' \in [Channel -> Seq(1..MaxSent)]
    BY <2>1, <2>2, Zenon DEF TypeOK
  <2> QED
    BY <2>1, <2>3, Zenon DEF TypeOK
<1>6. CASE TakeEnvelope
  <2>1. UNCHANGED <<outbound, reliable, sent, streams, datagrams, inbound, reading, received, log, current, closedFor>>
        /\ queue # <<>> /\ running' = {Head(queue)} /\ queue' = Tail(queue)
    BY <1>6, Zenon DEF TakeEnvelope, sender, net
  <2>2. queue' \in Seq(Message) /\ Len(queue') <= QueueMessages /\ running' \subseteq Message
    BY <2>1, TailSeq DEF TypeOK, ChannelsAssumption
  <2> QED
    BY <2>1, <2>2, Zenon DEF TypeOK
<1>7. CASE StopEpoch
  <2>1. UNCHANGED <<outbound, reliable, sent, streams, datagrams, inbound, reading, received, running, log, current, closedFor>>
        /\ queue' = <<>>
    BY <1>7, Zenon DEF StopEpoch, sender, net
  <2>2. queue' \in Seq(Message) /\ Len(queue') <= QueueMessages
    BY <2>1 DEF ChannelsAssumption
  <2> QED
    BY <2>1, <2>2, Zenon DEF TypeOK
<1>8. ASSUME NEW c \in Channel, AcceptStream(c) PROVE TypeOK'
  <2>1. UNCHANGED <<outbound, reliable, sent, streams, datagrams, received, queue, running, log>>
        /\ (inbound' = inbound \/ inbound' = [inbound EXCEPT ![c] = "reliable"])
        /\ (reading' = reading \/ reading' = reading \cup {c})
    BY <1>8, Zenon DEF AcceptStream, sender, net
  <2>2. /\ current' \in BOOLEAN
        /\ closedFor' \in {"nothing", "violation", "slow", "other"}
    BY <1>8, Zenon DEF AcceptStream, CloseFor, TypeOK
  <2>3. inbound' \in [Channel -> Delivery \cup {"none"}] /\ reading' \subseteq Channel
    BY <2>1, Zenon DEF TypeOK, Delivery
  <2> QED
    BY <2>1, <2>2, <2>3, Zenon DEF TypeOK
<1>9. CASE EndEpoch \/ UNCHANGED vars \/ \E m \in datagrams : Lose(m)
  <2>1. UNCHANGED <<outbound, reliable, sent, streams, inbound, reading, received, queue, running, log>>
        /\ datagrams' \subseteq datagrams
    BY <1>9, Zenon DEF EndEpoch, Lose, vars, sender, net, receiver
  <2>2. current' \in BOOLEAN /\ closedFor' \in {"nothing", "violation", "slow", "other"}
    BY <1>9, Zenon DEF EndEpoch, CloseFor, Lose, vars, receiver, TypeOK
  <2> QED
    BY <2>1, <2>2, Zenon DEF TypeOK
<1> QED
  BY <1>1, <1>2, <1>3, <1>4, <1>5, <1>6, <1>7, <1>8, <1>9, Zenon DEF Next

\* Every step keeps what the receiver holds on bound channels.
LEMMA PlacedStep ==
    ASSUME ChannelsAssumption, TypeOK, Agreed, Placed, [Next]_vars PROVE Placed'
<1>1. ASSUME NEW c \in Channel, NEW d \in Delivery, BindOutbound(c, d),
             UNCHANGED <<queue, running, log>>, \A b \in Channel \ {c} : sent'[b] = sent[b],
             \A b \in Channel : b # c \/ d # "reliable" => streams'[b] = streams[b]
      PROVE  Placed'
  <2>1. /\ outbound[c] \in {d, "none"} /\ outbound'[c] = d
        /\ \A b \in Channel \ {c} : outbound'[b] = outbound[b]
    BY <1>1, Binds
  <2>2. \A m \in running : outbound'[m.channel] = m.delivery
    <3> SUFFICES ASSUME NEW m \in running PROVE outbound'[m.channel] = m.delivery
      OBVIOUS
    <3>1. m.channel \in Channel /\ m.delivery # "none" /\ outbound[m.channel] = m.delivery
      BY Zenon DEF TypeOK, Message, Delivery, Placed
    <3> QED
      BY <2>1, <3>1
  <2>3. \A i \in DOMAIN queue : outbound'[queue[i].channel] = queue[i].delivery
    <3> SUFFICES ASSUME NEW i \in DOMAIN queue PROVE outbound'[queue[i].channel] = queue[i].delivery
      OBVIOUS
    <3>1. queue[i] \in Message /\ outbound[queue[i].channel] = queue[i].delivery
      BY DEF TypeOK, Placed
    <3> QED
      BY <2>1, <3>1 DEF Message, Delivery
  <2>4. \A b \in Channel : outbound'[b] = "none" => sent'[b] = 0 /\ log'[b] = <<>>
    BY <1>1, <2>1 DEF Placed, Delivery
  <2>5. \A b \in Channel : outbound'[b] # "reliable" => streams'[b] = <<>>
    BY <1>1, <2>1 DEF Placed
  <2> QED
    BY <1>1, <2>2, <2>3, <2>4, <2>5 DEF Placed
<1>2. ASSUME NEW c \in Channel, SendReliable(c) PROVE Placed'
  <2>1. BindOutbound(c, "reliable") /\ UNCHANGED <<queue, running, log>>
    BY <1>2 DEF SendReliable, receiver
  <2>2. \A b \in Channel \ {c} : sent'[b] = sent[b] /\ streams'[b] = streams[b]
    BY <1>2 DEF SendReliable, TypeOK
  <2> QED
    BY <1>1, <2>1, <2>2 DEF Delivery
<1>3. ASSUME NEW c \in Channel, NEW d \in Delivery, SendDatagram(c, d) PROVE Placed'
  <2>1. BindOutbound(c, d) /\ d # "reliable" /\ UNCHANGED <<streams, queue, running, log>>
    BY <1>3 DEF SendDatagram, receiver
  <2>2. \A b \in Channel \ {c} : sent'[b] = sent[b]
    BY <1>3 DEF SendDatagram, TypeOK
  <2> QED
    BY <1>1, <2>1, <2>2
<1>4. ASSUME NEW m \in Message, outbound[m.channel] = m.delivery, Queue(m) \/ Coalesce(m) \/ queue' = queue
      PROVE  \A i \in DOMAIN queue' : outbound[queue'[i].channel] = queue'[i].delivery
  <2>1. queue \in Seq(Message) /\ \A i \in DOMAIN queue : outbound[queue[i].channel] = queue[i].delivery
    BY DEF TypeOK, Placed
  <2>2. CASE queue' = queue
    BY <2>1, <2>2
  <2>3. CASE Queue(m)
    <3>1. queue' = Append(queue, m)
      BY <2>3 DEF Queue
    <3> QED
      BY <1>4, <2>1, <3>1, AppendSeq
  <2>4. CASE Coalesce(m) /\ ~Queue(m)
    <3>1. /\ DOMAIN queue' = DOMAIN queue
          /\ \A i \in DOMAIN queue : queue'[i] \in {m, queue[i]}
      BY <2>4 DEF Coalesce
    <3> QED
      BY <1>4, <2>1, <3>1
  <2> QED
    BY <1>4, <2>2, <2>3, <2>4
<1>5. ASSUME NEW m \in datagrams, ReceiveDatagram(m) PROVE Placed'
  <2>1. UNCHANGED <<outbound, sent, streams, running, log>> /\ (Queue(m) \/ Coalesce(m) \/ queue' = queue)
    BY <1>5 DEF ReceiveDatagram, DeliverEvent, sender
  <2>2. m \in Message /\ outbound[m.channel] = m.delivery
    BY DEF TypeOK, Agreed
  <2>3. \A i \in DOMAIN queue' : outbound[queue'[i].channel] = queue'[i].delivery
    BY <1>4, <2>1, <2>2, Zenon
  <2> QED
    BY <2>1, <2>3 DEF Placed
<1>6. ASSUME NEW c \in Channel, ReadReliable(c) PROVE Placed'
  <2> DEFINE m == [channel |-> c, delivery |-> "reliable", n |-> Head(streams[c])]
  <2>1. UNCHANGED <<outbound, sent, running, log>> /\ (Queue(m) \/ queue' = queue)
        /\ streams[c] # <<>> /\ streams' = [streams EXCEPT ![c] = Tail(streams[c])]
    BY <1>6, Zenon DEF ReadReliable, sender
  <2>2. outbound[c] = "reliable"
    BY <2>1 DEF Placed
  <2>3. m \in Message
    <3>1. streams[c] \in Seq(1..MaxSent) /\ streams[c] # <<>>
      BY <2>1 DEF TypeOK
    <3>2. Head(streams[c]) \in 1..MaxSent
      BY <3>1, TailSeq, Zenon
    <3> QED
      BY <3>2 DEF Message, Delivery
  <2>4. \A i \in DOMAIN queue' : outbound[queue'[i].channel] = queue'[i].delivery
    <3>1. m.channel = c /\ m.delivery = "reliable"
      OBVIOUS
    <3> HIDE DEF m
    <3> QED
      BY <1>4, <2>1, <2>2, <2>3, <3>1
  <2> QED
    BY <2>1, <2>2, <2>4 DEF Placed
<1>7. ASSUME NEW m \in running, Invoke(m) PROVE Placed'
  <2>1. UNCHANGED <<outbound, sent, streams, queue>> /\ running' = {}
    BY <1>7 DEF Invoke, sender, net
  <2>2. m.channel \in Channel /\ outbound[m.channel] # "none"
    BY Zenon DEF TypeOK, Message, Placed, Delivery
  <2>3. \A b \in Channel \ {m.channel} : log'[b] = log[b]
    BY <1>7, <2>2 DEF Invoke, TypeOK
  <2> QED
    BY <2>1, <2>2, <2>3 DEF Placed
<1>8. CASE TakeEnvelope
  <2>1. UNCHANGED <<outbound, sent, streams, log>> /\ queue # <<>>
        /\ running' = {Head(queue)} /\ queue' = Tail(queue)
    BY <1>8 DEF TakeEnvelope, sender, net
  <2>2. queue \in Seq(Message) /\ \A i \in DOMAIN queue : outbound[queue[i].channel] = queue[i].delivery
    BY DEF TypeOK, Placed
  <2>3. /\ \A i \in DOMAIN queue' : outbound[queue'[i].channel] = queue'[i].delivery
        /\ \A m \in running' : outbound[m.channel] = m.delivery
        /\ \A m, k \in running' : m = k
    BY <2>1, <2>2, TailSeq
  <2> QED
    BY <2>1, <2>3 DEF Placed
<1>9. CASE StopEpoch
  BY <1>9 DEF StopEpoch, sender, net, Placed
<1>10. CASE EndEpoch \/ UNCHANGED vars \/ (\E c \in Channel : AcceptStream(c)) \/ \E m \in datagrams : Lose(m)
  <2>1. UNCHANGED <<outbound, sent, streams, queue, running, log>>
    BY <1>10 DEF EndEpoch, AcceptStream, Lose, vars, sender, net, receiver
  <2> QED
    BY <2>1 DEF Placed
<1> QED
  BY <1>2, <1>3, <1>5, <1>6, <1>7, <1>8, <1>9, <1>10, Zenon DEF Next

\* Every step keeps the agreement on the bindings: what arrives is bound as it
\* was sent, or refused.
LEMMA AgreedStep ==
    ASSUME ChannelsAssumption, TypeOK, Agreed, [Next]_vars PROVE Agreed'
<1>1. ASSUME NEW c \in Channel, SendReliable(c) PROVE Agreed'
  <2>1. UNCHANGED <<datagrams, inbound, reading, current, closedFor>>
        /\ BindOutbound(c, "reliable") /\ reliable' \subseteq reliable \cup {c}
    BY <1>1 DEF SendReliable, receiver
  <2>2. /\ outbound[c] \in {"reliable", "none"} /\ outbound'[c] = "reliable"
        /\ \A b \in Channel \ {c} : outbound'[b] = outbound[b]
    BY <2>1, Binds DEF Delivery
  <2>3. \A b \in Channel : inbound'[b] \in {"none", outbound'[b]}
    BY <2>1, <2>2 DEF Agreed
  <2>4. \A b \in reliable' : outbound'[b] = "reliable"
    BY <2>1, <2>2, Zenon DEF Agreed, TypeOK
  <2>5. \A m \in datagrams' : m.delivery # "reliable" /\ outbound'[m.channel] = m.delivery
    <3> SUFFICES ASSUME NEW m \in datagrams
                 PROVE  m.delivery # "reliable" /\ outbound'[m.channel] = m.delivery
      BY <2>1
    <3>1. m.channel \in Channel /\ m.delivery \in Delivery
      BY DEF TypeOK, Message
    <3>2. m.delivery # "reliable" /\ outbound[m.channel] = m.delivery
      BY DEF Agreed
    <3> QED
      BY <2>2, <3>1, <3>2 DEF Delivery
  <2> QED
    BY <2>1, <2>2, <2>3, <2>4, <2>5 DEF Agreed
<1>2. ASSUME NEW c \in Channel, NEW d \in Delivery, SendDatagram(c, d) PROVE Agreed'
  <2>1. UNCHANGED <<reliable, inbound, reading, current, closedFor>>
        /\ d # "reliable" /\ BindOutbound(c, d)
        /\ datagrams' \subseteq datagrams \cup {[channel |-> c, delivery |-> d, n |-> sent'[c]]}
    BY <1>2 DEF SendDatagram, receiver
  <2>2. /\ outbound[c] \in {d, "none"} /\ outbound'[c] = d
        /\ \A b \in Channel \ {c} : outbound'[b] = outbound[b]
    BY <2>1, Binds
  <2>3. \A b \in Channel : inbound'[b] \in {"none", outbound'[b]}
    BY <2>1, <2>2 DEF Agreed
  <2>4. \A b \in reliable' : outbound'[b] = "reliable"
    BY <2>1, <2>2 DEF Agreed, TypeOK
  <2>5. \A m \in datagrams' : m.delivery # "reliable" /\ outbound'[m.channel] = m.delivery
    <3> SUFFICES ASSUME NEW m \in datagrams'
                 PROVE  m.delivery # "reliable" /\ outbound'[m.channel] = m.delivery
      OBVIOUS
    <3>1. CASE m \in datagrams
      <4>1. m.channel \in Channel /\ m.delivery \in Delivery
        BY <3>1 DEF TypeOK, Message
      <4>2. m.delivery # "reliable" /\ outbound[m.channel] = m.delivery
        BY <3>1 DEF Agreed
      <4> QED
        BY <2>2, <4>1, <4>2 DEF Delivery
    <3>2. CASE m \notin datagrams
      BY <2>1, <2>2, <3>2
    <3> QED
      BY <3>1, <3>2
  <2> QED
    BY <2>1, <2>2, <2>3, <2>4, <2>5 DEF Agreed
<1>3. ASSUME NEW m \in datagrams, ReceiveDatagram(m) PROVE Agreed'
  <2>1. UNCHANGED <<outbound, reliable, reading>> /\ datagrams' \subseteq datagrams
    BY <1>3 DEF ReceiveDatagram, sender
  <2>2. m.channel \in Channel /\ m.delivery \in Delivery
    BY DEF TypeOK, Message
  <2>3. m.delivery # "reliable" /\ outbound[m.channel] = m.delivery
    BY <2>2 DEF Agreed
  <2>4. \/ inbound' = [inbound EXCEPT ![m.channel] = m.delivery] /\ UNCHANGED current
        \/ UNCHANGED inbound /\ current' = FALSE
    BY <1>3 DEF ReceiveDatagram, CloseFor
  <2>5. /\ \A b \in Channel : inbound'[b] \in {"none", outbound'[b]}
        /\ \A b \in Channel : current' /\ inbound'[b] = "reliable" => b \in reading'
    BY <2>1, <2>2, <2>3, <2>4 DEF Agreed, TypeOK
  <2> QED
    BY <2>1, <2>5 DEF Agreed
<1>4. ASSUME NEW c \in Channel, AcceptStream(c) PROVE Agreed'
  <2>1. UNCHANGED <<outbound, reliable, datagrams>> /\ c \in reliable
    BY <1>4 DEF AcceptStream, sender, net
  <2>2. outbound[c] = "reliable"
    BY <2>1 DEF Agreed
  <2>3. \/ /\ inbound' = [inbound EXCEPT ![c] = "reliable"] /\ reading' = reading \cup {c}
           /\ UNCHANGED current
        \/ UNCHANGED inbound /\ current' = FALSE
    BY <1>4, Zenon DEF AcceptStream, CloseFor
  <2>4. /\ \A b \in Channel : inbound'[b] \in {"none", outbound'[b]}
        /\ \A b \in Channel : current' /\ inbound'[b] = "reliable" => b \in reading'
    BY <2>1, <2>2, <2>3 DEF Agreed, TypeOK
  <2> QED
    BY <2>1, <2>4 DEF Agreed
<1>5. ASSUME NEW c \in Channel, ReadReliable(c) PROVE Agreed'
  <2>1. UNCHANGED <<outbound, reliable, datagrams, inbound>>
        /\ (UNCHANGED <<reading, current, closedFor>> \/ CloseFor("slow"))
    BY <1>5 DEF ReadReliable, sender
  <2> QED
    BY <2>1 DEF CloseFor, Agreed
<1>6. CASE EndEpoch
  BY <1>6 DEF EndEpoch, CloseFor, sender, net, Agreed
<1>7. CASE StopEpoch \/ TakeEnvelope \/ UNCHANGED vars \/ (\E m \in running : Invoke(m))
           \/ \E m \in datagrams : Lose(m)
  <2>1. UNCHANGED <<outbound, reliable, inbound, reading, current, closedFor>> /\ datagrams' \subseteq datagrams
    BY <1>7 DEF StopEpoch, TakeEnvelope, Invoke, Lose, vars, sender, net, receiver
  <2> QED
    BY <2>1 DEF Agreed
<1> QED
  BY <1>1, <1>2, <1>3, <1>4, <1>5, <1>6, <1>7, Zenon DEF Next

\* The invariant holds before the first message.
LEMMA ChannelsInit == ASSUME ChannelsAssumption, Init PROVE ChannelsInv
<1>1. TypeOK
  BY DEF ChannelsAssumption, Init, TypeOK, Delivery
<1>2. Agreed /\ Placed
  BY DEF Init, Agreed, Placed
<1>3. \A c \in Channel : outbound[c] = "none"
  BY DEF Init
<1> QED
  BY <1>1, <1>2, <1>3 DEF ChannelsInv

\* Every step keeps the invariant.
LEMMA ChannelsStep == ASSUME ChannelsAssumption, ChannelsInv, [Next]_vars PROVE ChannelsInv'
<1>1. TypeOK' /\ Agreed' /\ Placed'
  BY ChannelsTypeStep, AgreedStep, PlacedStep DEF ChannelsInv
<1> QED
  BY <1>1, OrderStep DEF ChannelsInv

\* What the application has of a reliable channel is what was sent from the first
\* message on, each once, in order and without a gap, although a stream's
\* messages pass through the handler queue that all channels share.
THEOREM ReliableOrder == ASSUME ChannelsAssumption PROVE Spec => []ReliableInOrder
<1>1. ChannelsInv => ReliableInOrder
  <2> SUFFICES ASSUME ChannelsInv, NEW c \in Channel, inbound[c] = "reliable"
               PROVE  log[c] = [i \in DOMAIN log[c] |-> i]
    BY DEF ReliableInOrder
  <2>1. log[c] \in Seq(1..MaxSent) /\ outbound[c] = "reliable"
    BY DEF ChannelsInv, TypeOK, Agreed
  <2>2. \A i \in DOMAIN log[c] : log[c][i] = i
    BY <2>1 DEF ChannelsInv, InOrder
  <2> QED
    BY <2>1, <2>2
<1> QED
  BY <1>1, ChannelsInit, ChannelsStep, PTL DEF Spec

===============================================================================
