-------------------------------- MODULE Framing --------------------------------
(***************************************************************************)
(* The binary frames of package wire: variable-length integers, events,    *)
(* requests, responses and the header of a custom stream, with the two     *)
(* decoders most of them have: one for a slice and one that reads a stream *)
(* and learns the length of a payload before it allocates it.              *)
(*                                                                         *)
(* A byte has Base values, a quarter of which each of the four lengths of  *)
(* an integer has for its first byte.  An encoder or decoder yields the    *)
(* set of its results: one, or none when it returns an error.              *)
(***************************************************************************)
EXTENDS Integers, Sequences, SequencesExt, FiniteSetsExt

CONSTANTS
    Base,                 \* 256 in the code
    Sample,               \* bytes that arrive from anywhere
    MaxLength,            \* bound on how many of them do
    NotText,              \* a byte that is in no UTF-8 text
    MaxChannel, MaxType, MaxTimeout, MaxDiagnostic,
    Overhead,             \* allowance for the fields of an event: 32
    SenderBytes, ReceiverBytes,    \* MessageBytes at both ends
    DatagramBytes

FramingAssumption ==
    /\ Base \in Nat /\ Base % 4 = 0 /\ Base > 0
    /\ Sample \subseteq 0..(Base - 1)
    /\ {MaxLength, MaxChannel, MaxType, MaxTimeout, MaxDiagnostic} \subseteq Nat \ {0}
    /\ {Overhead, SenderBytes, ReceiverBytes, DatagramBytes} \subseteq Nat

VARIABLES
    sent,         \* the message whose frame arrives, or Anything
    bytes         \* what has arrived

vars == <<sent, bytes>>

Drop(s, n) == SubSeq(s, n + 1, Len(s))

-------------------------------------------------------------------------------
(* Variable-length integers. *)

Quarter == Base \div 4
Below(n) == Quarter * Base^(n - 1)        \* the integers of n bytes are below
MaxVarint == Below(8) - 1

VarintLen(v) ==
    LET lengths == {n \in {1, 2, 4, 8} : v < Below(n)}
    IN  IF lengths = {} THEN 0 ELSE Min(lengths)

AppendVarint(dst, v) ==
    LET n == VarintLen(v)
        mark == (CHOOSE p \in 0..3 : 2^p = n) * Quarter
        body == [i \in 1..n |-> (v \div Base^(n - i)) % Base]
    IN  IF n = 0 THEN {} ELSE {dst \o [body EXCEPT ![1] = mark + @]}

AppendVarints(values) ==
    FoldLeft(LAMBDA acc, v : UNION {AppendVarint(dst, v) : dst \in acc}, {<<>>}, values)

\* the value and the bytes it took
DecodeVarint(src) ==
    LET n == 2^(src[1] \div Quarter)
        v == FoldLeft(LAMBDA acc, b : acc * Base + b, src[1] % Quarter, SubSeq(src, 2, n))
    IN  IF src = <<>> \/ Len(src) < n \/ VarintLen(v) # n THEN {} ELSE {[v |-> v, n |-> n]}

\* Fault: an integer may use more bytes than it needs.
ReadVarintLoose(src) ==
    IF src = <<>> THEN {}
    ELSE LET n == 2^(Head(src) \div Quarter)
             NextByte(acc, i) == {a * Base + src[i] : a \in {a \in acc : i <= Len(src)}}
             values == FoldLeft(NextByte, {Head(src) % Quarter}, [i \in 1..(n - 1) |-> i + 1])
         IN  {[v |-> v, n |-> n] : v \in values}

\* the same from a stream, a byte at a time; the stream may end after any
ReadVarint(src) ==
    IF src = <<>> THEN {}
    ELSE LET n == 2^(Head(src) \div Quarter)
             NextByte(acc, i) == {a * Base + src[i] : a \in {a \in acc : i <= Len(src)}}
             values == FoldLeft(NextByte, {Head(src) % Quarter}, [i \in 1..(n - 1) |-> i + 1])
         IN  {[v |-> v, n |-> n] : v \in {v \in values : VarintLen(v) = n}}

\* k integers one after the other
Fields(One(_), src, k) ==
    LET Another(f) == {[v |-> Append(f.v, d.v), n |-> f.n + d.n] : d \in One(Drop(src, f.n))}
    IN  FoldLeft(LAMBDA acc, i : UNION {Another(f) : f \in acc},
                 {[v |-> <<>>, n |-> 0]}, [i \in 1..k |-> i])

-------------------------------------------------------------------------------
(* Events, on a stream or in a datagram. *)

ReliableEventKind == 1
UnreliableKind == 2
SequencedKind == 3
RequestStreamKind == 2
CustomStreamKind == 3

Event(kind, channel, type, seq, payload) ==
    [frame |-> IF kind = ReliableEventKind THEN "event" ELSE "datagram", kind |-> kind,
     channel |-> channel, type |-> type, seq |-> seq, payload |-> payload]

ValidEvent(e) ==
    /\ e.channel <= MaxChannel /\ e.type \in 1..MaxType
    /\ e.kind = SequencedKind => e.seq # 0

AppendEvent(e) ==
    {b \o e.payload : b \in AppendVarints(
        <<e.kind, e.channel, e.type>> \o IF e.kind = SequencedKind THEN <<e.seq>> ELSE <<>>)}

\* Fault: the length of the frame is that of its payload.
EncodeReliableEventPayload(e, max) ==
    UNION {{f \o b : f \in AppendVarint(<<>>, Len(e.payload))} : b \in AppendEvent(e)}

EncodeReliableEvent(e, max) ==
    LET bodies == {b \in AppendEvent(e) : Len(b) <= max + Overhead}
    IN  IF Len(e.payload) > max \/ ~ValidEvent(e) THEN {}
        ELSE UNION {{f \o b : f \in AppendVarint(<<>>, Len(b))} : b \in bodies}

\* the kind decides whether a sequence number follows
DecodeEvent(src) ==
    {Event(f.v[1], f.v[2], f.v[3], 0, Drop(src, f.n)) : f \in Fields(DecodeVarint, src, 3)}

\* the fields are not validated here
DecodeReliableEvent(src, max) ==
    UNION {{[m |-> e, n |-> l.n + l.v] :
              e \in {e \in DecodeEvent(SubSeq(src, l.n + 1, l.n + l.v)) :
                       e.kind = ReliableEventKind /\ Len(e.payload) <= max}} :
           l \in {l \in DecodeVarint(src) : l.v <= max + Overhead /\ l.v <= Len(src) - l.n}}

\* readReliableStream: the length, ReadReliableEventHeader, the payload
ReadReliableEvent(src, max) ==
    UNION {{[m |-> Event(f.v[1], f.v[2], f.v[3], 0, SubSeq(src, l.n + f.n + 1, l.n + l.v)),
             n |-> l.n + l.v] :
              f \in {f \in Fields(ReadVarint, Drop(src, l.n), 3) :
                       /\ f.v[1] = ReliableEventKind
                       /\ ValidEvent(Event(f.v[1], f.v[2], f.v[3], 0, <<>>))
                       /\ l.v - f.n \in 0..max /\ Len(src) >= l.n + l.v}} :
           l \in {l \in ReadVarint(src) : l.v <= max + Overhead}}

\* the header of a channel's stream
ChannelHeader(channel) == [frame |-> "channel", channel |-> channel]

EncodeReliableChannelHeader(h) == AppendVarints(<<ReliableEventKind, h.channel>>)

\* readReliableStream
ReadReliableChannelHeader(src) ==
    {[m |-> ChannelHeader(f.v[2]), n |-> f.n] :
       f \in {f \in Fields(ReadVarint, src, 2) :
                f.v[1] = ReliableEventKind /\ f.v[2] <= MaxChannel}}

EncodeDatagram(e, max) == {b \in AppendEvent(e) : ValidEvent(e) /\ Len(b) <= max}

DecodeDatagram(src, max) ==
    LET sequenced == {Event(SequencedKind, f.v[2], f.v[3], f.v[4], Drop(src, f.n)) :
                        f \in {f \in Fields(DecodeVarint, src, 4) : f.v[1] = SequencedKind}}
        plain == {e \in DecodeEvent(src) : e.kind = UnreliableKind}
    IN  {[m |-> e, n |-> Len(src)] :
           e \in {e \in sequenced \cup plain : Len(src) <= max /\ ValidEvent(e)}}

-------------------------------------------------------------------------------
(* Requests, responses and custom streams. *)

Request(type, timeout, payload) ==
    [frame |-> "request", type |-> type, timeout |-> timeout, payload |-> payload]
Response(status, payload) == [frame |-> "response", status |-> status, payload |-> payload]
Custom(type) == [frame |-> "custom", type |-> type]

ValidRequest(type, timeout, length, max) ==
    type \in 1..MaxType /\ timeout \in 1..MaxTimeout /\ length <= max

EncodeRequest(r, max) ==
    IF ~ValidRequest(r.type, r.timeout, Len(r.payload), max) THEN {}
    ELSE {b \o r.payload :
            b \in AppendVarints(<<RequestStreamKind, r.type, r.timeout, Len(r.payload)>>)}

\* Fault: what follows the declared payload is taken for payload.
DecodeRequestLong(src, max) ==
    {Request(f.v[2], f.v[3], Drop(src, f.n)) :
       f \in {f \in Fields(DecodeVarint, src, 4) :
                /\ f.v[1] = RequestStreamKind /\ ValidRequest(f.v[2], f.v[3], f.v[4], max)
                /\ f.v[4] <= Len(src) - f.n}}

DecodeRequest(src, max) ==
    {Request(f.v[2], f.v[3], Drop(src, f.n)) :
       f \in {f \in Fields(DecodeVarint, src, 4) :
                /\ f.v[1] = RequestStreamKind /\ ValidRequest(f.v[2], f.v[3], f.v[4], max)
                /\ f.v[4] = Len(src) - f.n}}

\* readApplicationStream, ReadRequestHeader, the payload; more is not read
ReadRequest(src, max) ==
    {[m |-> Request(f.v[2], f.v[3], SubSeq(src, f.n + 1, f.n + f.v[4])), n |-> f.n + f.v[4]] :
       f \in {f \in Fields(ReadVarint, src, 4) :
                /\ f.v[1] = RequestStreamKind /\ ValidRequest(f.v[2], f.v[3], f.v[4], max)
                /\ Len(src) >= f.n + f.v[4]}}

ValidText(p) == NotText \notin ToSet(p)      \* utf8.Valid
Diagnostic(status, p) == status # 0 => Len(p) <= MaxDiagnostic /\ ValidText(p)

EncodeResponse(r, max) ==
    IF Len(r.payload) > max \/ ~Diagnostic(r.status, r.payload) THEN {}
    ELSE {b \o r.payload : b \in AppendVarints(<<r.status, Len(r.payload)>>)}

DecodeResponse(src, max) ==
    {Response(f.v[1], Drop(src, f.n)) :
       f \in {f \in Fields(DecodeVarint, src, 2) :
                /\ f.v[2] <= max /\ f.v[2] = Len(src) - f.n
                /\ Diagnostic(f.v[1], Drop(src, f.n))}}

\* call: ReadResponseHeader, the payload, the end of the stream, the text
ReadResponse(src, max) ==
    {[m |-> Response(f.v[1], Drop(src, f.n)), n |-> Len(src)] :
       f \in {f \in Fields(ReadVarint, src, 2) :
                /\ f.v[2] <= max /\ (f.v[1] # 0 => f.v[2] <= MaxDiagnostic)
                /\ f.v[2] = Len(src) - f.n
                /\ f.v[1] # 0 => ValidText(Drop(src, f.n))}}

EncodeCustomStreamHeader(c) ==
    IF c.type \notin 1..MaxType THEN {} ELSE AppendVarints(<<CustomStreamKind, c.type>>)

DecodeCustomStreamHeader(src) ==
    {Custom(f.v[2]) :
       f \in {f \in Fields(DecodeVarint, src, 2) :
                f.v[1] = CustomStreamKind /\ f.n = Len(src) /\ f.v[2] \in 1..MaxType}}

\* readApplicationStream; what follows belongs to the application
ReadCustomStreamHeader(src) ==
    {[m |-> Custom(f.v[2]), n |-> f.n] :
       f \in {f \in Fields(ReadVarint, src, 2) :
                f.v[1] = CustomStreamKind /\ f.v[2] \in 1..MaxType}}

\* the answer to a custom stream: a response, but for the length of success
Acceptance(status, text) == [frame |-> "acceptance", status |-> status, payload |-> text]

WriteCustomAcceptance(a) ==
    IF a.status = 0 THEN AppendVarint(<<>>, 0)
    ELSE EncodeResponse(Response(a.status, a.payload), MaxDiagnostic)

\* openStream: the status, then readCustomDiagnostic
ReadCustomAcceptance(src) ==
    {[m |-> Acceptance(0, <<>>), n |-> d.n] : d \in {d \in ReadVarint(src) : d.v = 0}}
    \cup {[m |-> Acceptance(f.v[1], SubSeq(src, f.n + 1, f.n + f.v[2])), n |-> f.n + f.v[2]] :
            f \in {f \in Fields(ReadVarint, src, 2) :
                     /\ f.v[1] # 0 /\ f.v[2] <= MaxDiagnostic /\ Len(src) >= f.n + f.v[2]
                     /\ ValidText(SubSeq(src, f.n + 1, f.n + f.v[2]))}}

-------------------------------------------------------------------------------
(* What one end sends and the other reads. *)

\* outboundMessageLimit
OutboundMessageLimit == Min({SenderBytes, ReceiverBytes})

Encode(m, max) ==
    CASE m.frame = "event" -> EncodeReliableEvent(m, max)
      [] m.frame = "channel" -> EncodeReliableChannelHeader(m)
      [] m.frame = "datagram" -> EncodeDatagram(m, DatagramBytes)
      [] m.frame = "request" -> EncodeRequest(m, max)
      [] m.frame = "response" -> EncodeResponse(m, max)
      [] m.frame = "custom" -> EncodeCustomStreamHeader(m)
      [] m.frame = "acceptance" -> WriteCustomAcceptance(m)

\* by the reader of each kind of stream, and of datagrams
Read(src) ==
    [event |-> ReadReliableEvent(src, ReceiverBytes),
     channel |-> ReadReliableChannelHeader(src),
     datagram |-> DecodeDatagram(src, DatagramBytes),
     request |-> ReadRequest(src, ReceiverBytes),
     response |-> ReadResponse(src, ReceiverBytes),
     custom |-> ReadCustomStreamHeader(src),
     acceptance |-> ReadCustomAcceptance(src)]

\* what the API lets an application send
Message ==
    LET payloads == {<<>>, [i \in 1..OutboundMessageLimit |-> 1]} IN
    {Event(k, c, t, IF k = SequencedKind THEN s ELSE 0, p) :
       k \in {ReliableEventKind, UnreliableKind, SequencedKind}, c \in {0, MaxChannel},
       t \in {1, MaxType}, s \in {1, MaxVarint}, p \in payloads}
    \cup {ChannelHeader(c) : c \in {0, MaxChannel}}
    \cup {Request(t, d, p) : t \in {1, MaxType}, d \in {1, MaxTimeout}, p \in payloads}
    \cup {Response(0, p) : p \in payloads} \cup {Response(s, <<1>>) : s \in {1, MaxType}}
    \cup {Custom(t) : t \in {1, MaxType}}
    \cup {Acceptance(0, <<>>)} \cup {Acceptance(s, <<1>>) : s \in {1, MaxType}}

Anything == [frame |-> "any"]

Init == bytes = <<>> /\ sent \in Message \cup {Anything}

Arrive ==
    /\ \/ /\ sent = Anything /\ Len(bytes) < MaxLength
          /\ \E b \in Sample : bytes' = Append(bytes, b)
       \/ /\ sent # Anything
          /\ \E whole \in Encode(sent, OutboundMessageLimit) :
               /\ Len(bytes) < Len(whole)
               /\ bytes' = Append(bytes, whole[Len(bytes) + 1])
    /\ UNCHANGED sent

Next == Arrive
Spec == Init /\ [][Next]_vars

-------------------------------------------------------------------------------
(* Properties. *)

\* What send, call and openStream may send can be encoded, unless a datagram is
\* too long; the reader at the other end, with limits of its own, returns it
\* when all of it has arrived, and nothing before: a frame on a stream ends
\* where its reader thinks it does.
FramesArrive ==
    sent # Anything =>
        LET whole == Encode(sent, OutboundMessageLimit)
            read == Read(bytes)[sent.frame]
        IN  /\ whole = {} => sent.frame = "datagram"
            /\ bytes \in whole => read = {[m |-> sent, n |-> Len(bytes)]}
            /\ bytes \notin whole /\ sent.frame # "datagram" => read = {}

\* A frame has one encoding: what a reader accepts, whatever arrives, is what
\* the encoder makes of the result, to the last byte the reader consumed.
OneEncoding ==
    LET read == Read(bytes) IN
    \A frame \in DOMAIN read : \A r \in read[frame] :
        SubSeq(bytes, 1, r.n) \in Encode(r.m, ReceiverBytes)

\* The decoders of slices and the readers of streams, which check the same
\* things in another order and before the payload is there, accept the same
\* frames; DecodeReliableEvent alone leaves the fields of an event unchecked.
ReadersAgree ==
    LET Whole(results) == {r.m : r \in {r \in results : r.n = Len(bytes)}} IN
    /\ ReadVarint(bytes) = DecodeVarint(bytes)
    /\ ReadReliableEvent(bytes, ReceiverBytes) =
         {r \in DecodeReliableEvent(bytes, ReceiverBytes) : ValidEvent(r.m)}
    /\ Whole(ReadRequest(bytes, ReceiverBytes)) = DecodeRequest(bytes, ReceiverBytes)
    /\ Whole(ReadResponse(bytes, ReceiverBytes)) = DecodeResponse(bytes, ReceiverBytes)
    /\ Whole(ReadCustomStreamHeader(bytes)) = DecodeCustomStreamHeader(bytes)
===============================================================================
