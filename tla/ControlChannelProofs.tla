-------------------------- MODULE ControlChannelProofs --------------------------
(***************************************************************************)
(* Theorems about ControlChannel, for every limit of the write queue: two  *)
(* correct ends agree (PeersAgree) in every interleaving of their writers, *)
(* loops and callers, and however the transport fails.  IInv follows a     *)
(* frame through the queue, the writer and the wire of an end.  The two    *)
(* answers are judged by what they answer: a refresh or its result on its  *)
(* way keeps the refresh active, and an acknowledgement on its way was     *)
(* queued by a loop that reads nothing after it.                           *)
(***************************************************************************)
EXTENDS ControlChannel, TLAPS

\* A frame of this kind is in the sequence, and there is at most one.
In(q, op) == \E i \in 1..Len(q) : q[i] = op
Lone(q, op) == \A i, j \in 1..Len(q) : q[i] = op /\ q[j] = op => i = j

\* A frame of this kind is on its way from e, and it is the only one.
Held(e, op) == In(queue[e], op) \/ writer[e] = op
Sent(e, op) == Held(e, op) \/ In(wire[e], op)
Single(e, op) ==
    /\ Lone(queue[e], op) /\ Lone(wire[e], op)
    /\ In(queue[e], op) => writer[e] # op
    /\ Held(e, op) => ~In(wire[e], op)

\* A writer stops when the connection is over or the loop has acted on the
\* peer's close; a frame is told of an error only then.
Stopping ==
    \A e \in End :
        /\ stopped[e] => down[e] \/ (state[e] = "closed" /\ loop[e] = "exited")
        /\ \A op \in Op : fate[e][op] = "err" => Over(e)

\* As long as the client reads, a refresh or its result on its way is the only
\* one, and the refresh is active.
Listening == ~down["client"] /\ loop["client"] # "exited"

Refreshing ==
    /\ ~Sent("client", "refresh_result")
    /\ Listening =>
         /\ Single("client", "refresh") /\ Single("server", "refresh_result")
         /\ ~(Sent("client", "refresh") /\ Sent("server", "refresh_result"))
         /\ Sent("client", "refresh") \/ Sent("server", "refresh_result") => refreshReply # "nil"

\* What the position of a call of Close says about the frames of its handshake.
Closing ==
    \A e \in End :
        /\ closer[e] = "idle" =>
             /\ closeAck[e] = "nil" /\ loop[Peer(e)] # "acking"
             /\ ~Sent(e, "close") /\ ~Sent(Peer(e), "close_ack")
        /\ closer[e] \in {"start", "waiting", "acked", "gaveUp"} => closeAck[e] # "nil"
        /\ closer[e] = "acked" => closeAck[e] = "closed"
        /\ closer[e] = "done" => down[e]

\* What an end has delivered.
Delivering ==
    \A e \in End :
        /\ emitted[e] <= 1 /\ code[e] # "violation"
        /\ emitted[e] > 0 => state[e] = "closed" /\ closer[e] \in {"idle", "done"}
        /\ state[e] # "closed" => closer[e] = "idle"

\* The way of an acknowledgement from p.  The loop that queued it waits for it
\* or is over, so there is no second one; when the peer has it, this end's
\* session is closed or the loop is about to close it.
AckWay(p) ==
    /\ Single(p, "close_ack")
    /\ Sent(p, "close_ack") \/ closeAck[Peer(p)] = "closed" => loop[p] \in {"acking", "exited"}
    /\ closeAck[Peer(p)] = "closed" => ~Sent(p, "close_ack")
    /\ Held(p, "close_ack") =>
         /\ loop[p] = "acking" => fate[p]["close_ack"] = "queued"
         /\ loop[p] = "acking" \/ state[p] = "closed" \/ down[p]
    /\ In(wire[p], "close_ack") \/ closeAck[Peer(p)] = "closed" =>
         state[p] = "closed" \/ (loop[p] = "acking" /\ fate[p]["close_ack"] = "none")

Acking == \A p \in End : AckWay(p)

IInv == TypeOK /\ Stopping /\ Refreshing /\ Closing /\ Delivering /\ Acking
-------------------------------------------------------------------------------
(* Frames in a sequence. *)

\* r has no frame of a kind that q has not, and repeats none.
Less(q, r) == \A op \in Op : (In(r, op) => In(q, op)) /\ (Lone(q, op) => Lone(r, op))

LEMMA LessSame == \A q : Less(q, q)
  BY Zenon DEF Less

LEMMA LessEmpty == \A q : Less(q, <<>>) /\ \A op : ~In(<<>>, op)
  BY DEF Less, In, Lone

\* What is left when the first frame is taken, which was the lone one.
LEMMA LessTail ==
    ASSUME NEW q \in Seq(Op), q # <<>>
    PROVE  /\ Tail(q) \in Seq(Op) /\ Head(q) \in Op /\ Len(Tail(q)) <= Len(q)
           /\ Less(q, Tail(q)) /\ In(q, Head(q))
           /\ Lone(q, Head(q)) => ~In(Tail(q), Head(q))
<1>1. /\ Len(q) \in Nat /\ Len(q) > 0 /\ Head(q) = q[1] /\ Head(q) \in Op
      /\ Tail(q) \in Seq(Op) /\ Len(Tail(q)) = Len(q) - 1
      /\ \A i \in 1..(Len(q) - 1) : Tail(q)[i] = q[i + 1]
  OBVIOUS
<1>2. \A op : In(Tail(q), op) => \E i \in 2..Len(q) : q[i] = op
  <2> SUFFICES ASSUME NEW op, NEW i \in 1..Len(Tail(q)), Tail(q)[i] = op
               PROVE  \E j \in 2..Len(q) : q[j] = op
    BY DEF In
  <2>1. i + 1 \in 2..Len(q) /\ q[i + 1] = op
    BY <1>1
  <2> QED
    BY <2>1
<1>3. \A op : Lone(q, op) => Lone(Tail(q), op)
  BY <1>1 DEF Lone
<1>4. Less(q, Tail(q))
  BY <1>1, <1>2, <1>3 DEF Less, In
<1>5. In(q, Head(q))
  BY <1>1 DEF In
<1>6. Lone(q, Head(q)) => ~In(Tail(q), Head(q))
  BY <1>1, <1>2 DEF Lone
<1> QED
  BY <1>1, <1>4, <1>5, <1>6

\* A frame is added behind the others.
LEMMA AddFrame ==
    ASSUME NEW q \in Seq(Op), NEW x \in Op
    PROVE  /\ Append(q, x) \in Seq(Op) /\ Len(Append(q, x)) = Len(q) + 1
           /\ \A op : In(Append(q, x), op) <=> In(q, op) \/ op = x
           /\ \A op : Lone(q, op) /\ op # x => Lone(Append(q, x), op)
           /\ ~In(q, x) => Lone(Append(q, x), x)
<1>1. /\ Append(q, x) \in Seq(Op) /\ Len(q) \in Nat /\ Len(Append(q, x)) = Len(q) + 1
      /\ \A i \in 1..Len(q) : Append(q, x)[i] = q[i]
      /\ Append(q, x)[Len(q) + 1] = x
  OBVIOUS
<1>2. \A op : In(Append(q, x), op) => In(q, op) \/ op = x
  BY <1>1 DEF In
<1>3. \A op : In(q, op) => In(Append(q, x), op)
  BY <1>1 DEF In
<1>4. In(Append(q, x), x)
  BY <1>1 DEF In
<1>5. \A op : Lone(q, op) /\ op # x => Lone(Append(q, x), op)
  BY <1>1 DEF Lone
<1>6. ~In(q, x) => Lone(Append(q, x), x)
  BY <1>1 DEF In, Lone
<1> QED
  BY <1>1, <1>2, <1>3, <1>4, <1>5, <1>6

\* A frame of a sequence is one of its elements.
LEMMA InRange == \A q \in Seq(Op) : \A op : op \in Range(q) <=> In(q, op)
  BY DEF Range, In
-------------------------------------------------------------------------------
(* What a step does to the frames on their way. *)

\* The frames of this kind from e become no more; none is written.
Fewer(e, op) ==
    /\ Single(e, op) => Single(e, op)'
    /\ Held(e, op)' => Held(e, op)
    /\ In(wire[e], op)' => In(wire[e], op)

AllFewer == \A e \in End, op \in Op : Fewer(e, op)

\* An end whose queue and wire lose frames and whose writer takes none.
Shrinks(e) ==
    /\ Less(queue[e], queue'[e]) /\ Less(wire[e], wire'[e])
    /\ writer'[e] = writer[e] \/ writer'[e] \notin Op

LEMMA ShrinksFewer ==
    ASSUME NEW e \in End, Shrinks(e)
    PROVE  \A op \in Op : Fewer(e, op)
<1> SUFFICES ASSUME NEW op \in Op PROVE Fewer(e, op)
  OBVIOUS
<1>1. /\ In(queue'[e], op) => In(queue[e], op)
      /\ In(wire'[e], op) => In(wire[e], op)
      /\ Lone(queue[e], op) => Lone(queue'[e], op)
      /\ Lone(wire[e], op) => Lone(wire'[e], op)
  BY Zenon DEF Shrinks, Less
<1>2. writer'[e] = op => writer[e] = op
  BY Zenon DEF Shrinks
<1> QED
  BY Zenon, <1>1, <1>2 DEF Fewer, Single, Held

LEMMA AllShrinkFewer ==
    ASSUME \A e \in End : Shrinks(e)
    PROVE  AllFewer
  BY Zenon, ShrinksFewer DEF AllFewer

LEMMA SameFewer ==
    ASSUME UNCHANGED <<queue, writer, wire>>
    PROVE  AllFewer
  BY Zenon, LessSame, AllShrinkFewer DEF Shrinks

\* What stopEpoch may do at e: queued frames fail, and the writer is stopped.
Halts(e) ==
    /\ queue' \in [End -> Seq(Op)]
    /\ \A x \in End : queue'[x] = queue[x] \/ queue'[x] = <<>>
    /\ stopped' \in [End -> BOOLEAN]
    /\ \A x \in End : (stopped[x] => stopped'[x]) /\ (stopped'[x] => stopped[x] \/ x = e)
    /\ fate' \in [End -> [Op -> {"none", "queued", "err"}]]
    /\ \A x \in End, op \in Op :
         \/ fate'[x][op] = fate[x][op]
         \/ /\ In(queue[x], op) /\ queue'[x] = <<>>
            /\ fate'[x][op] = "err" /\ stopped'[x]

LEMMA StopHalts ==
    ASSUME TypeOK, NEW e \in End, StopWriter(e)
    PROVE  Halts(e)
<1>1. /\ queue' \in [End -> Seq(Op)] /\ queue'[e] = <<>>
      /\ \A x \in End : queue'[x] = queue[x] \/ queue'[x] = <<>>
  BY DEF TypeOK, StopWriter
<1>2. stopped' \in [End -> BOOLEAN]
  BY Zenon DEF TypeOK, StopWriter
<1>3. stopped'[e] = TRUE /\ \A x \in End : x # e => stopped'[x] = stopped[x]
  BY Zenon DEF TypeOK, StopWriter
<1>4. \A op \in Op : op \in Range(queue[e]) <=> In(queue[e], op)
  BY InRange DEF TypeOK
<1>5. fate' \in [End -> [Op -> {"none", "queued", "err"}]]
  BY DEF TypeOK, StopWriter
<1>6. \A op \in Op : fate'[e][op] = IF In(queue[e], op) THEN "err" ELSE fate[e][op]
  BY <1>4 DEF TypeOK, StopWriter
<1>7. \A x \in End : x # e => fate'[x] = fate[x]
  BY DEF TypeOK, StopWriter
<1>8. \A x \in End : (stopped[x] => stopped'[x]) /\ (stopped'[x] => stopped[x] \/ x = e)
  BY Zenon, <1>3
<1>9. \A x \in End, op \in Op :
         \/ fate'[x][op] = fate[x][op]
         \/ /\ In(queue[x], op) /\ queue'[x] = <<>>
            /\ fate'[x][op] = "err" /\ stopped'[x]
  BY Zenon, <1>1, <1>3, <1>6, <1>7
<1> QED
  BY Zenon, <1>1, <1>2, <1>5, <1>8, <1>9 DEF Halts

LEMMA SameHalts ==
    ASSUME TypeOK, NEW e \in End, UNCHANGED <<queue, stopped, fate>>
    PROVE  Halts(e)
  BY Zenon DEF TypeOK, Halts

\* What closeRemote and emitTerminal may do at e.
Ends(e, c) ==
    /\ state' \in [End -> {"active", "suspended", "closed"}]
    /\ \A x \in End : state'[x] = state[x] \/ (x = e /\ state'[x] = "closed")
    /\ code' \in [End -> {"none", "normal", "peer", "exhausted", "violation"}]
    /\ \A x \in End : code'[x] = code[x] \/ (x = e /\ code'[x] = c)
    /\ emitted' \in [End -> Nat]
    /\ \A x \in End :
         \/ emitted'[x] = emitted[x]
         \/ state[x] # "closed" /\ state'[x] = "closed" /\ emitted'[x] = emitted[x] + 1

LEMMA SameEnds ==
    ASSUME TypeOK, NEW e \in End, NEW c, UNCHANGED session
    PROVE  Ends(e, c)
  BY Zenon DEF TypeOK, Ends, session

LEMMA EndSessionIs ==
    ASSUME TypeOK, NEW e \in End, NEW c \in {"peer", "exhausted", "violation"}, EndSession(e, c)
    PROVE  Ends(e, c) /\ Halts(e) /\ state'[e] = "closed"
<1>1. CASE state[e] = "closed"
  <2>1. UNCHANGED session /\ UNCHANGED <<queue, stopped, fate>>
    BY Zenon, <1>1 DEF EndSession
  <2> QED
    BY Zenon, <1>1, <2>1, SameEnds, SameHalts DEF session
<1>2. CASE state[e] # "closed"
  <2>1. StopWriter(e) /\ state' = [state EXCEPT ![e] = "closed"]
          /\ code' = [code EXCEPT ![e] = c] /\ emitted' = [emitted EXCEPT ![e] = @ + 1]
    BY Zenon, <1>2 DEF EndSession
  <2>2. Ends(e, c) /\ state'[e] = "closed"
    BY <1>2, <2>1 DEF TypeOK, Ends
  <2> QED
    BY Zenon, <2>1, <2>2, StopHalts
<1> QED
  BY <1>1, <1>2

\* What abortControl may do at e.
Drops(e) == down' \in [End -> BOOLEAN] /\ \A x \in End :
              (down[x] => down'[x]) /\ (down'[x] => down[x] \/ x = e)

LEMMA AbortIs ==
    ASSUME TypeOK, NEW e \in End, NEW c \in {"peer", "exhausted", "violation"}, Abort(e, c)
    PROVE  Ends(e, c) /\ Halts(e) /\ state'[e] = "closed" /\ Drops(e) /\ down'[e]
<1>1. down' \in [End -> BOOLEAN] /\ down'[e] = TRUE /\ \A x \in End : x # e => down'[x] = down[x]
  BY Zenon DEF Abort, TypeOK
<1>2. Ends(e, c) /\ Halts(e) /\ state'[e] = "closed"
  BY Zenon, EndSessionIs DEF Abort
<1> QED
  BY Zenon, <1>1, <1>2 DEF Drops

\* A frame that write refuses, or that finds the queue full.
LEMMA RefusedIs ==
    ASSUME TypeOK, NEW e \in End, NEW w, Refused(e, w) \/ Exhausted(e, w)
    PROVE  /\ Ends(e, "exhausted") /\ Halts(e) /\ Drops(e)
           /\ stopped'[e] => stopped[e] \/ down'[e]
           /\ wire' = w /\ writer' = writer /\ exhausted' \in [End -> BOOLEAN]
<1>1. CASE NoAbort /\ UNCHANGED <<queue, fate>> /\ wire' = w /\ writer' = writer
  <2>1. exhausted' \in [End -> BOOLEAN]
    BY Zenon DEF Refused, Exhausted, TypeOK
  <2>2. Drops(e)
    BY Zenon, <1>1 DEF NoAbort, Drops, TypeOK
  <2>3. Ends(e, "exhausted") /\ Halts(e)
    BY Zenon, <1>1, SameEnds, SameHalts DEF NoAbort
  <2>4. stopped'[e] => stopped[e]
    BY Zenon, <1>1 DEF NoAbort
  <2> QED
    BY Zenon, <1>1, <2>1, <2>2, <2>3, <2>4
<1>2. CASE Exhausted(e, w) /\ ~exhausted[e]
  <2>1. Abort(e, "exhausted") /\ wire' = w /\ writer' = writer
    BY Zenon, <1>2 DEF Exhausted
  <2>2. exhausted' \in [End -> BOOLEAN]
    BY Zenon, <1>2 DEF Exhausted, TypeOK
  <2>3. "exhausted" \in {"peer", "exhausted", "violation"}
    OBVIOUS
  <2>4. Ends(e, "exhausted") /\ Halts(e) /\ Drops(e) /\ down'[e]
    BY Zenon, <2>1, <2>3, AbortIs
  <2> QED
    BY Zenon, <2>1, <2>2, <2>4
<1>3. CASE Refused(e, w)
  BY Zenon, <1>1, <1>3 DEF Refused
<1>4. CASE Exhausted(e, w) /\ exhausted[e]
  BY Zenon, <1>1, <1>4 DEF Exhausted
<1> QED
  BY <1>2, <1>3, <1>4

LEMMA HaltsFewer ==
    ASSUME NEW e \in End, Halts(e), writer' = writer, \A x \in End : Less(wire[x], wire'[x])
    PROVE  AllFewer
<1> SUFFICES ASSUME NEW x \in End PROVE Shrinks(x)
  BY Zenon, AllShrinkFewer
<1>1. Less(queue[x], queue'[x])
  BY Zenon, LessSame, LessEmpty DEF Halts
<1> QED
  BY Zenon, <1>1 DEF Shrinks

LEMMA SameWireFewer ==
    ASSUME NEW e \in End, Halts(e), writer' = writer, wire' = wire
    PROVE  AllFewer
  BY Zenon, LessSame, HaltsFewer

\* The wire when the loop of e has taken a frame from it.
Rest(e) == [wire EXCEPT ![Peer(e)] = Tail(@)]

LEMMA TakenFrame ==
    ASSUME TypeOK, NEW e \in End, NEW op \in Op, Arrived(e, op)
    PROVE  /\ Peer(e) \in End /\ loop[e] = "reading" /\ ~down[e]
           /\ Rest(e) \in [End -> Seq(Op)]
           /\ \A x \in End : Less(wire[x], Rest(e)[x])
           /\ In(wire[Peer(e)], op)
           /\ Lone(wire[Peer(e)], op) => ~In(Rest(e)[Peer(e)], op)
<1>1. Peer(e) \in End /\ wire[Peer(e)] \in Seq(Op) /\ wire[Peer(e)] # <<>>
      /\ Head(wire[Peer(e)]) = op /\ loop[e] = "reading" /\ ~down[e]
  BY DEF TypeOK, Arrived, End, Peer
<1>2. /\ Tail(wire[Peer(e)]) \in Seq(Op)
      /\ Less(wire[Peer(e)], Tail(wire[Peer(e)])) /\ In(wire[Peer(e)], op)
      /\ Lone(wire[Peer(e)], op) => ~In(Tail(wire[Peer(e)]), op)
  BY Zenon, <1>1, LessTail
<1>3. /\ Rest(e) \in [End -> Seq(Op)] /\ Rest(e)[Peer(e)] = Tail(wire[Peer(e)])
      /\ \A x \in End : x # Peer(e) => Rest(e)[x] = wire[x]
  BY <1>1, <1>2 DEF TypeOK, Rest
<1> QED
  BY Zenon, <1>1, <1>2, <1>3, LessSame

\* The lone frame of its kind is gone when the loop of e has taken it.
LEMMA TakenLone ==
    ASSUME TypeOK, NEW e \in End, NEW op \in Op, Arrived(e, op), wire' = Rest(e),
           Fewer(Peer(e), op), Single(Peer(e), op)
    PROVE  ~Sent(Peer(e), op)'
<1>1. /\ In(wire[Peer(e)], op)
      /\ Lone(wire[Peer(e)], op) => ~In(Rest(e)[Peer(e)], op)
  BY Zenon, TakenFrame
<1>2. ~In(wire'[Peer(e)], op) /\ ~Held(Peer(e), op)
  BY Zenon, <1>1 DEF Single
<1> QED
  BY Zenon, <1>2 DEF Fewer, Sent

\* A frame of kind op is added at e, in the queue or on the wire.
Puts(e, op) ==
    /\ \A x \in End, o \in Op : x # e \/ o # op => Fewer(x, o)
    /\ ~Sent(e, op) => Single(e, op)'

LEMMA QueuedPuts ==
    ASSUME TypeOK, NEW e \in End, NEW op \in Op, NEW w, \A x \in End : Less(wire[x], w[x]),
           Queued(e, op, w)
    PROVE  /\ Puts(e, op) /\ (In(wire[e], op)' => In(wire[e], op))
           /\ queue' \in [End -> Seq(Op)] /\ \A x \in End : Len(queue'[x]) <= MaxFrames
<1>1. queue[e] \in Seq(Op) /\ Len(queue[e]) \in Nat /\ Len(queue[e]) < MaxFrames /\ MaxFrames \in Nat
  BY ControlAssumption DEF TypeOK, Queued
<1>2. /\ Append(queue[e], op) \in Seq(Op) /\ Len(Append(queue[e], op)) = Len(queue[e]) + 1
      /\ \A o : In(Append(queue[e], op), o) <=> In(queue[e], o) \/ o = op
      /\ \A o : Lone(queue[e], o) /\ o # op => Lone(Append(queue[e], op), o)
      /\ ~In(queue[e], op) => Lone(Append(queue[e], op), op)
  BY Zenon, <1>1, AddFrame
<1>3. /\ queue' \in [End -> Seq(Op)] /\ queue'[e] = Append(queue[e], op)
      /\ \A x \in End : x # e => queue'[x] = queue[x]
      /\ wire' = w /\ writer' = writer
  BY <1>2 DEF TypeOK, Queued
<1>4. \A x \in End : Len(queue'[x]) <= MaxFrames
  <2>1. Len(Append(queue[e], op)) <= MaxFrames
    BY <1>1, <1>2
  <2>2. \A x \in End : Len(queue[x]) <= MaxFrames
    BY Zenon DEF TypeOK
  <2> QED
    BY Zenon, <1>3, <2>1, <2>2
<1>5. ASSUME NEW x \in End, NEW o \in Op, x # e \/ o # op PROVE Fewer(x, o)
  <2>1. /\ In(queue'[x], o) => In(queue[x], o)
        /\ Lone(queue[x], o) => Lone(queue'[x], o)
    BY Zenon, <1>2, <1>3, <1>5
  <2>2. /\ In(wire'[x], o) => In(wire[x], o)
        /\ Lone(wire[x], o) => Lone(wire'[x], o)
    BY Zenon, <1>3 DEF Less
  <2> QED
    BY Zenon, <1>3, <2>1, <2>2 DEF Fewer, Single, Held
<1>6. /\ In(wire'[e], op) => In(wire[e], op)
      /\ Lone(wire[e], op) => Lone(wire'[e], op)
  BY Zenon, <1>3 DEF Less
<1>7. ASSUME ~Sent(e, op) PROVE Single(e, op)'
  <2>1. Lone(wire'[e], op)
    BY Zenon, <1>6, <1>7 DEF Sent, In, Lone
  <2>2. Lone(queue'[e], op)
    BY Zenon, <1>2, <1>3, <1>7 DEF Sent, Held
  <2> QED
    BY Zenon, <1>3, <1>6, <1>7, <2>1, <2>2 DEF Sent, Held, Single
<1> QED
  BY Zenon, <1>3, <1>4, <1>5, <1>6, <1>7 DEF Puts

LEMMA DirectPuts ==
    ASSUME TypeOK, NEW e \in End, NEW op \in Op, Direct(e, op)
    PROVE  Puts(e, op) /\ wire' \in [End -> Seq(Op)]
<1>1. wire[e] \in Seq(Op)
  BY DEF TypeOK
<1>2. /\ Append(wire[e], op) \in Seq(Op)
      /\ \A o : In(Append(wire[e], op), o) <=> In(wire[e], o) \/ o = op
      /\ \A o : Lone(wire[e], o) /\ o # op => Lone(Append(wire[e], op), o)
      /\ ~In(wire[e], op) => Lone(Append(wire[e], op), op)
  BY Zenon, <1>1, AddFrame
<1>3. /\ wire' \in [End -> Seq(Op)] /\ wire'[e] = Append(wire[e], op)
      /\ \A x \in End : x # e => wire'[x] = wire[x]
      /\ queue' = queue /\ writer' = writer
  BY <1>2 DEF TypeOK, Direct
<1>4. ASSUME NEW x \in End, NEW o \in Op, x # e \/ o # op PROVE Fewer(x, o)
  <2>1. /\ In(wire'[x], o) => In(wire[x], o)
        /\ Lone(wire[x], o) => Lone(wire'[x], o)
    BY Zenon, <1>2, <1>3, <1>4
  <2> QED
    BY Zenon, <1>3, <2>1 DEF Fewer, Single, Held
<1>5. ASSUME ~Sent(e, op) PROVE Single(e, op)'
  <2>1. Lone(wire'[e], op)
    BY Zenon, <1>2, <1>3, <1>5 DEF Sent
  <2>2. Lone(queue'[e], op)
    BY Zenon, <1>3, <1>5 DEF Sent, Held, In, Lone
  <2> QED
    BY Zenon, <1>3, <1>5, <2>1, <2>2 DEF Sent, Held, Single
<1> QED
  BY Zenon, <1>3, <1>4, <1>5 DEF Puts

\* The writer takes a frame from the queue.
LEMMA TakesFewer ==
    ASSUME TypeOK, NEW e \in End, WriterTakes(e)
    PROVE  /\ AllFewer /\ queue' \in [End -> Seq(Op)] /\ writer'[e] \in Op \cup {"exited"}
           /\ \A x \in End : Len(queue'[x]) <= MaxFrames
<1> DEFINE op == Head(queue[e])
<1>1. queue[e] \in Seq(Op) /\ queue[e] # <<>> /\ writer[e] = "idle"
  BY DEF TypeOK, WriterTakes
<1>2. /\ Tail(queue[e]) \in Seq(Op) /\ op \in Op /\ Len(Tail(queue[e])) <= Len(queue[e])
      /\ Less(queue[e], Tail(queue[e])) /\ In(queue[e], op)
      /\ Lone(queue[e], op) => ~In(Tail(queue[e]), op)
  BY Zenon, <1>1, LessTail
<1>3. /\ queue' \in [End -> Seq(Op)] /\ queue'[e] = Tail(queue[e])
      /\ \A x \in End : x # e => queue'[x] = queue[x] /\ writer'[x] = writer[x]
      /\ writer'[e] = "exited" \/ writer'[e] = op
      /\ wire' = wire
  BY <1>2 DEF TypeOK, WriterTakes
<1>4. "exited" \notin Op
  BY DEF Op
<1> HIDE DEF op
<1>5. \A x \in End : x # e => \A o \in Op : Fewer(x, o)
  BY Zenon, <1>3, LessSame, ShrinksFewer DEF Shrinks
<1>6. \A o \in Op : Fewer(e, o)
  <2>1. CASE writer'[e] = "exited"
    BY Zenon, <1>2, <1>3, <1>4, <2>1, LessSame, ShrinksFewer DEF Shrinks
  <2>2. CASE writer'[e] = op
    <3> SUFFICES ASSUME NEW o \in Op PROVE Fewer(e, o)
      OBVIOUS
    <3>1. /\ In(queue'[e], o) => In(queue[e], o)
          /\ Lone(queue[e], o) => Lone(queue'[e], o)
      BY Zenon, <1>2, <1>3 DEF Less
    <3>2. Held(e, o)' => In(queue[e], o)
      BY Zenon, <1>2, <2>2, <3>1 DEF Held
    <3> QED
      BY Zenon, <1>2, <1>3, <2>2, <3>1, <3>2 DEF Fewer, Single, Held
  <2> QED
    BY Zenon, <1>3, <2>1, <2>2
<1>7. \A x \in End : Len(queue'[x]) <= MaxFrames
  <2>1. \A x \in End : Len(queue[x]) <= MaxFrames
    BY Zenon DEF TypeOK
  <2>2. Len(queue'[e]) <= MaxFrames
    BY <1>1, <1>2, <1>3, <2>1, ControlAssumption
  <2> QED
    BY Zenon, <1>3, <2>1, <2>2
<1> QED
  BY Zenon, <1>2, <1>3, <1>5, <1>6, <1>7 DEF AllFewer

\* The frames of this kind from e become no more; one may be written.
Kept(e, op) ==
    /\ Single(e, op) => Single(e, op)'
    /\ Held(e, op)' => Held(e, op)
    /\ Sent(e, op)' => Sent(e, op)

AllKept == \A e \in End, op \in Op : Kept(e, op)

LEMMA FewerKept ==
    ASSUME AllFewer
    PROVE  AllKept
  BY Zenon DEF AllFewer, AllKept, Fewer, Kept, Sent

\* The writer writes its frame, or finds the connection over.
LEMMA WritesKept ==
    ASSUME TypeOK, NEW e \in End, NEW op \in Op, writer[e] = op, WriterWrites(e)
    PROVE  /\ AllKept /\ wire' \in [End -> Seq(Op)]
           /\ \A x \in End, o \in Op :
                In(wire[x], o)' => In(wire[x], o) \/ (x = e /\ o = op /\ ~down[e])
           /\ Single(e, op) => ~Held(e, op)'
<1>1. wire[e] \in Seq(Op) /\ "idle" \notin Op
  BY DEF TypeOK, Op
<1>2. /\ queue' = queue /\ writer'[e] = "idle"
      /\ \A x \in End : x # e => writer'[x] = writer[x]
  BY DEF TypeOK, WriterWrites
<1>3. Single(e, op) => ~Held(e, op)'
  BY Zenon, <1>1, <1>2 DEF Single, Held
<1>4. CASE down[e]
  <2>1. wire' = wire
    BY Zenon, <1>4 DEF WriterWrites
  <2>2. AllFewer
    BY Zenon, <1>1, <1>2, <2>1, LessSame, AllShrinkFewer DEF Shrinks
  <2>3. wire' \in [End -> Seq(Op)]
    BY Zenon, <2>1 DEF TypeOK
  <2> QED
    BY Zenon, <1>3, <2>1, <2>2, <2>3, FewerKept
<1>5. CASE ~down[e]
  <2>1. /\ Append(wire[e], op) \in Seq(Op)
        /\ \A o : In(Append(wire[e], op), o) <=> In(wire[e], o) \/ o = op
        /\ \A o : Lone(wire[e], o) /\ o # op => Lone(Append(wire[e], op), o)
        /\ ~In(wire[e], op) => Lone(Append(wire[e], op), op)
    BY Zenon, <1>1, AddFrame
  <2>2. wire' = [wire EXCEPT ![e] = Append(@, op)]
    BY Zenon, <1>5 DEF WriterWrites
  <2>3. /\ wire' \in [End -> Seq(Op)] /\ wire'[e] = Append(wire[e], op)
        /\ \A x \in End : x # e => wire'[x] = wire[x]
    BY <2>1, <2>2 DEF TypeOK
  <2>4. \A x \in End : x # e => \A o \in Op : Kept(x, o)
    BY Zenon, <1>2, <2>3 DEF Kept, Single, Sent, Held
  <2>5. \A o \in Op : o # op => Kept(e, o)
    BY Zenon, <1>1, <1>2, <2>1, <2>3 DEF Kept, Single, Sent, Held
  <2>6. Kept(e, op)
    <3>1. Held(e, op)
      BY Zenon DEF Held
    <3>2. Single(e, op) => Single(e, op)'
      BY Zenon, <1>2, <1>3, <2>1, <2>3, <3>1 DEF Single, Held
    <3> QED
      BY Zenon, <3>1, <3>2 DEF Kept, Sent
  <2> QED
    BY Zenon, <1>3, <1>5, <2>1, <2>3, <2>4, <2>5, <2>6 DEF AllKept
<1> QED
  BY <1>4, <1>5

LEMMA HaltsBound ==
    ASSUME TypeOK, NEW e \in End, Halts(e)
    PROVE  \A x \in End : Len(queue'[x]) <= MaxFrames
<1>1. Len(<<>>) <= MaxFrames
  BY ControlAssumption
<1> QED
  BY Zenon, <1>1 DEF TypeOK, Halts

\* write did not take the frame: at most, the session ended.
Denied(e) ==
    /\ AllFewer /\ Ends(e, "exhausted") /\ Halts(e) /\ Drops(e)
    /\ stopped'[e] => stopped[e] \/ down'[e]
    /\ \A x \in End : Len(queue'[x]) <= MaxFrames
    /\ wire' \in [End -> Seq(Op)] /\ writer' = writer /\ exhausted' \in [End -> BOOLEAN]

\* write took the frame.
Granted(e, op) ==
    /\ Puts(e, op)
    /\ queue' \in [End -> Seq(Op)] /\ \A x \in End : Len(queue'[x]) <= MaxFrames
    /\ wire' \in [End -> Seq(Op)]
    /\ fate' \in [End -> [Op -> {"none", "queued", "err"}]]
    /\ \A x \in End, o \in Op : fate'[x][o] = fate[x][o] \/ (x = e /\ o = op /\ fate'[x][o] = "queued")
    /\ UNCHANGED <<session, stopped, writer, exhausted, down>>

LEMMA DeniedIs ==
    ASSUME TypeOK, NEW e \in End, NEW w \in [End -> Seq(Op)], \A x \in End : Less(wire[x], w[x]),
           Refused(e, w) \/ Exhausted(e, w)
    PROVE  Denied(e)
  BY Zenon, RefusedIs, HaltsFewer, HaltsBound DEF Denied

LEMMA QueuedIs ==
    ASSUME TypeOK, NEW e \in End, NEW op \in Op,
           NEW w \in [End -> Seq(Op)], \A x \in End : Less(wire[x], w[x]), Queued(e, op, w)
    PROVE  Granted(e, op) /\ fate'[e][op] = "queued" /\ (In(wire[e], op)' => In(wire[e], op))
<1>1. /\ fate' \in [End -> [Op -> {"none", "queued", "err"}]] /\ fate'[e][op] = "queued"
      /\ \A x \in End, o \in Op : x # e \/ o # op => fate'[x][o] = fate[x][o]
  BY DEF TypeOK, Queued
<1>2. wire' = w /\ UNCHANGED <<session, stopped, writer, exhausted, down>>
  BY Zenon DEF Queued, NoAbort
<1>3. /\ Puts(e, op) /\ (In(wire[e], op)' => In(wire[e], op))
      /\ queue' \in [End -> Seq(Op)] /\ \A x \in End : Len(queue'[x]) <= MaxFrames
  BY Zenon, QueuedPuts
<1> QED
  BY Zenon, <1>1, <1>2, <1>3 DEF Granted

LEMMA DirectIs ==
    ASSUME TypeOK, NEW e \in End, NEW op \in Op, Direct(e, op)
    PROVE  Granted(e, op)
<1>1. UNCHANGED <<session, stopped, writer, exhausted, down>> /\ queue' = queue /\ fate' = fate
  BY Zenon DEF Direct, NoAbort
<1> QED
  BY Zenon, <1>1, DirectPuts DEF TypeOK, Granted

\* The loop answers a frame.
LEMMA AnswerIs ==
    ASSUME TypeOK, NEW e \in End, NEW in \in Op, NEW op \in Op, NEW label,
           Arrived(e, in), Answer(e, op, label)
    PROVE  \/ Denied(e) /\ wire' = Rest(e) /\ loop' = [loop EXCEPT ![e] = "exited"]
           \/ /\ Granted(e, op) /\ wire' = Rest(e) /\ loop' = [loop EXCEPT ![e] = label]
              /\ fate'[e][op] = "queued" /\ (In(wire[e], op)' => In(wire[e], op))
<1>1. Rest(e) \in [End -> Seq(Op)] /\ \A x \in End : Less(wire[x], Rest(e)[x])
  BY Zenon, TakenFrame
<1>2. CASE (Refused(e, Rest(e)) \/ Exhausted(e, Rest(e))) /\ loop' = [loop EXCEPT ![e] = "exited"]
  <2>1. wire' = Rest(e)
    BY Zenon, <1>2 DEF Refused, Exhausted
  <2> QED
    BY Zenon, <1>1, <1>2, <2>1, DeniedIs
<1>3. CASE Queued(e, op, Rest(e)) /\ loop' = [loop EXCEPT ![e] = label]
  <2>1. wire' = Rest(e)
    BY Zenon, <1>3 DEF Queued
  <2> QED
    BY Zenon, <1>1, <1>3, <2>1, QueuedIs
<1> QED
  BY Zenon, <1>2, <1>3 DEF Answer, Rest

\* A caller writes a frame.
LEMMA WriteIs ==
    ASSUME TypeOK, NEW e \in End, NEW op \in Op
    PROVE  /\ Refused(e, wire) \/ Exhausted(e, wire) => Denied(e)
           /\ Direct(e, op) \/ Queued(e, op, wire) => Granted(e, op)
<1>1. wire \in [End -> Seq(Op)] /\ \A x \in End : Less(wire[x], wire[x])
  BY Zenon, LessSame DEF TypeOK
<1> QED
  BY Zenon, <1>1, DeniedIs, DirectIs, QueuedIs

\* The actions that add and write no frame.
LEMMA StepFewer ==
    ASSUME TypeOK, NEW e \in End,
           \/ StartControl(e) \/ WriterTakes(e) \/ WriterExits(e)
           \/ OnRefreshResult(e) \/ OnCloseAck(e) \/ LoopAcked(e) \/ FinishClose(e) \/ Suspend(e)
    PROVE  AllFewer
<1>1. CASE StartControl(e)
  <2>1. "none" \notin Op /\ "idle" \notin Op
    BY DEF Op
  <2>2. queue' = queue /\ wire' = wire /\ \A x \in End : writer'[x] = writer[x] \/ writer'[x] \notin Op
    BY <1>1, <2>1 DEF StartControl, TypeOK
  <2> QED
    BY Zenon, <2>2, LessSame, AllShrinkFewer DEF Shrinks
<1>2. CASE WriterTakes(e)
  BY Zenon, <1>2, TakesFewer
<1>3. CASE WriterExits(e)
  <2>1. "exited" \notin Op
    BY DEF Op
  <2>2. queue' = queue /\ wire' = wire /\ \A x \in End : writer'[x] = writer[x] \/ writer'[x] \notin Op
    BY <1>3, <2>1 DEF WriterExits, TypeOK
  <2> QED
    BY Zenon, <2>2, LessSame, AllShrinkFewer DEF Shrinks
<1>4. ASSUME NEW op \in Op, Consume(e, op), Halts(e), writer' = writer PROVE AllFewer
  BY Zenon, <1>4, TakenFrame, HaltsFewer DEF Consume, Rest
<1>5. "violation" \in {"peer", "exhausted", "violation"} /\ "peer" \in {"peer", "exhausted", "violation"}
      /\ "refresh_result" \in Op /\ "close_ack" \in Op
  BY DEF Op
<1>6. ASSUME Abort(e, "violation") \/ (NoAbort /\ UNCHANGED <<queue, fate>>) PROVE Halts(e)
  BY Zenon, <1>5, <1>6, AbortIs, SameHalts DEF NoAbort
<1>7. CASE OnRefreshResult(e)
  BY Zenon, <1>4, <1>5, <1>6, <1>7 DEF OnRefreshResult
<1>8. CASE OnCloseAck(e)
  BY Zenon, <1>4, <1>5, <1>6, <1>8 DEF OnCloseAck
<1>9. CASE LoopAcked(e)
  BY Zenon, <1>5, <1>9, EndSessionIs, SameWireFewer DEF LoopAcked
<1>10. CASE FinishClose(e)
  BY Zenon, <1>10, StopHalts, SameWireFewer DEF FinishClose
<1>11. CASE Suspend(e)
  BY Zenon, <1>11, StopHalts, SameWireFewer DEF Suspend
<1> QED
  BY <1>1, <1>2, <1>3, <1>7, <1>8, <1>9, <1>10, <1>11

-------------------------------------------------------------------------------
(* One step per action. *)

\* What is over stays over.
Onward ==
    \A x \in End :
        /\ down[x] => down'[x]
        /\ loop[x] = "exited" => loop'[x] = "exited"
        /\ state[x] = "closed" => state'[x] = "closed"

\* No action undoes the end of a connection, a loop or a session.
LEMMA OnwardStep ==
    ASSUME IInv, [Next]_vars
    PROVE  Onward
<1> USE DEF session, control, refresh, closing
<1>1. ASSUME UNCHANGED <<down, loop, state>> PROVE Onward
  BY Zenon, <1>1 DEF Onward
<1>2. ASSUME NEW e \in End, StartControl(e) PROVE Onward
  BY <1>2 DEF StartControl, IInv, TypeOK, Onward
<1>3. ASSUME NEW e \in End, WriterTakes(e) \/ WriterWrites(e) \/ WriterExits(e)
                            \/ CloseFailed(e) \/ Acknowledged(e) \/ CloseTimeout(e)
      PROVE  Onward
  BY Zenon, <1>1, <1>3 DEF WriterTakes, WriterWrites, WriterExits, CloseFailed, Acknowledged,
     CloseTimeout
<1>4. ASSUME NEW e \in End, OnRefresh(e) PROVE Onward
  <2>0. Arrived(e, "refresh") /\ Answer(e, "refresh_result", "replying")
    BY Zenon, <1>4 DEF OnRefresh
  <2>1. "refresh" \in Op /\ "refresh_result" \in Op /\ TypeOK
    BY DEF IInv, Op
  <2>2. \/ Denied(e) /\ loop' = [loop EXCEPT ![e] = "exited"]
        \/ Granted(e, "refresh_result") /\ loop' = [loop EXCEPT ![e] = "replying"]
    BY Zenon, <2>1, <2>0, AnswerIs
  <2>3. \A x \in End : loop[x] = "exited" => loop'[x] = "exited"
    BY <1>4, <2>1, <2>2 DEF OnRefresh, Arrived, TypeOK
  <2> QED
    BY Zenon, <2>2, <2>3 DEF Denied, Granted, Ends, Drops, Onward
<1>5. ASSUME NEW e \in End, OnRefreshResult(e) PROVE Onward
  <2>1. "violation" \in {"peer", "exhausted", "violation"} /\ TypeOK
    BY DEF IInv
  <2>2. \A x \in End : loop[x] = "exited" => loop'[x] = "exited"
    BY <1>5, <2>1 DEF OnRefreshResult, Consume, Arrived, TypeOK
  <2>3. CASE Abort(e, "violation")
    BY Zenon, <2>1, <2>2, <2>3, AbortIs DEF Ends, Drops, Onward
  <2>4. CASE NoAbort
    BY Zenon, <2>2, <2>4 DEF NoAbort, Onward
  <2> QED
    BY Zenon, <1>5, <2>3, <2>4 DEF OnRefreshResult
<1>6. ASSUME NEW e \in End, OnClose(e) PROVE Onward
  <2>0. Arrived(e, "close") /\ Answer(e, "close_ack", "acking")
    BY Zenon, <1>6 DEF OnClose
  <2>1. "close" \in Op /\ "close_ack" \in Op /\ TypeOK
    BY DEF IInv, Op
  <2>2. \/ Denied(e) /\ loop' = [loop EXCEPT ![e] = "exited"]
        \/ Granted(e, "close_ack") /\ loop' = [loop EXCEPT ![e] = "acking"]
    BY Zenon, <2>1, <2>0, AnswerIs
  <2>3. \A x \in End : loop[x] = "exited" => loop'[x] = "exited"
    BY <1>6, <2>1, <2>2 DEF OnClose, Arrived, TypeOK
  <2> QED
    BY Zenon, <2>2, <2>3 DEF Denied, Granted, Ends, Drops, Onward
<1>7. ASSUME NEW e \in End, OnCloseAck(e) PROVE Onward
  <2>1. "violation" \in {"peer", "exhausted", "violation"} /\ TypeOK
    BY DEF IInv
  <2>2. \A x \in End : loop[x] = "exited" => loop'[x] = "exited"
    BY <1>7, <2>1 DEF OnCloseAck, Consume, Arrived, TypeOK
  <2>3. CASE Abort(e, "violation")
    BY Zenon, <2>1, <2>2, <2>3, AbortIs DEF Ends, Drops, Onward
  <2>4. CASE NoAbort
    BY Zenon, <2>2, <2>4 DEF NoAbort, Onward
  <2> QED
    BY Zenon, <1>7, <2>3, <2>4 DEF OnCloseAck
<1>8. ASSUME NEW e \in End, LoopReplied(e) PROVE Onward
  BY <1>8 DEF LoopReplied, IInv, TypeOK, Onward
<1>9. ASSUME NEW e \in End, LoopAcked(e) PROVE Onward
  <2>1. "peer" \in {"peer", "exhausted", "violation"} /\ TypeOK
    BY DEF IInv
  <2>2. \A x \in End : loop[x] = "exited" => loop'[x] = "exited"
    BY <1>9, <2>1 DEF LoopAcked, TypeOK
  <2> QED
    BY Zenon, <1>9, <2>1, <2>2, EndSessionIs DEF LoopAcked, Ends, Onward
<1>10. ASSUME NEW e \in End, LoopFailed(e) PROVE Onward
  BY <1>10 DEF LoopFailed, IInv, TypeOK, Onward
<1>11. ASSUME NEW e \in End, WriteClose(e) PROVE Onward
  <2>1. "close" \in Op /\ "client" \in End /\ TypeOK
    BY DEF IInv, Op, End
  <2>2. Denied(e) \/ Granted(e, "close")
    BY Zenon, <1>11, <2>1, WriteIs DEF WriteClose
  <2> QED
    BY Zenon, <1>11, <2>2 DEF WriteClose, Denied, Granted, Ends, Drops, Onward
<1>12. ASSUME NEW e \in End, FinishClose(e) PROVE Onward
  BY Zenon, <1>12 DEF FinishClose, IInv, TypeOK, Onward
<1>13. ASSUME NEW e \in End, CallClose(e) PROVE Onward
  BY <1>13 DEF CallClose, IInv, TypeOK, Onward
<1>14. ASSUME NEW e \in End, GoesDown(e) PROVE Onward
  BY Zenon, <1>14 DEF GoesDown, IInv, TypeOK, Onward
<1>15. ASSUME NEW e \in End, Suspend(e) PROVE Onward
  BY <1>15 DEF Suspend, IInv, TypeOK, Onward
<1>16. CASE CallRefresh
  <2>1. "refresh" \in Op /\ "client" \in End /\ TypeOK
    BY DEF IInv, Op, End
  <2>2. Denied("client") \/ Granted("client", "refresh")
    BY Zenon, <1>16, <2>1, WriteIs DEF CallRefresh
  <2> QED
    BY Zenon, <1>16, <2>2 DEF CallRefresh, Denied, Granted, Ends, Drops, Onward
<1>17. CASE RefreshFailed \/ RefreshReturns \/ RefreshAbandoned \/ Done \/ UNCHANGED vars
  BY Zenon, <1>1, <1>17 DEF RefreshFailed, RefreshReturns, RefreshAbandoned, Done, vars
<1> HIDE DEF session, control, refresh, closing
<1> QED
  BY Zenon, <1>2, <1>3, <1>4, <1>5, <1>6, <1>7, <1>8, <1>9, <1>10, <1>11,
     <1>12, <1>13, <1>14, <1>15, <1>16, <1>17
  DEF Next, Writer, Loop, Closer, Refresher

\* The types in three parts.
TypedSession ==
    /\ state \in [End -> {"active", "suspended", "closed"}]
    /\ code \in [End -> {"none", "normal", "peer", "exhausted", "violation"}]
    /\ emitted \in [End -> Nat]

TypedFrames ==
    /\ queue \in [End -> Seq(Op)] /\ wire \in [End -> Seq(Op)]
    /\ \A e \in End : Len(queue[e]) <= MaxFrames
    /\ stopped \in [End -> BOOLEAN] /\ down \in [End -> BOOLEAN] /\ exhausted \in [End -> BOOLEAN]
    /\ writer \in [End -> Op \cup {"none", "idle", "exited"}]
    /\ fate \in [End -> [Op -> {"none", "queued", "err"}]]

TypedCalls ==
    /\ loop \in [End -> {"none", "reading", "replying", "acking", "exited"}]
    /\ refresher \in {"idle", "waiting"}
    /\ refreshReply \in {"nil", "caller", "gone"} /\ result \in BOOLEAN
    /\ closer \in [End -> {"idle", "start", "waiting", "acked", "gaveUp", "done"}]
    /\ closeAck \in [End -> {"nil", "open", "closed"}]

LEMMA TypeParts ==
    ASSUME TypedSession', TypedFrames', TypedCalls'
    PROVE  TypeOK'
  BY Zenon DEF TypeOK, TypedSession, TypedFrames, TypedCalls

LEMMA WriteTyped ==
    ASSUME TypeOK, NEW e \in End, NEW op \in Op, Denied(e) \/ Granted(e, op)
    PROVE  TypedSession' /\ TypedFrames'
<1>1. CASE Denied(e)
  <2>1. TypedSession'
    BY Zenon, <1>1 DEF Denied, Ends, TypedSession
  <2>2. queue' \in [End -> Seq(Op)] /\ stopped' \in [End -> BOOLEAN] /\ down' \in [End -> BOOLEAN]
        /\ fate' \in [End -> [Op -> {"none", "queued", "err"}]]
    BY Zenon, <1>1 DEF Denied, Halts, Drops
  <2>3. writer' \in [End -> Op \cup {"none", "idle", "exited"}]
    BY Zenon, <1>1 DEF Denied, TypeOK
  <2>4. TypedFrames'
    BY Zenon, <1>1, <2>2, <2>3 DEF Denied, TypedFrames
  <2> QED
    BY <2>1, <2>4
<1>2. CASE Granted(e, op)
  <2>1. TypedSession'
    BY Zenon, <1>2 DEF Granted, TypeOK, TypedSession, session
  <2>2. /\ stopped' \in [End -> BOOLEAN] /\ down' \in [End -> BOOLEAN]
        /\ exhausted' \in [End -> BOOLEAN]
        /\ writer' \in [End -> Op \cup {"none", "idle", "exited"}]
    BY Zenon, <1>2 DEF Granted, TypeOK
  <2>3. TypedFrames'
    BY Zenon, <1>2, <2>2 DEF Granted, TypedFrames
  <2> QED
    BY <2>1, <2>3
<1> QED
  BY <1>1, <1>2

LEMMA HaltsTyped ==
    ASSUME TypeOK, NEW e \in End, Halts(e), wire' \in [End -> Seq(Op)], down' \in [End -> BOOLEAN],
           UNCHANGED <<writer, exhausted>>
    PROVE  TypedFrames'
<1>1. queue' \in [End -> Seq(Op)] /\ stopped' \in [End -> BOOLEAN]
      /\ fate' \in [End -> [Op -> {"none", "queued", "err"}]]
  BY Zenon DEF Halts
<1>2. exhausted' \in [End -> BOOLEAN] /\ writer' \in [End -> Op \cup {"none", "idle", "exited"}]
  BY Zenon DEF TypeOK
<1> QED
  BY Zenon, <1>1, <1>2, HaltsBound DEF TypedFrames

\* The writer reports on a frame.
LEMMA InformIs ==
    ASSUME TypeOK, NEW e \in End, NEW op \in Op, NEW f \in {"none", "err"}, Inform(e, op, f)
    PROVE  /\ fate' \in [End -> [Op -> {"none", "queued", "err"}]]
           /\ fate[e][op] = "queued" => fate'[e][op] = f
           /\ \A x \in End, o \in Op :
                fate'[x][o] = fate[x][o] \/ (x = e /\ o = op /\ fate'[x][o] = f)
  BY DEF Inform, TypeOK

\* Every action preserves the types and the limit of the write queue.
LEMMA TypeStep ==
    ASSUME IInv, [Next]_vars
    PROVE  TypeOK'
<1> USE DEF session, control, refresh, closing
<1>1. ASSUME NEW e \in End, StartControl(e) PROVE TypeOK'
  BY <1>1 DEF StartControl, IInv, TypeOK
<1>2. ASSUME NEW e \in End, WriterTakes(e) PROVE TypeOK'
  <2>1. /\ queue' \in [End -> Seq(Op)] /\ writer'[e] \in Op \cup {"exited"}
        /\ \A x \in End : Len(queue'[x]) <= MaxFrames
    BY Zenon, <1>2, TakesFewer DEF IInv
  <2>2. queue[e] \in Seq(Op) /\ queue[e] # <<>>
    BY <1>2 DEF WriterTakes, IInv, TypeOK
  <2>3. Head(queue[e]) \in Op
    BY Zenon, <2>2, LessTail
  <2>4. writer' \in [End -> Op \cup {"none", "idle", "exited"}]
    BY <1>2, <2>3 DEF WriterTakes, IInv, TypeOK
  <2>5. fate' \in [End -> [Op -> {"none", "queued", "err"}]]
    BY Zenon, <1>2, <2>3, InformIs DEF WriterTakes, IInv, TypeOK
  <2> QED
    BY Zenon, <1>2, <2>1, <2>4, <2>5 DEF WriterTakes, IInv, TypeOK
<1>3. ASSUME NEW e \in End, WriterWrites(e) PROVE TypeOK'
  <2>1. wire' \in [End -> Seq(Op)]
    BY Zenon, <1>3, WritesKept DEF WriterWrites, IInv
  <2>2. writer' \in [End -> Op \cup {"none", "idle", "exited"}]
    BY <1>3 DEF WriterWrites, IInv, TypeOK
  <2>3. fate' \in [End -> [Op -> {"none", "queued", "err"}]]
    BY <1>3 DEF WriterWrites, Inform, IInv, TypeOK
  <2> QED
    BY Zenon, <1>3, <2>1, <2>2, <2>3 DEF WriterWrites, IInv, TypeOK
<1>4. ASSUME NEW e \in End, WriterExits(e) PROVE TypeOK'
  BY <1>4 DEF WriterExits, IInv, TypeOK
<1>5. ASSUME NEW e \in End, OnRefresh(e) PROVE TypeOK'
  <2>0. Arrived(e, "refresh") /\ Answer(e, "refresh_result", "replying")
    BY Zenon, <1>5 DEF OnRefresh
  <2>1. "refresh" \in Op /\ "refresh_result" \in Op /\ TypeOK
    BY DEF IInv, Op
  <2>2. \/ Denied(e) /\ loop' = [loop EXCEPT ![e] = "exited"]
        \/ Granted(e, "refresh_result") /\ loop' = [loop EXCEPT ![e] = "replying"]
    BY Zenon, <2>1, <2>0, AnswerIs
  <2>3. loop' \in [End -> {"none", "reading", "replying", "acking", "exited"}]
    BY Zenon, <2>1, <2>2 DEF TypeOK
  <2>4. TypedCalls'
    BY Zenon, <1>5, <2>1, <2>3 DEF OnRefresh, TypeOK, TypedCalls
  <2>5. TypedSession' /\ TypedFrames'
    BY Zenon, <2>1, <2>2, WriteTyped
  <2> QED
    BY Zenon, <2>4, <2>5, TypeParts
<1>6. ASSUME NEW e \in End, OnRefreshResult(e) PROVE TypeOK'
  <2>1. "violation" \in {"peer", "exhausted", "violation"} /\ "refresh_result" \in Op /\ TypeOK
    BY DEF IInv, Op
  <2>2. loop' \in [End -> {"none", "reading", "replying", "acking", "exited"}]
    BY Zenon, <1>6, <2>1 DEF OnRefreshResult, TypeOK
  <2>3. wire' \in [End -> Seq(Op)]
    BY Zenon, <1>6, <2>1, TakenFrame DEF OnRefreshResult, Consume, Rest
  <2>4. refreshReply' \in {"nil", "caller", "gone"} /\ result' \in BOOLEAN
    <3>1. result' \in BOOLEAN
      BY Zenon, <1>6, <2>1 DEF OnRefreshResult, TypeOK
    <3>2. refreshReply' \in {"nil", "caller", "gone"}
      BY <1>6, <2>1 DEF OnRefreshResult, TypeOK
    <3> QED
      BY <3>1, <3>2
  <2>5. Ends(e, "violation") /\ Halts(e) /\ Drops(e)
    <3>1. CASE Abort(e, "violation")
      BY Zenon, <2>1, <3>1, AbortIs
    <3>2. CASE NoAbort /\ UNCHANGED <<queue, fate>>
      BY Zenon, <2>1, <3>2, SameEnds, SameHalts DEF NoAbort, Drops, TypeOK
    <3> QED
      BY Zenon, <1>6, <3>1, <3>2 DEF OnRefreshResult
  <2>6. TypedFrames'
    BY Zenon, <1>6, <2>1, <2>3, <2>5, HaltsTyped DEF OnRefreshResult, Drops
  <2>7. TypedSession'
    BY Zenon, <2>5 DEF Ends, TypedSession
  <2>8. TypedCalls'
    BY Zenon, <1>6, <2>1, <2>2, <2>4 DEF OnRefreshResult, TypeOK, TypedCalls
  <2> QED
    BY Zenon, <2>6, <2>7, <2>8, TypeParts
<1>7. ASSUME NEW e \in End, OnClose(e) PROVE TypeOK'
  <2>0. Arrived(e, "close") /\ Answer(e, "close_ack", "acking")
    BY Zenon, <1>7 DEF OnClose
  <2>1. "close" \in Op /\ "close_ack" \in Op /\ TypeOK
    BY DEF IInv, Op
  <2>2. \/ Denied(e) /\ loop' = [loop EXCEPT ![e] = "exited"]
        \/ Granted(e, "close_ack") /\ loop' = [loop EXCEPT ![e] = "acking"]
    BY Zenon, <2>1, <2>0, AnswerIs
  <2>3. loop' \in [End -> {"none", "reading", "replying", "acking", "exited"}]
    BY Zenon, <2>1, <2>2 DEF TypeOK
  <2>4. TypedCalls'
    BY Zenon, <1>7, <2>1, <2>3 DEF OnClose, TypeOK, TypedCalls
  <2>5. TypedSession' /\ TypedFrames'
    BY Zenon, <2>1, <2>2, WriteTyped
  <2> QED
    BY Zenon, <2>4, <2>5, TypeParts
<1>8. ASSUME NEW e \in End, OnCloseAck(e) PROVE TypeOK'
  <2>1. "violation" \in {"peer", "exhausted", "violation"} /\ "close_ack" \in Op /\ TypeOK
    BY DEF IInv, Op
  <2>2. loop' \in [End -> {"none", "reading", "replying", "acking", "exited"}]
    BY Zenon, <1>8, <2>1 DEF OnCloseAck, TypeOK
  <2>3. wire' \in [End -> Seq(Op)]
    BY Zenon, <1>8, <2>1, TakenFrame DEF OnCloseAck, Consume, Rest
  <2>4. closeAck' \in [End -> {"nil", "open", "closed"}]
    BY Zenon, <1>8, <2>1 DEF OnCloseAck, TypeOK
  <2>5. Ends(e, "violation") /\ Halts(e) /\ Drops(e)
    <3>1. CASE Abort(e, "violation")
      BY Zenon, <2>1, <3>1, AbortIs
    <3>2. CASE NoAbort /\ UNCHANGED <<queue, fate>>
      BY Zenon, <2>1, <3>2, SameEnds, SameHalts DEF NoAbort, Drops, TypeOK
    <3> QED
      BY Zenon, <1>8, <3>1, <3>2 DEF OnCloseAck
  <2>6. TypedFrames'
    BY Zenon, <1>8, <2>1, <2>3, <2>5, HaltsTyped DEF OnCloseAck, Drops
  <2>7. TypedSession'
    BY Zenon, <2>5 DEF Ends, TypedSession
  <2>8. TypedCalls'
    BY Zenon, <1>8, <2>1, <2>2, <2>4 DEF OnCloseAck, TypeOK, TypedCalls
  <2> QED
    BY Zenon, <2>6, <2>7, <2>8, TypeParts
<1>9. ASSUME NEW e \in End, LoopReplied(e) PROVE TypeOK'
  BY <1>9 DEF LoopReplied, IInv, TypeOK
<1>10. ASSUME NEW e \in End, LoopAcked(e) PROVE TypeOK'
  <2>1. "peer" \in {"peer", "exhausted", "violation"} /\ TypeOK
    BY DEF IInv
  <2>2. loop' \in [End -> {"none", "reading", "replying", "acking", "exited"}]
    BY Zenon, <1>10, <2>1 DEF LoopAcked, TypeOK
  <2>3. Ends(e, "peer") /\ Halts(e)
    BY Zenon, <1>10, <2>1, EndSessionIs DEF LoopAcked
  <2>4. TypedFrames'
    BY Zenon, <1>10, <2>1, <2>3, HaltsTyped DEF LoopAcked, TypeOK
  <2>5. TypedSession'
    BY Zenon, <2>3 DEF Ends, TypedSession
  <2>6. TypedCalls'
    BY Zenon, <1>10, <2>1, <2>2 DEF LoopAcked, TypeOK, TypedCalls
  <2> QED
    BY Zenon, <2>4, <2>5, <2>6, TypeParts
<1>11. ASSUME NEW e \in End, LoopFailed(e) PROVE TypeOK'
  BY <1>11 DEF LoopFailed, IInv, TypeOK
<1>12. ASSUME NEW e \in End, WriteClose(e) PROVE TypeOK'
  <2>1. "close" \in Op /\ "client" \in End /\ TypeOK
    BY DEF IInv, Op, End
  <2>2. Denied(e) \/ Granted(e, "close")
    BY Zenon, <1>12, <2>1, WriteIs DEF WriteClose
  <2>3. closer' \in [End -> {"idle", "start", "waiting", "acked", "gaveUp", "done"}]
    BY Zenon, <1>12, <2>1 DEF WriteClose, TypeOK
  <2>4. TypedCalls'
    BY Zenon, <1>12, <2>1, <2>3 DEF WriteClose, TypeOK, TypedCalls
  <2>5. TypedSession' /\ TypedFrames'
    BY Zenon, <2>1, <2>2, WriteTyped
  <2> QED
    BY Zenon, <2>4, <2>5, TypeParts
<1>13. ASSUME NEW e \in End, CloseFailed(e) PROVE TypeOK'
  <2>1. /\ fate' \in [End -> [Op -> {"none", "queued", "err"}]]
        /\ closer' \in [End -> {"idle", "start", "waiting", "acked", "gaveUp", "done"}]
    BY <1>13 DEF CloseFailed, Forget, IInv, TypeOK, End, Op
  <2> QED
    BY Zenon, <1>13, <2>1 DEF CloseFailed, IInv, TypeOK
<1>14. ASSUME NEW e \in End, Acknowledged(e) PROVE TypeOK'
  BY <1>14 DEF Acknowledged, IInv, TypeOK
<1>15. ASSUME NEW e \in End, FinishClose(e) PROVE TypeOK'
  <2>1. down' \in [End -> BOOLEAN]
    BY Zenon, <1>15 DEF FinishClose, IInv, TypeOK
  <2>2. /\ emitted' \in [End -> Nat]
        /\ closer' \in [End -> {"idle", "start", "waiting", "acked", "gaveUp", "done"}]
        /\ closeAck' \in [End -> {"nil", "open", "closed"}]
    BY <1>15 DEF FinishClose, IInv, TypeOK
  <2>3. Halts(e)
    BY Zenon, <1>15, StopHalts DEF FinishClose, IInv
  <2>4. TypedFrames'
    BY Zenon, <1>15, <2>1, <2>3, HaltsTyped DEF FinishClose, IInv, TypeOK
  <2>5. TypedSession' /\ TypedCalls'
    BY Zenon, <1>15, <2>2 DEF FinishClose, IInv, TypeOK, TypedSession, TypedCalls
  <2> QED
    BY Zenon, <2>4, <2>5, TypeParts
<1>16. ASSUME NEW e \in End, CallClose(e) PROVE TypeOK'
  BY <1>16 DEF CallClose, IInv, TypeOK
<1>17. ASSUME NEW e \in End, CloseTimeout(e) PROVE TypeOK'
  BY <1>17 DEF CloseTimeout, IInv, TypeOK
<1>18. ASSUME NEW e \in End, GoesDown(e) PROVE TypeOK'
  <2>1. down' \in [End -> BOOLEAN]
    BY Zenon, <1>18 DEF GoesDown, IInv, TypeOK
  <2> QED
    BY Zenon, <1>18, <2>1 DEF GoesDown, IInv, TypeOK
<1>19. ASSUME NEW e \in End, Suspend(e) PROVE TypeOK'
  <2>1. state' \in [End -> {"active", "suspended", "closed"}]
    BY <1>19 DEF Suspend, IInv, TypeOK
  <2>2. Halts(e)
    BY Zenon, <1>19, StopHalts DEF Suspend, IInv
  <2>3. TypedFrames'
    BY Zenon, <1>19, <2>2, HaltsTyped DEF Suspend, IInv, TypeOK
  <2>4. TypedSession' /\ TypedCalls'
    BY Zenon, <1>19, <2>1 DEF Suspend, IInv, TypeOK, TypedSession, TypedCalls
  <2> QED
    BY Zenon, <2>3, <2>4, TypeParts
<1>20. CASE CallRefresh
  <2>1. "refresh" \in Op /\ "client" \in End /\ TypeOK
    BY DEF IInv, Op, End
  <2>2. Denied("client") \/ Granted("client", "refresh")
    BY Zenon, <1>20, <2>1, WriteIs DEF CallRefresh
  <2>3. refresher' \in {"idle", "waiting"} /\ refreshReply' \in {"nil", "caller", "gone"}
    BY <1>20, <2>1 DEF CallRefresh, TypeOK
  <2>4. TypedCalls'
    BY Zenon, <1>20, <2>1, <2>3 DEF CallRefresh, TypeOK, TypedCalls
  <2>5. TypedSession' /\ TypedFrames'
    BY Zenon, <2>1, <2>2, WriteTyped
  <2> QED
    BY Zenon, <2>4, <2>5, TypeParts
<1>21. CASE RefreshFailed
  <2>1. result' \in BOOLEAN
    BY Zenon, <1>21 DEF RefreshFailed
  <2>2. refresher' \in {"idle", "waiting"} /\ refreshReply' \in {"nil", "caller", "gone"}
    BY <1>21 DEF RefreshFailed, IInv, TypeOK
  <2>3. fate' \in [End -> [Op -> {"none", "queued", "err"}]]
    BY <1>21 DEF RefreshFailed, Forget, IInv, TypeOK, End, Op
  <2> QED
    BY Zenon, <1>21, <2>1, <2>2, <2>3 DEF RefreshFailed, IInv, TypeOK
<1>22. CASE RefreshReturns
  <2>1. result' \in BOOLEAN
    BY Zenon, <1>22 DEF RefreshReturns
  <2>2. refresher' \in {"idle", "waiting"} /\ refreshReply' \in {"nil", "caller", "gone"}
    BY <1>22 DEF RefreshReturns, IInv, TypeOK
  <2> QED
    BY Zenon, <1>22, <2>1, <2>2 DEF RefreshReturns, IInv, TypeOK
<1>23. CASE RefreshAbandoned
  <2>1. result' \in BOOLEAN
    BY Zenon, <1>23 DEF RefreshAbandoned
  <2>2. refresher' \in {"idle", "waiting"} /\ refreshReply' \in {"nil", "caller", "gone"}
    BY <1>23 DEF RefreshAbandoned, IInv, TypeOK
  <2> QED
    BY Zenon, <1>23, <2>1, <2>2 DEF RefreshAbandoned, IInv, TypeOK
<1>24. CASE Done
  BY Zenon, <1>24 DEF Done, vars, IInv, TypeOK
<1>25. CASE UNCHANGED vars
  BY Zenon, <1>25 DEF vars, IInv, TypeOK
<1> HIDE DEF session, control, refresh, closing
<1> QED
  BY Zenon, <1>1, <1>2, <1>3, <1>4, <1>5, <1>6, <1>7, <1>8, <1>9, <1>10,
     <1>11, <1>12, <1>13, <1>14, <1>15, <1>16, <1>17, <1>18, <1>19, <1>20,
     <1>21, <1>22, <1>23, <1>24, <1>25
  DEF Next, Writer, Loop, Closer, Refresher

\* No answer is unsolicited: a result finds a refresh active, and an
\* acknowledgement finds a Close waiting for it.
LEMMA Solicited ==
    ASSUME IInv, NEW e \in End
    PROVE  /\ OnRefreshResult(e) => e = "client" /\ refreshReply # "nil"
           /\ OnCloseAck(e) => closeAck[e] # "nil"
<1>1. TypeOK /\ "refresh_result" \in Op /\ "close_ack" \in Op
  BY DEF IInv, Op
<1>2. ASSUME OnRefreshResult(e) PROVE e = "client" /\ refreshReply # "nil"
  <2>1. loop[e] = "reading" /\ ~down[e] /\ In(wire[Peer(e)], "refresh_result")
    BY Zenon, <1>1, <1>2, TakenFrame DEF OnRefreshResult, Consume
  <2>2. ~In(wire["client"], "refresh_result")
    BY Zenon DEF IInv, Refreshing, Sent
  <2>3. e = "client" /\ Peer(e) = "server"
    BY <2>1, <2>2 DEF End, Peer
  <2> QED
    BY <2>1, <2>3 DEF IInv, Refreshing, Listening, Sent
<1>3. ASSUME OnCloseAck(e) PROVE closeAck[e] # "nil"
  <2>1. ~down[e] /\ In(wire[Peer(e)], "close_ack")
    BY Zenon, <1>1, <1>3, TakenFrame DEF OnCloseAck, Consume
  <2>2. closer[e] # "idle" /\ closer[e] # "done"
    BY Zenon, <2>1 DEF IInv, Closing, Sent
  <2> QED
    BY <1>1, <2>2 DEF IInv, TypeOK, Closing
<1> QED
  BY <1>2, <1>3

\* A writer is stopped, and a frame fails, only when the end is over.
LEMMA StoppingStep ==
    ASSUME IInv, [Next]_vars
    PROVE  Stopping'
<1> USE DEF session, control, refresh, closing
<1>1. ASSUME \A x \in End : /\ stopped[x] => stopped'[x]
                           /\ \/ stopped'[x] => stopped[x] \/ down'[x]
                              \/ state'[x] = "closed" /\ loop'[x] = "exited",
             \A x \in End, op \in Op :
               fate'[x][op] = "err" => fate[x][op] = "err" \/ stopped'[x] \/ down'[x]
      PROVE  Stopping'
  BY Zenon, <1>1, OnwardStep DEF Onward, IInv, Stopping, Over
<1>2. ASSUME UNCHANGED <<stopped, fate>> PROVE Stopping'
  BY Zenon, <1>1, <1>2
<1>3. ASSUME NEW e \in End, Halts(e),
             \/ stopped'[e] => stopped[e] \/ down'[e]
             \/ state'[e] = "closed" /\ loop'[e] = "exited"
      PROVE  Stopping'
  BY Zenon, <1>1, <1>3 DEF Halts
<1>4. ASSUME NEW e \in End, StartControl(e) \/ WriterExits(e) \/ LoopReplied(e) \/ LoopFailed(e)
                            \/ Acknowledged(e) \/ CallClose(e) \/ CloseTimeout(e) \/ GoesDown(e)
      PROVE  Stopping'
  BY Zenon, <1>2, <1>4 DEF StartControl, WriterExits, LoopReplied, LoopFailed, Acknowledged,
     CallClose, CloseTimeout, GoesDown
<1>5. ASSUME NEW e \in End, WriterTakes(e) PROVE Stopping'
  <2>1. Head(queue[e]) \in Op /\ "err" \in {"none", "err"}
    BY Zenon, <1>5, LessTail DEF WriterTakes, IInv, TypeOK
  <2>2. \A x \in End, op \in Op :
          fate'[x][op] = fate[x][op] \/ (x = e /\ Over(e))
    <3>1. CASE Over(e)
      <4>1. Inform(e, Head(queue[e]), "err")
        BY Zenon, <1>5, <3>1 DEF WriterTakes
      <4>2. \A x \in End, op \in Op :
              fate'[x][op] = fate[x][op] \/ (x = e /\ op = Head(queue[e]) /\ fate'[x][op] = "err")
        BY <2>1, <4>1, InformIs DEF IInv
      <4> QED
        BY Zenon, <3>1, <4>2
    <3>2. CASE ~Over(e)
      BY Zenon, <1>5, <3>2 DEF WriterTakes
    <3> QED
      BY <3>1, <3>2
  <2>3. UNCHANGED <<stopped, down>>
    BY Zenon, <1>5 DEF WriterTakes
  <2> QED
    BY Zenon, <1>1, <2>2, <2>3 DEF Over
<1>6. ASSUME NEW e \in End, WriterWrites(e) PROVE Stopping'
  <2>1. writer[e] \in Op /\ (IF down[e] THEN "err" ELSE "none") \in {"none", "err"}
    BY <1>6 DEF WriterWrites
  <2>2. \A x \in End, op \in Op :
          fate'[x][op] = fate[x][op] \/ fate'[x][op] = "none" \/ (x = e /\ down[e])
    <3>1. Inform(e, writer[e], IF down[e] THEN "err" ELSE "none")
      BY Zenon, <1>6 DEF WriterWrites
    <3>2. \A x \in End, op \in Op :
            \/ fate'[x][op] = fate[x][op]
            \/ x = e /\ op = writer[e] /\ fate'[x][op] = IF down[e] THEN "err" ELSE "none"
      BY <2>1, <3>1, InformIs DEF IInv
    <3> QED
      BY Zenon, <3>2
  <2>3. UNCHANGED <<stopped, down>> /\ "none" # "err"
    BY <1>6 DEF WriterWrites
  <2> QED
    BY Zenon, <1>1, <2>2, <2>3
<1>7. ASSUME NEW e \in End, OnRefresh(e) PROVE Stopping'
  <2>0. Arrived(e, "refresh") /\ Answer(e, "refresh_result", "replying")
    BY Zenon, <1>7 DEF OnRefresh
  <2>1. "refresh" \in Op /\ "refresh_result" \in Op /\ TypeOK
    BY DEF IInv, Op
  <2>2. \/ Denied(e) /\ loop' = [loop EXCEPT ![e] = "exited"]
        \/ Granted(e, "refresh_result") /\ loop' = [loop EXCEPT ![e] = "replying"]
    BY Zenon, <2>1, <2>0, AnswerIs
  <2>3. CASE Denied(e)
    BY Zenon, <1>3, <2>3 DEF Denied
  <2>4. CASE Granted(e, "refresh_result")
    <3>1. "queued" # "err"
      OBVIOUS
    <3> QED
      BY Zenon, <1>1, <2>4, <3>1 DEF Granted
  <2> QED
    BY <2>2, <2>3, <2>4
<1>8. ASSUME NEW e \in End, OnRefreshResult(e) PROVE Stopping'
  BY Zenon, <1>2, <1>8, Solicited DEF OnRefreshResult, NoAbort
<1>9. ASSUME NEW e \in End, OnClose(e) PROVE Stopping'
  <2>0. Arrived(e, "close") /\ Answer(e, "close_ack", "acking")
    BY Zenon, <1>9 DEF OnClose
  <2>1. "close" \in Op /\ "close_ack" \in Op /\ TypeOK
    BY DEF IInv, Op
  <2>2. \/ Denied(e) /\ loop' = [loop EXCEPT ![e] = "exited"]
        \/ Granted(e, "close_ack") /\ loop' = [loop EXCEPT ![e] = "acking"]
    BY Zenon, <2>1, <2>0, AnswerIs
  <2>3. CASE Denied(e)
    BY Zenon, <1>3, <2>3 DEF Denied
  <2>4. CASE Granted(e, "close_ack")
    <3>1. "queued" # "err"
      OBVIOUS
    <3> QED
      BY Zenon, <1>1, <2>4, <3>1 DEF Granted
  <2> QED
    BY <2>2, <2>3, <2>4
<1>10. ASSUME NEW e \in End, OnCloseAck(e) PROVE Stopping'
  BY Zenon, <1>2, <1>10, Solicited DEF OnCloseAck, NoAbort
<1>11. ASSUME NEW e \in End, LoopAcked(e) PROVE Stopping'
  <2>1. "peer" \in {"peer", "exhausted", "violation"} /\ loop'[e] = "exited"
    BY <1>11 DEF LoopAcked, IInv, TypeOK
  <2> QED
    BY Zenon, <1>3, <1>11, <2>1, EndSessionIs DEF LoopAcked, IInv
<1>12. ASSUME NEW e \in End, WriteClose(e) PROVE Stopping'
  <2>1. "close" \in Op /\ "client" \in End /\ TypeOK
    BY DEF IInv, Op, End
  <2>2. Denied(e) \/ Granted(e, "close")
    BY Zenon, <1>12, <2>1, WriteIs DEF WriteClose
  <2>3. CASE Denied(e)
    BY Zenon, <1>3, <2>1, <2>3 DEF Denied
  <2>4. CASE Granted(e, "close")
    <3>1. "queued" # "err"
      OBVIOUS
    <3> QED
      BY Zenon, <1>1, <2>1, <2>4, <3>1 DEF Granted
  <2> QED
    BY <2>2, <2>3, <2>4
<1>13. ASSUME NEW e \in End, CloseFailed(e) PROVE Stopping'
  <2>1. \A x \in End, op \in Op : fate'[x][op] = fate[x][op] \/ fate'[x][op] = "none"
    BY <1>13 DEF CloseFailed, Forget, IInv, TypeOK
  <2>2. UNCHANGED <<stopped, down>> /\ "none" # "err"
    BY <1>13 DEF CloseFailed
  <2> QED
    BY Zenon, <1>1, <2>1, <2>2
<1>14. ASSUME NEW e \in End, FinishClose(e) PROVE Stopping'
  <2>1. down'[e]
    BY Zenon, <1>14 DEF FinishClose, IInv, TypeOK
  <2> QED
    BY Zenon, <1>3, <1>14, <2>1, StopHalts DEF FinishClose, IInv
<1>15. ASSUME NEW e \in End, Suspend(e) PROVE Stopping'
  BY Zenon, <1>3, <1>15, StopHalts DEF Suspend, IInv
<1>16. CASE CallRefresh
  <2>1. "refresh" \in Op /\ "client" \in End /\ TypeOK
    BY DEF IInv, Op, End
  <2>2. Denied("client") \/ Granted("client", "refresh")
    BY Zenon, <1>16, <2>1, WriteIs DEF CallRefresh
  <2>3. CASE Denied("client")
    BY Zenon, <1>3, <2>1, <2>3 DEF Denied
  <2>4. CASE Granted("client", "refresh")
    <3>1. "queued" # "err"
      OBVIOUS
    <3> QED
      BY Zenon, <1>1, <2>1, <2>4, <3>1 DEF Granted
  <2> QED
    BY <2>2, <2>3, <2>4
<1>17. CASE RefreshFailed
  <2>1. \A x \in End, op \in Op : fate'[x][op] = fate[x][op] \/ fate'[x][op] = "none"
    BY <1>17 DEF RefreshFailed, Forget, IInv, TypeOK
  <2>2. UNCHANGED <<stopped, down>> /\ "none" # "err"
    BY <1>17 DEF RefreshFailed
  <2> QED
    BY Zenon, <1>1, <2>1, <2>2
<1>18. CASE RefreshReturns \/ RefreshAbandoned \/ Done \/ UNCHANGED vars
  BY Zenon, <1>2, <1>18 DEF RefreshReturns, RefreshAbandoned, Done, vars
<1> HIDE DEF session, control, refresh, closing
<1> QED
  BY Zenon, <1>4, <1>5, <1>6, <1>7, <1>8, <1>9, <1>10, <1>11, <1>12, <1>13,
     <1>14, <1>15, <1>16, <1>17, <1>18
  DEF Next, Writer, Loop, Closer, Refresher

\* SessionEnded is delivered by the caller that closes the session, and once.
LEMMA DeliveringStep ==
    ASSUME IInv, [Next]_vars
    PROVE  Delivering'
<1> USE DEF session, control, refresh, closing
<1>1. ASSUME NEW e \in End, Ends(e, "exhausted") \/ Ends(e, "peer"),
             \A x \in End : \/ closer'[x] = closer[x]
                            \/ closer[x] \notin {"idle", "done"} /\ closer'[x] # "idle"
      PROVE  Delivering'
  BY <1>1 DEF IInv, TypeOK, Ends, Delivering
<1>2. ASSUME UNCHANGED <<session, closer>> PROVE Delivering'
  BY Zenon, <1>2 DEF IInv, Delivering
<1>3. ASSUME NEW e \in End, StartControl(e) \/ WriterTakes(e) \/ WriterWrites(e)
                            \/ WriterExits(e) \/ LoopReplied(e) \/ LoopFailed(e) \/ GoesDown(e)
      PROVE  Delivering'
  BY Zenon, <1>2, <1>3 DEF StartControl, WriterTakes, WriterWrites, WriterExits, LoopReplied,
     LoopFailed, GoesDown
<1>4. ASSUME NEW e \in End, OnRefresh(e) PROVE Delivering'
  <2>0. Arrived(e, "refresh") /\ Answer(e, "refresh_result", "replying")
    BY Zenon, <1>4 DEF OnRefresh
  <2>1. "refresh" \in Op /\ "refresh_result" \in Op /\ TypeOK
    BY DEF IInv, Op
  <2>2. \/ Denied(e) /\ loop' = [loop EXCEPT ![e] = "exited"]
        \/ Granted(e, "refresh_result") /\ loop' = [loop EXCEPT ![e] = "replying"]
    BY Zenon, <2>1, <2>0, AnswerIs
  <2>3. Ends(e, "exhausted")
    BY Zenon, <2>1, <2>2, SameEnds DEF Denied, Granted
  <2> QED
    BY Zenon, <1>1, <1>4, <2>3 DEF OnRefresh
<1>5. ASSUME NEW e \in End, OnRefreshResult(e) PROVE Delivering'
  BY Zenon, <1>2, <1>5, Solicited DEF OnRefreshResult, NoAbort
<1>6. ASSUME NEW e \in End, OnClose(e) PROVE Delivering'
  <2>0. Arrived(e, "close") /\ Answer(e, "close_ack", "acking")
    BY Zenon, <1>6 DEF OnClose
  <2>1. "close" \in Op /\ "close_ack" \in Op /\ TypeOK
    BY DEF IInv, Op
  <2>2. \/ Denied(e) /\ loop' = [loop EXCEPT ![e] = "exited"]
        \/ Granted(e, "close_ack") /\ loop' = [loop EXCEPT ![e] = "acking"]
    BY Zenon, <2>1, <2>0, AnswerIs
  <2>3. Ends(e, "exhausted")
    BY Zenon, <2>1, <2>2, SameEnds DEF Denied, Granted
  <2> QED
    BY Zenon, <1>1, <1>6, <2>3 DEF OnClose
<1>7. ASSUME NEW e \in End, OnCloseAck(e) PROVE Delivering'
  BY Zenon, <1>2, <1>7, Solicited DEF OnCloseAck, NoAbort
<1>8. ASSUME NEW e \in End, LoopAcked(e) PROVE Delivering'
  <2>1. "peer" \in {"peer", "exhausted", "violation"} /\ TypeOK
    BY DEF IInv
  <2>2. Ends(e, "peer")
    BY Zenon, <1>8, <2>1, EndSessionIs DEF LoopAcked
  <2> QED
    BY Zenon, <1>1, <1>8, <2>2 DEF LoopAcked
<1>9. ASSUME NEW e \in End, WriteClose(e) PROVE Delivering'
  <2>1. "close" \in Op /\ "client" \in End /\ TypeOK
    BY DEF IInv, Op, End
  <2>2. Denied(e) \/ Granted(e, "close")
    BY Zenon, <1>9, <2>1, WriteIs DEF WriteClose
  <2>3. Ends(e, "exhausted")
    BY Zenon, <2>1, <2>2, SameEnds DEF Denied, Granted
  <2>4. \A x \in End : \/ closer'[x] = closer[x]
                       \/ closer[x] \notin {"idle", "done"} /\ closer'[x] # "idle"
    BY <1>9, <2>1 DEF WriteClose, TypeOK
  <2> QED
    BY Zenon, <1>1, <2>3, <2>4
<1>10. ASSUME NEW e \in End, CloseFailed(e) PROVE Delivering'
  <2>1. UNCHANGED session
    BY Zenon, <1>10 DEF CloseFailed
  <2>2. \A x \in End : \/ closer'[x] = closer[x]
                       \/ closer[x] \notin {"idle", "done"} /\ closer'[x] # "idle"
    BY <1>10 DEF CloseFailed, IInv, TypeOK
  <2> QED
    BY Zenon, <1>1, <2>1, <2>2, SameEnds DEF IInv
<1>11. ASSUME NEW e \in End, Acknowledged(e) PROVE Delivering'
  <2>1. UNCHANGED session
    BY Zenon, <1>11 DEF Acknowledged
  <2>2. \A x \in End : \/ closer'[x] = closer[x]
                       \/ closer[x] \notin {"idle", "done"} /\ closer'[x] # "idle"
    BY <1>11 DEF Acknowledged, IInv, TypeOK
  <2> QED
    BY Zenon, <1>1, <2>1, <2>2, SameEnds DEF IInv
<1>12. ASSUME NEW e \in End, FinishClose(e) PROVE Delivering'
  BY <1>12 DEF FinishClose, IInv, TypeOK, Delivering
<1>13. ASSUME NEW e \in End, CallClose(e) PROVE Delivering'
  BY <1>13 DEF CallClose, IInv, TypeOK, Delivering
<1>14. ASSUME NEW e \in End, CloseTimeout(e) PROVE Delivering'
  <2>1. UNCHANGED session
    BY Zenon, <1>14 DEF CloseTimeout
  <2>2. \A x \in End : \/ closer'[x] = closer[x]
                       \/ closer[x] \notin {"idle", "done"} /\ closer'[x] # "idle"
    BY <1>14 DEF CloseTimeout, IInv, TypeOK
  <2> QED
    BY Zenon, <1>1, <2>1, <2>2, SameEnds DEF IInv
<1>15. ASSUME NEW e \in End, Suspend(e) PROVE Delivering'
  BY <1>15 DEF Suspend, IInv, TypeOK, Delivering
<1>16. CASE CallRefresh
  <2>1. "refresh" \in Op /\ "client" \in End /\ TypeOK
    BY DEF IInv, Op, End
  <2>2. Denied("client") \/ Granted("client", "refresh")
    BY Zenon, <1>16, <2>1, WriteIs DEF CallRefresh
  <2>3. Ends("client", "exhausted")
    BY Zenon, <2>1, <2>2, SameEnds DEF Denied, Granted
  <2> QED
    BY Zenon, <1>1, <1>16, <2>1, <2>3 DEF CallRefresh
<1>17. CASE RefreshFailed \/ RefreshReturns \/ RefreshAbandoned \/ Done \/ UNCHANGED vars
  BY Zenon, <1>2, <1>17 DEF RefreshFailed, RefreshReturns, RefreshAbandoned, Done, vars
<1> HIDE DEF session, control, refresh, closing
<1> QED
  BY Zenon, <1>3, <1>4, <1>5, <1>6, <1>7, <1>8, <1>9, <1>10, <1>11, <1>12,
     <1>13, <1>14, <1>15, <1>16, <1>17
  DEF Next, Writer, Loop, Closer, Refresher

\* A frame appears for a reason.  The client asks when no refresh is active;
\* the server answers a refresh it has taken from the wire; the client takes
\* the answer from the wire and the refresh is over.
Asked ==
    /\ refreshReply = "nil" /\ refreshReply' # "nil"
    /\ ~Sent("client", "refresh") => Single("client", "refresh")'

Answered ==
    /\ Sent("client", "refresh")
    /\ Single("client", "refresh") => ~Sent("client", "refresh")'
    /\ ~Sent("server", "refresh_result") => Single("server", "refresh_result")'

Returned ==
    /\ Sent("server", "refresh_result")
    /\ Single("server", "refresh_result") => ~Sent("server", "refresh_result")'

Origin ==
    /\ \A x \in End :
         /\ Kept(x, "close") \/ closer[x] = "start"
         /\ Kept(x, "close_ack") \/ In(wire[Peer(x)], "close")
         /\ loop'[x] = "acking" => loop[x] = "acking" \/ In(wire[Peer(x)], "close")
         /\ Kept(x, "refresh") \/ (x = "client" /\ Asked)
         /\ Kept(x, "refresh_result") \/ (x = "server" /\ Answered)
    /\ refreshReply' = "nil" => refreshReply = "nil" \/ ~Listening \/ Returned

\* Where the frames of a step come from.
LEMMA OriginStep ==
    ASSUME IInv, [Next]_vars
    PROVE  Origin
<1> USE DEF session, control, refresh, closing
<1>1. /\ "refresh" \in Op /\ "refresh_result" \in Op
      /\ "close" \in Op /\ "close_ack" \in Op
  BY DEF Op
<1>2. ASSUME AllKept, UNCHANGED refreshReply,
             \A x \in End : loop'[x] = "acking" => loop[x] = "acking"
      PROVE  Origin
  BY Zenon, <1>1, <1>2 DEF AllKept, Origin
<1>3. ASSUME UNCHANGED <<queue, writer, wire, loop, refreshReply>> PROVE Origin
  BY Zenon, <1>2, <1>3, SameFewer, FewerKept
<1>4. ASSUME NEW e \in End, NEW op \in Op, Denied(e) \/ Granted(e, op)
      PROVE  \A x \in End, o \in Op : Kept(x, o) \/ (x = e /\ o = op)
  BY Zenon, <1>4 DEF Denied, Granted, AllFewer, Puts, Fewer, Kept, Sent
<1>5. ASSUME NEW e \in End, StartControl(e) PROVE Origin
  <2>1. AllKept
    BY Zenon, <1>5, StepFewer, FewerKept DEF IInv
  <2>2. \A x \in End : loop'[x] = "acking" => loop[x] = "acking"
    BY <1>5 DEF StartControl, IInv, TypeOK
  <2> QED
    BY Zenon, <1>2, <1>5, <2>1, <2>2 DEF StartControl
<1>6. ASSUME NEW e \in End, WriterTakes(e) PROVE Origin
  <2>1. AllKept
    BY Zenon, <1>6, StepFewer, FewerKept DEF IInv
  <2> QED
    BY Zenon, <1>2, <1>6, <2>1 DEF WriterTakes
<1>7. ASSUME NEW e \in End, WriterWrites(e) PROVE Origin
  <2>1. AllKept
    BY Zenon, <1>7, WritesKept DEF WriterWrites, IInv
  <2> QED
    BY Zenon, <1>2, <1>7, <2>1 DEF WriterWrites
<1>8. ASSUME NEW e \in End, WriterExits(e) PROVE Origin
  <2>1. AllKept
    BY Zenon, <1>8, StepFewer, FewerKept DEF IInv
  <2> QED
    BY Zenon, <1>2, <1>8, <2>1 DEF WriterExits
<1>9. ASSUME NEW e \in End, OnRefresh(e) PROVE Origin
  <2>0. Arrived(e, "refresh") /\ Answer(e, "refresh_result", "replying")
    BY Zenon, <1>9 DEF OnRefresh
  <2>1. "refresh" \in Op /\ "refresh_result" \in Op /\ TypeOK
    BY DEF IInv, Op
  <2>2. \/ Denied(e) /\ loop' = [loop EXCEPT ![e] = "exited"]
        \/ Granted(e, "refresh_result") /\ loop' = [loop EXCEPT ![e] = "replying"]
    BY Zenon, <2>1, <2>0, AnswerIs
  <2>3. e = "server" /\ UNCHANGED refreshReply /\ wire' = Rest(e)
    BY Zenon, <1>9, <2>1, <2>0, AnswerIs DEF OnRefresh
  <2>4. \A x \in End, o \in Op : Kept(x, o) \/ (x = e /\ o = "refresh_result")
    BY Zenon, <1>4, <2>1, <2>2
  <2>5. "refresh_result" # "close" /\ "refresh_result" # "refresh" /\ "refresh_result" # "close_ack"
    OBVIOUS
  <2>6. \A x \in End : loop'[x] = "acking" => loop[x] = "acking"
    BY <2>1, <2>2 DEF TypeOK
  <2>7. Kept("server", "refresh_result") \/ Answered
    <3>1. CASE Denied(e)
      BY Zenon, <1>1, <2>3, <3>1, FewerKept DEF Denied, AllKept
    <3>2. CASE Granted(e, "refresh_result")
      <4>1. Peer(e) = "client" /\ "client" \in End
        BY <2>3 DEF End, Peer
      <4>2. Fewer("client", "refresh") /\
              (~Sent("server", "refresh_result") => Single("server", "refresh_result")')
        BY Zenon, <2>1, <2>3, <2>5, <3>2, <4>1 DEF Granted, Puts
      <4>3. In(wire["client"], "refresh")
        BY Zenon, <2>1, <2>0, <4>1, TakenFrame
      <4>4. Single("client", "refresh") => ~Sent("client", "refresh")'
        BY <2>1, <2>0, <2>3, <4>1, <4>2, TakenLone
      <4> QED
        BY Zenon, <4>2, <4>3, <4>4 DEF Answered, Sent
    <3> QED
      BY <2>2, <3>1, <3>2
  <2> QED
    BY Zenon, <1>1, <2>3, <2>4, <2>5, <2>6, <2>7 DEF Origin
<1>10. ASSUME NEW e \in End, OnRefreshResult(e) PROVE Origin
  <2>1. AllFewer
    BY Zenon, <1>10, StepFewer DEF IInv
  <2>2. e = "client" /\ UNCHANGED loop /\ Arrived(e, "refresh_result") /\ wire' = Rest(e)
    BY Zenon, <1>10, Solicited DEF OnRefreshResult, Consume, Rest
  <2>3. "client" \in End /\ Peer("client") = "server" /\ "server" \in End /\ TypeOK
    BY DEF IInv, End, Peer
  <2>4. Arrived("client", "refresh_result") /\ wire' = Rest("client")
    BY Zenon, <2>2
  <2>5. In(wire["server"], "refresh_result")
    BY Zenon, <1>1, <2>3, <2>4, TakenFrame
  <2>6. Single("server", "refresh_result") => ~Sent("server", "refresh_result")'
    BY Zenon, <1>1, <2>1, <2>3, <2>4, TakenLone DEF AllFewer
  <2>7. Returned
    BY Zenon, <2>5, <2>6 DEF Returned, Sent
  <2> QED
    BY Zenon, <1>1, <2>1, <2>2, <2>7, FewerKept DEF AllKept, Origin
<1>11. ASSUME NEW e \in End, OnClose(e) PROVE Origin
  <2>0. Arrived(e, "close") /\ Answer(e, "close_ack", "acking")
    BY Zenon, <1>11 DEF OnClose
  <2>1. "close" \in Op /\ "close_ack" \in Op /\ TypeOK
    BY DEF IInv, Op
  <2>2. \/ Denied(e) /\ loop' = [loop EXCEPT ![e] = "exited"]
        \/ Granted(e, "close_ack") /\ loop' = [loop EXCEPT ![e] = "acking"]
    BY Zenon, <2>1, <2>0, AnswerIs
  <2>3. In(wire[Peer(e)], "close") /\ UNCHANGED refreshReply
    BY Zenon, <1>11, <2>1, <2>0, TakenFrame DEF OnClose
  <2>4. \A x \in End, o \in Op : Kept(x, o) \/ (x = e /\ o = "close_ack")
    BY Zenon, <1>4, <2>1, <2>2
  <2>5. "close_ack" # "close" /\ "close_ack" # "refresh" /\ "close_ack" # "refresh_result"
    OBVIOUS
  <2>6. \A x \in End : loop'[x] = "acking" => loop[x] = "acking" \/ x = e
    BY <2>1, <2>2 DEF TypeOK
  <2> QED
    BY Zenon, <1>1, <2>3, <2>4, <2>5, <2>6 DEF Origin
<1>12. ASSUME NEW e \in End, OnCloseAck(e) PROVE Origin
  <2>1. AllKept
    BY Zenon, <1>12, StepFewer, FewerKept DEF IInv
  <2>2. UNCHANGED <<loop, refreshReply>>
    BY Zenon, <1>12, Solicited DEF OnCloseAck
  <2> QED
    BY Zenon, <1>2, <2>1, <2>2
<1>13. ASSUME NEW e \in End, LoopReplied(e) PROVE Origin
  <2>1. AllKept
    BY Zenon, <1>13, SameFewer, FewerKept DEF LoopReplied
  <2>2. \A x \in End : loop'[x] = "acking" => loop[x] = "acking"
    BY <1>13 DEF LoopReplied, IInv, TypeOK
  <2> QED
    BY Zenon, <1>2, <1>13, <2>1, <2>2 DEF LoopReplied
<1>14. ASSUME NEW e \in End, LoopAcked(e) PROVE Origin
  <2>1. AllKept
    BY Zenon, <1>14, StepFewer, FewerKept DEF IInv
  <2>2. \A x \in End : loop'[x] = "acking" => loop[x] = "acking"
    BY <1>14 DEF LoopAcked, IInv, TypeOK
  <2> QED
    BY Zenon, <1>2, <1>14, <2>1, <2>2 DEF LoopAcked
<1>15. ASSUME NEW e \in End, LoopFailed(e) PROVE Origin
  <2>1. AllKept
    BY Zenon, <1>15, SameFewer, FewerKept DEF LoopFailed
  <2>2. \A x \in End : loop'[x] = "acking" => loop[x] = "acking"
    BY <1>15 DEF LoopFailed, IInv, TypeOK
  <2> QED
    BY Zenon, <1>2, <1>15, <2>1, <2>2 DEF LoopFailed
<1>16. ASSUME NEW e \in End, WriteClose(e) PROVE Origin
  <2>1. "close" \in Op /\ "client" \in End /\ TypeOK
    BY DEF IInv, Op, End
  <2>2. Denied(e) \/ Granted(e, "close")
    BY Zenon, <1>16, <2>1, WriteIs DEF WriteClose
  <2>3. closer[e] = "start" /\ UNCHANGED <<loop, refreshReply>>
    BY Zenon, <1>16 DEF WriteClose
  <2>4. \A x \in End, o \in Op : Kept(x, o) \/ (x = e /\ o = "close")
    BY Zenon, <1>4, <2>1, <2>2
  <2>5. "close" # "close_ack" /\ "close" # "refresh" /\ "close" # "refresh_result"
    OBVIOUS
  <2> QED
    BY Zenon, <1>1, <2>3, <2>4, <2>5 DEF Origin
<1>17. ASSUME NEW e \in End, CloseFailed(e) \/ Acknowledged(e) \/ CallClose(e)
                             \/ CloseTimeout(e) \/ GoesDown(e)
       PROVE  Origin
  BY Zenon, <1>3, <1>17 DEF CloseFailed, Acknowledged, CallClose, CloseTimeout, GoesDown
<1>18. ASSUME NEW e \in End, FinishClose(e) PROVE Origin
  <2>1. AllKept
    BY Zenon, <1>18, StepFewer, FewerKept DEF IInv
  <2> QED
    BY Zenon, <1>2, <1>18, <2>1 DEF FinishClose
<1>19. ASSUME NEW e \in End, Suspend(e) PROVE Origin
  <2>1. AllKept
    BY Zenon, <1>19, StepFewer, FewerKept DEF IInv
  <2> QED
    BY Zenon, <1>2, <1>19, <2>1 DEF Suspend
<1>20. CASE CallRefresh
  <2>1. "refresh" \in Op /\ "client" \in End /\ TypeOK
    BY DEF IInv, Op, End
  <2>2. Denied("client") \/ Granted("client", "refresh")
    BY Zenon, <1>20, <2>1, WriteIs DEF CallRefresh
  <2>3. refreshReply = "nil" /\ UNCHANGED loop
    BY Zenon, <1>20 DEF CallRefresh
  <2>4. \A x \in End, o \in Op : Kept(x, o) \/ (x = "client" /\ o = "refresh")
    BY Zenon, <1>4, <2>1, <2>2
  <2>5. "refresh" # "close_ack" /\ "refresh" # "close" /\ "refresh" # "refresh_result"
        /\ "caller" # "nil"
    OBVIOUS
  <2>6. Kept("client", "refresh") \/ Asked
    <3>1. CASE Refused("client", wire) \/ Exhausted("client", wire)
      BY Zenon, <2>1, <3>1, WriteIs, FewerKept DEF Denied, AllKept
    <3>2. CASE /\ Direct("client", "refresh") \/ Queued("client", "refresh", wire)
               /\ refreshReply' = "caller"
      BY Zenon, <2>1, <2>3, <2>5, <3>2, WriteIs DEF Granted, Puts, Asked
    <3> QED
      BY Zenon, <1>20, <3>1, <3>2 DEF CallRefresh
  <2> QED
    BY Zenon, <1>1, <2>3, <2>4, <2>5, <2>6 DEF Origin
<1>21. CASE RefreshFailed
  <2>1. AllKept
    BY Zenon, <1>21, SameFewer, FewerKept DEF RefreshFailed
  <2>2. Over("client")
    BY <1>21, <1>1 DEF RefreshFailed, Failed, IInv, Stopping, End
  <2>3. ~Listening
    BY <2>2 DEF Over, IInv, Stopping, Listening, End
  <2> QED
    BY Zenon, <1>1, <1>21, <2>1, <2>3 DEF RefreshFailed, AllKept, Origin
<1>22. CASE RefreshReturns \/ Done \/ UNCHANGED vars
  BY Zenon, <1>3, <1>22 DEF RefreshReturns, Done, vars
<1>23. CASE RefreshAbandoned
  <2>1. AllKept
    BY Zenon, <1>23, SameFewer, FewerKept DEF RefreshAbandoned
  <2>2. refreshReply' = "nil" => refreshReply = "nil"
    BY <1>23 DEF RefreshAbandoned
  <2> QED
    BY Zenon, <1>1, <1>23, <2>1, <2>2 DEF RefreshAbandoned, AllKept, Origin
<1> HIDE DEF session, control, refresh, closing
<1> QED
  BY Zenon, <1>5, <1>6, <1>7, <1>8, <1>9, <1>10, <1>11, <1>12, <1>13, <1>14,
     <1>15, <1>16, <1>17, <1>18, <1>19, <1>20, <1>21, <1>22, <1>23
  DEF Next, Writer, Loop, Closer, Refresher

\* The frames of a close handshake come after the call of Close.
LEMMA ClosingStep ==
    ASSUME IInv, [Next]_vars
    PROVE  Closing'
<1> USE DEF session, control, refresh, closing
<1>1. ASSUME NEW e \in End,
             \A x \in End : x # e => closer'[x] = closer[x] /\ closeAck'[x] = closeAck[x],
             \/ closer'[e] = closer[e] /\ closeAck'[e] = closeAck[e]
             \/ closer'[e] \in {"start", "waiting", "gaveUp"} /\ closeAck'[e] # "nil"
             \/ closer'[e] = "acked" /\ closeAck'[e] = "closed"
             \/ closer'[e] = "done" /\ down'[e]
      PROVE  Closing'
  <2> SUFFICES ASSUME NEW x \in End
               PROVE  (/\ closer[x] = "idle" =>
                            /\ closeAck[x] = "nil" /\ loop[Peer(x)] # "acking"
                            /\ ~Sent(x, "close") /\ ~Sent(Peer(x), "close_ack")
                       /\ closer[x] \in {"start", "waiting", "acked", "gaveUp"} => closeAck[x] # "nil"
                       /\ closer[x] = "acked" => closeAck[x] = "closed"
                       /\ closer[x] = "done" => down[x])'
    BY Zenon DEF Closing
  <2>1. Peer(x) \in End /\ Peer(Peer(x)) = x
    BY DEF End, Peer
  <2>2. CASE closer'[x] = closer[x] /\ closeAck'[x] = closeAck[x]
    <3>1. down[x] => down'[x]
      BY Zenon, OnwardStep DEF Onward
    <3>2. closer[x] = "idle" => ~In(wire[x], "close") /\ "idle" # "start"
      BY DEF IInv, Closing, Sent
    <3>3. closer[x] = "idle" =>
            loop'[Peer(x)] # "acking" /\ ~Sent(x, "close")' /\ ~Sent(Peer(x), "close_ack")'
      BY Zenon, <2>1, <3>2, OriginStep DEF Origin, Kept, IInv, Closing
    <3> QED
      BY Zenon, <2>2, <3>1, <3>3 DEF IInv, Closing
  <2>3. CASE ~(closer'[x] = closer[x] /\ closeAck'[x] = closeAck[x])
    <3>1. x = e
      BY Zenon, <1>1, <2>3
    <3> QED
      BY <1>1, <2>3, <3>1
  <2> QED
    BY <2>2, <2>3
<1>2. ASSUME UNCHANGED <<closer, closeAck>> PROVE Closing'
  <2>1. "client" \in End
    BY DEF End
  <2> QED
    BY Zenon, <1>1, <1>2, <2>1
<1>3. ASSUME NEW e \in End, StartControl(e) \/ WriterTakes(e) \/ WriterWrites(e)
                            \/ WriterExits(e) \/ OnRefresh(e) \/ OnRefreshResult(e) \/ OnClose(e)
                            \/ LoopReplied(e) \/ LoopAcked(e) \/ LoopFailed(e) \/ GoesDown(e)
                            \/ Suspend(e)
      PROVE  Closing'
  BY Zenon, <1>2, <1>3 DEF StartControl, WriterTakes, WriterWrites, WriterExits, OnRefresh,
     OnRefreshResult, OnClose, LoopReplied, LoopAcked, LoopFailed, GoesDown, Suspend
<1>4. ASSUME NEW e \in End, OnCloseAck(e) PROVE Closing'
  <2>1. "close_ack" \in Op /\ TypeOK
    BY DEF IInv, Op
  <2>2. In(wire[Peer(e)], "close_ack")
    BY Zenon, <1>4, <2>1, TakenFrame DEF OnCloseAck, Consume
  <2>3. closer[e] # "idle"
    BY Zenon, <2>2 DEF IInv, Closing, Sent
  <2>4. /\ \A x \in End : x # e => closer'[x] = closer[x] /\ closeAck'[x] = closeAck[x]
        /\ closer' = closer /\ closeAck'[e] = "closed"
    BY <1>4, <2>1, Solicited DEF OnCloseAck, TypeOK
  <2>5. /\ closer[e] \in {"start", "waiting", "acked", "gaveUp", "done"}
        /\ closer[e] = "done" => down'[e]
    BY <2>1, <2>3, OnwardStep DEF IInv, Closing, TypeOK, Onward
  <2> QED
    BY <1>1, <2>4, <2>5
<1>5. ASSUME NEW e \in End, WriteClose(e) PROVE Closing'
  <2>1. /\ \A x \in End : x # e => closer'[x] = closer[x] /\ closeAck'[x] = closeAck[x]
        /\ closer'[e] \in {"waiting", "gaveUp"} /\ closeAck'[e] # "nil"
    BY <1>5 DEF WriteClose, IInv, TypeOK, Closing
  <2> QED
    BY <1>1, <2>1
<1>6. ASSUME NEW e \in End, CloseFailed(e) PROVE Closing'
  <2>1. /\ \A x \in End : x # e => closer'[x] = closer[x] /\ closeAck'[x] = closeAck[x]
        /\ closer'[e] = "gaveUp" /\ closeAck'[e] # "nil"
    BY <1>6 DEF CloseFailed, IInv, TypeOK, Closing
  <2> QED
    BY <1>1, <2>1
<1>7. ASSUME NEW e \in End, Acknowledged(e) PROVE Closing'
  <2>1. /\ \A x \in End : x # e => closer'[x] = closer[x] /\ closeAck'[x] = closeAck[x]
        /\ closer'[e] = "acked" /\ closeAck'[e] = "closed"
    BY <1>7 DEF Acknowledged, IInv, TypeOK, Closing
  <2> QED
    BY <1>1, <2>1
<1>8. ASSUME NEW e \in End, FinishClose(e) PROVE Closing'
  <2>1. /\ \A x \in End : x # e => closer'[x] = closer[x] /\ closeAck'[x] = closeAck[x]
        /\ closer'[e] = "done"
    BY <1>8 DEF FinishClose, IInv, TypeOK
  <2>2. down'[e]
    BY Zenon, <1>8 DEF FinishClose, IInv, TypeOK
  <2> QED
    BY <1>1, <2>1, <2>2
<1>9. ASSUME NEW e \in End, CallClose(e) PROVE Closing'
  <2>1. /\ \A x \in End : x # e => closer'[x] = closer[x] /\ closeAck'[x] = closeAck[x]
        /\ closer'[e] = "start" /\ closeAck'[e] # "nil"
    BY <1>9 DEF CallClose, IInv, TypeOK, Closing
  <2> QED
    BY <1>1, <2>1
<1>10. ASSUME NEW e \in End, CloseTimeout(e) PROVE Closing'
  <2>1. /\ \A x \in End : x # e => closer'[x] = closer[x] /\ closeAck'[x] = closeAck[x]
        /\ closer'[e] = "gaveUp" /\ closeAck'[e] # "nil"
    BY <1>10 DEF CloseTimeout, IInv, TypeOK, Closing
  <2> QED
    BY <1>1, <2>1
<1>11. CASE CallRefresh \/ RefreshFailed \/ RefreshReturns \/ RefreshAbandoned \/ Done
            \/ UNCHANGED vars
  BY Zenon, <1>2, <1>11 DEF CallRefresh, RefreshFailed, RefreshReturns, RefreshAbandoned, Done,
     vars
<1> HIDE DEF session, control, refresh, closing
<1> QED
  BY Zenon, <1>3, <1>4, <1>5, <1>6, <1>7, <1>8, <1>9, <1>10, <1>11
  DEF Next, Writer, Loop, Closer, Refresher

\* A refresh or its result on its way is the only one and keeps it active.
LEMMA RefreshingStep ==
    ASSUME IInv, [Next]_vars
    PROVE  Refreshing'
<1>1. "client" \in End /\ "server" \in End /\ "client" # "server"
  BY DEF End
<1>2. Origin
  BY OriginStep
<1>3. ~Sent("client", "refresh_result")'
  BY Zenon, <1>1, <1>2 DEF Origin, Kept, IInv, Refreshing
<1>4. ASSUME Listening'
      PROVE  /\ Single("client", "refresh")' /\ Single("server", "refresh_result")'
             /\ ~(Sent("client", "refresh")' /\ Sent("server", "refresh_result")')
             /\ Sent("client", "refresh")' \/ Sent("server", "refresh_result")' =>
                  refreshReply' # "nil"
  <2>1. Listening
    BY Zenon, <1>1, <1>4, OnwardStep DEF Listening, Onward
  <2>2. /\ Single("client", "refresh") /\ Single("server", "refresh_result")
        /\ ~(Sent("client", "refresh") /\ Sent("server", "refresh_result"))
        /\ Sent("client", "refresh") \/ Sent("server", "refresh_result") => refreshReply # "nil"
    BY Zenon, <2>1 DEF IInv, Refreshing
  <2>3. Kept("client", "refresh") \/ Asked
    BY Zenon, <1>1, <1>2 DEF Origin
  <2>4. Kept("server", "refresh_result") \/ Answered
    BY Zenon, <1>1, <1>2 DEF Origin
  <2>5. refreshReply' = "nil" => refreshReply = "nil" \/ Returned
    BY Zenon, <1>2, <2>1 DEF Origin
  <2>6. CASE Asked
    BY Zenon, <2>2, <2>4, <2>6 DEF Asked, Answered, Kept
  <2>7. CASE Kept("client", "refresh") /\ Answered
    BY Zenon, <2>2, <2>5, <2>7 DEF Answered, Returned, Kept
  <2>8. CASE Kept("client", "refresh") /\ Kept("server", "refresh_result")
    BY Zenon, <2>2, <2>5, <2>8 DEF Returned, Kept
  <2> QED
    BY Zenon, <2>3, <2>4, <2>6, <2>7, <2>8
<1> QED
  BY Zenon, <1>3, <1>4 DEF Refreshing

\* The writer of an acknowledgement is told of it when it leaves the queue.
Told(p) ==
    \/ fate'[p]["close_ack"] = fate[p]["close_ack"]
    \/ Held(p, "close_ack") /\ (Single(p, "close_ack") => ~Held(p, "close_ack")')

\* A step that takes no acknowledgement from p further.
Steady(p) ==
    /\ Fewer(p, "close_ack") /\ Told(p)
    /\ loop'[p] = "acking" <=> loop[p] = "acking"
    /\ closeAck'[Peer(p)] = "closed" => closeAck[Peer(p)] = "closed"

LEMMA HaltsTold ==
    ASSUME NEW e \in End, Halts(e), writer' = writer
    PROVE  \A p \in End : Told(p)
<1>1. "close_ack" \in Op
  BY DEF Op
<1>2. ASSUME NEW p \in End, In(queue[p], "close_ack"), queue'[p] = <<>> PROVE Told(p)
  <2>1. Single(p, "close_ack") => writer'[p] # "close_ack"
    BY Zenon, <1>2 DEF Single
  <2> QED
    BY Zenon, <1>2, <2>1, LessEmpty DEF Told, Held
<1> QED
  BY Zenon, <1>1, <1>2 DEF Halts, Told

LEMMA SteadyWay ==
    ASSUME IInv, [Next]_vars, NEW p \in End, Steady(p)
    PROVE  AckWay(p)'
<1>1. AckWay(p) /\ loop[p] \in {"none", "reading", "replying", "acking", "exited"}
  BY DEF IInv, Acking, TypeOK
<1>2. /\ down[p] => down'[p]
      /\ loop[p] = "exited" => loop'[p] = "exited"
      /\ state[p] = "closed" => state'[p] = "closed"
  BY Zenon, OnwardStep DEF Onward
<1>3. Sent(p, "close_ack")' => Sent(p, "close_ack")
  BY Zenon DEF Steady, Fewer, Sent
<1>4. loop[p] \in {"acking", "exited"} => loop'[p] \in {"acking", "exited"}
  BY <1>2 DEF Steady
<1>5. Held(p, "close_ack")' =>
        /\ loop'[p] = "acking" => fate'[p]["close_ack"] = "queued"
        /\ loop'[p] = "acking" \/ state'[p] = "closed" \/ down'[p]
  BY Zenon, <1>1, <1>2 DEF AckWay, Steady, Fewer, Told
<1>6. In(wire[p], "close_ack")' \/ closeAck'[Peer(p)] = "closed" =>
        state'[p] = "closed" \/ (loop'[p] = "acking" /\ fate'[p]["close_ack"] = "none")
  BY Zenon, <1>1, <1>2 DEF AckWay, Steady, Fewer, Told, Single, Sent
<1>7. (Peer(p))' = Peer(p)
  BY DEF Peer
<1> QED
  BY Zenon, <1>1, <1>3, <1>4, <1>5, <1>6, <1>7 DEF AckWay, Steady, Fewer

\* The way of an acknowledgement.
LEMMA AckingStep ==
    ASSUME IInv, [Next]_vars
    PROVE  Acking'
<1> USE DEF session, control, refresh, closing
<1>1. TypeOK /\ "close_ack" \in Op /\ \A x \in End : Peer(x) \in End
  BY DEF IInv, Op, End, Peer
<1>2. ASSUME \A p \in End : Steady(p) PROVE Acking'
  BY Zenon, <1>2, SteadyWay DEF Acking
<1>3. ASSUME UNCHANGED <<queue, writer, wire, fate, loop, closeAck>> PROVE Acking'
  BY Zenon, <1>1, <1>2, <1>3, SameFewer DEF AllFewer, Steady, Told
<1>4. ASSUME AllFewer, \A x \in End : Told(x),
             \A x \in End : loop'[x] = "acking" <=> loop[x] = "acking",
             \A x \in End : closeAck'[x] = "closed" => closeAck[x] = "closed"
      PROVE  Acking'
  BY Zenon, <1>1, <1>2, <1>4 DEF AllFewer, Steady
<1>5. ASSUME NEW e \in End, NEW op \in {"close", "refresh", "refresh_result"},
             Denied(e) \/ Granted(e, op),
             \A x \in End : loop'[x] = "acking" <=> loop[x] = "acking", UNCHANGED closeAck
      PROVE  Acking'
  <2>1. op # "close_ack"
    OBVIOUS
  <2>2. CASE Denied(e)
    BY Zenon, <1>4, <1>5, <2>2, HaltsTold DEF Denied
  <2>3. CASE Granted(e, op)
    BY Zenon, <1>1, <1>2, <1>5, <2>1, <2>3 DEF Granted, Puts, Steady, Told
  <2> QED
    BY <1>5, <2>2, <2>3
<1>6. ASSUME NEW e \in End, Fewer(e, "close_ack"), loop'[e] = "exited", UNCHANGED closeAck,
             state'[e] = "closed" \/
               /\ down'[e]
               /\ ~In(wire[e], "close_ack") /\ closeAck[Peer(e)] # "closed"
      PROVE  AckWay(e)'
  <2>1. AckWay(e) /\ (Sent(e, "close_ack")' => Sent(e, "close_ack"))
    BY Zenon, <1>6 DEF IInv, Acking, Fewer, Sent
  <2>2. (Peer(e))' = Peer(e)
    BY DEF Peer
  <2> QED
    BY <1>6, <2>1, <2>2 DEF AckWay, Fewer
<1>7. ASSUME NEW e \in End, StartControl(e) PROVE Acking'
  <2>1. \A x \in End : loop'[x] = "acking" <=> loop[x] = "acking"
    BY <1>7 DEF StartControl, IInv, TypeOK
  <2> QED
    BY Zenon, <1>4, <1>7, <2>1, StepFewer DEF StartControl, Told, IInv
<1>8. ASSUME NEW e \in End, WriterTakes(e) PROVE Acking'
  <2>1. /\ queue[e] # <<>> /\ queue[e] \in Seq(Op)
        /\ queue'[e] = Tail(queue[e]) /\ Head(queue[e]) \in Op
        /\ In(queue[e], Head(queue[e]))
        /\ Lone(queue[e], Head(queue[e])) => ~In(Tail(queue[e]), Head(queue[e]))
    BY <1>8, LessTail DEF WriterTakes, IInv, TypeOK
  <2>2. \A x \in End : Told(x)
    <3>1. CASE Over(e)
      <4>1. Inform(e, Head(queue[e]), "err") /\ writer' = [writer EXCEPT ![e] = "exited"]
        BY Zenon, <1>8, <3>1 DEF WriterTakes
      <4>2. \A x \in End :
              fate'[x]["close_ack"] = fate[x]["close_ack"] \/ (x = e /\ "close_ack" = Head(queue[e]))
        BY <1>1, <2>1, <4>1, InformIs
      <4>3. writer'[e] # "close_ack"
        BY <4>1 DEF IInv, TypeOK
      <4> QED
        BY Zenon, <2>1, <4>2, <4>3 DEF Told, Single, Held
    <3>2. CASE ~Over(e)
      BY Zenon, <1>8, <3>2 DEF WriterTakes, Told
    <3> QED
      BY <3>1, <3>2
  <2> QED
    BY Zenon, <1>4, <1>8, <2>2, StepFewer DEF WriterTakes, IInv
<1>9. ASSUME NEW e \in End, WriterWrites(e) PROVE Acking'
  <2>1. PICK op \in Op : op = writer[e]
    BY Zenon, <1>9 DEF WriterWrites
  <2>2. /\ AllKept
        /\ \A x \in End, o \in Op :
             In(wire[x], o)' => In(wire[x], o) \/ (x = e /\ o = op /\ ~down[e])
        /\ Single(e, op) => ~Held(e, op)'
    BY Zenon, <1>1, <1>9, <2>1, WritesKept
  <2>3. PICK f \in {"none", "err"} : f = (IF down[e] THEN "err" ELSE "none")
    OBVIOUS
  <2>4. Inform(e, op, f)
    BY Zenon, <1>9, <2>1, <2>3 DEF WriterWrites
  <2>5. /\ fate[e][op] = "queued" => fate'[e][op] = f
        /\ \A x \in End, o \in Op : fate'[x][o] = fate[x][o] \/ (x = e /\ o = op)
    BY <1>1, <2>4, InformIs
  <2>6. Held(e, op) /\ UNCHANGED <<loop, closeAck, state, down>>
    BY Zenon, <1>9, <2>1 DEF WriterWrites, Held
  <2>7. ASSUME NEW p \in End, p # e \/ op # "close_ack" \/ down[e] PROVE AckWay(p)'
    <3>1. Fewer(p, "close_ack")
      BY Zenon, <1>1, <2>2, <2>7 DEF AllKept, Kept, Fewer
    <3>2. Told(p)
      BY Zenon, <1>1, <2>2, <2>5, <2>6, <2>7 DEF Told
    <3> QED
      BY Zenon, <2>6, <2>7, <3>1, <3>2, SteadyWay DEF Steady
  <2>8. CASE op = "close_ack" /\ ~down[e]
    <3>1. AckWay(e) /\ Held(e, "close_ack") /\ Sent(e, "close_ack")
      BY Zenon, <2>6, <2>8 DEF IInv, Acking, Sent
    <3>2. Kept(e, "close_ack") /\ ~Held(e, "close_ack")'
      BY Zenon, <1>1, <2>2, <2>8, <3>1 DEF AllKept, AckWay
    <3>3. f = "none"
      BY <2>3, <2>8
    <3>4. state[e] = "closed" \/ (loop[e] = "acking" /\ fate'[e]["close_ack"] = "none")
      BY Zenon, <2>5, <2>8, <3>1, <3>3 DEF AckWay
    <3>5. AckWay(e)'
      BY Zenon, <1>1, <2>6, <3>1, <3>2, <3>4 DEF AckWay, Kept
    <3> QED
      BY Zenon, <2>7, <3>5 DEF Acking
  <2> QED
    BY Zenon, <2>7, <2>8 DEF Acking
<1>10. ASSUME NEW e \in End, WriterExits(e) PROVE Acking'
  <2>1. \A x \in End : loop'[x] = "acking" <=> loop[x] = "acking"
    BY <1>10 DEF WriterExits, IInv, TypeOK
  <2> QED
    BY Zenon, <1>4, <1>10, <2>1, StepFewer DEF WriterExits, Told, IInv
<1>11. ASSUME NEW e \in End, OnRefresh(e) PROVE Acking'
  <2>0. Arrived(e, "refresh") /\ Answer(e, "refresh_result", "replying")
    BY Zenon, <1>11 DEF OnRefresh
  <2>1. "refresh" \in Op /\ "refresh_result" \in Op /\ TypeOK
    BY DEF IInv, Op
  <2>2. \/ Denied(e) /\ loop' = [loop EXCEPT ![e] = "exited"]
        \/ Granted(e, "refresh_result") /\ loop' = [loop EXCEPT ![e] = "replying"]
    BY Zenon, <2>1, <2>0, AnswerIs
  <2>3. \A x \in End : loop'[x] = "acking" <=> loop[x] = "acking"
    BY <1>11, <2>1, <2>2 DEF OnRefresh, Arrived, TypeOK
  <2> QED
    BY Zenon, <1>5, <2>1, <2>2, <2>3, <1>11 DEF OnRefresh
<1>12. ASSUME NEW e \in End, OnRefreshResult(e) PROVE Acking'
  BY Zenon, <1>4, <1>12, StepFewer, Solicited DEF OnRefreshResult, Told, IInv
<1>13. ASSUME NEW e \in End, OnClose(e) PROVE Acking'
  <2>0. Arrived(e, "close") /\ Answer(e, "close_ack", "acking")
    BY Zenon, <1>13 DEF OnClose
  <2>1. "close" \in Op /\ "close_ack" \in Op /\ TypeOK
    BY DEF IInv, Op
  <2>2. \/ Denied(e) /\ loop' = [loop EXCEPT ![e] = "exited"]
        \/ Granted(e, "close_ack") /\ loop' = [loop EXCEPT ![e] = "acking"]
    BY Zenon, <2>1, <2>0, AnswerIs
  <2>3. loop[e] = "reading" /\ UNCHANGED closeAck
    BY Zenon, <1>13 DEF OnClose, Arrived
  <2>4. CASE Denied(e) /\ loop' = [loop EXCEPT ![e] = "exited"]
    <3>1. \A x \in End : loop'[x] = "acking" <=> loop[x] = "acking"
      BY <2>1, <2>3, <2>4 DEF TypeOK
    <3> QED
      BY Zenon, <1>4, <2>3, <2>4, <3>1, HaltsTold DEF Denied
  <2>5. CASE /\ Granted(e, "close_ack") /\ loop' = [loop EXCEPT ![e] = "acking"]
             /\ fate'[e]["close_ack"] = "queued"
             /\ In(wire[e], "close_ack")' => In(wire[e], "close_ack")
    <3>1. loop'[e] = "acking" /\ \A x \in End : x # e => loop'[x] = loop[x]
      BY <2>1, <2>5 DEF TypeOK
    <3>2. ASSUME NEW p \in End, p # e PROVE AckWay(p)'
      BY Zenon, <2>1, <2>3, <2>5, <3>1, <3>2, SteadyWay DEF Granted, Puts, Told, Steady
    <3>3. ~Sent(e, "close_ack") /\ closeAck[Peer(e)] # "closed"
      BY <2>3 DEF IInv, Acking, AckWay
    <3>4. Single(e, "close_ack")' /\ ~In(wire[e], "close_ack")'
      BY Zenon, <2>5, <3>3 DEF Granted, Puts, Sent
    <3>5. closeAck'[(Peer(e))'] # "closed"
      BY <2>3, <3>3 DEF Peer
    <3>6. AckWay(e)'
      BY <2>5, <3>1, <3>4, <3>5 DEF AckWay
    <3> QED
      BY Zenon, <3>2, <3>6 DEF Acking
  <2> QED
    BY Zenon, <2>1, <2>0, <2>4, <2>5, AnswerIs
<1>14. ASSUME NEW e \in End, OnCloseAck(e) PROVE Acking'
  <2>1. /\ Arrived(e, "close_ack") /\ wire' = Rest(e)
        /\ closeAck' = [closeAck EXCEPT ![e] = "closed"] /\ UNCHANGED <<fate, loop>>
    BY Zenon, <1>14, Solicited DEF OnCloseAck, Consume, Rest
  <2>2. \A x \in End : Fewer(x, "close_ack")
    BY Zenon, <1>1, <1>14, StepFewer DEF AllFewer
  <2>3. PICK p \in End : p = Peer(e) /\ Peer(p) = e
    BY DEF End, Peer
  <2>4. ASSUME NEW x \in End, x # p PROVE AckWay(x)'
    <3>1. closeAck'[Peer(x)] = closeAck[Peer(x)]
      BY <1>1, <2>1, <2>3, <2>4 DEF TypeOK, Peer, End
    <3> QED
      BY Zenon, <2>1, <2>2, <3>1, SteadyWay DEF Told, Steady
  <2>5. AckWay(p) /\ In(wire[p], "close_ack") /\ ~Sent(p, "close_ack")'
    BY Zenon, <1>1, <2>1, <2>2, <2>3, TakenFrame, TakenLone DEF IInv, Acking, AckWay
  <2>6. Single(p, "close_ack")'
    BY Zenon, <2>2, <2>5 DEF AckWay, Fewer
  <2>7. /\ loop'[p] \in {"acking", "exited"}
        /\ state'[p] = "closed" \/ (loop'[p] = "acking" /\ fate'[p]["close_ack"] = "none")
    BY Zenon, <2>1, <2>5, OnwardStep DEF AckWay, Sent, Onward
  <2>8. AckWay(p)'
    BY Zenon, <2>5, <2>6, <2>7 DEF AckWay, Sent
  <2> QED
    BY Zenon, <2>4, <2>8 DEF Acking
<1>15. ASSUME NEW e \in End, LoopReplied(e) PROVE Acking'
  <2>1. \A x \in End : loop'[x] = "acking" <=> loop[x] = "acking"
    BY <1>15 DEF LoopReplied, IInv, TypeOK
  <2> QED
    BY Zenon, <1>4, <1>15, <2>1, SameFewer DEF LoopReplied, Told
<1>16. ASSUME NEW e \in End, LoopAcked(e) PROVE Acking'
  <2>1. "peer" \in {"peer", "exhausted", "violation"} /\ loop'[e] = "exited"
        /\ \A x \in End : x # e => loop'[x] = loop[x]
    BY <1>16 DEF LoopAcked, IInv, TypeOK
  <2>2. Halts(e) /\ state'[e] = "closed" /\ UNCHANGED <<writer, closeAck>>
    BY Zenon, <1>1, <1>16, <2>1, EndSessionIs DEF LoopAcked
  <2>3. \A x \in End : Told(x) /\ Fewer(x, "close_ack")
    BY Zenon, <1>1, <1>16, <2>2, HaltsTold, StepFewer DEF AllFewer
  <2>4. ASSUME NEW p \in End, p # e PROVE AckWay(p)'
    BY Zenon, <2>1, <2>2, <2>3, <2>4, SteadyWay DEF Steady
  <2>5. AckWay(e)'
    BY <1>6, <2>1, <2>2, <2>3
  <2> QED
    BY Zenon, <2>4, <2>5 DEF Acking
<1>17. ASSUME NEW e \in End, LoopFailed(e) PROVE Acking'
  <2>1. loop'[e] = "exited" /\ \A x \in End : x # e => loop'[x] = loop[x]
    BY <1>17 DEF LoopFailed, IInv, TypeOK
  <2>2. UNCHANGED <<fate, closeAck, state, down>> /\ \A x \in End : Fewer(x, "close_ack")
    BY Zenon, <1>1, <1>17, SameFewer DEF LoopFailed, AllFewer
  <2>3. ASSUME NEW p \in End, p # e \/ loop[p] # "acking" PROVE AckWay(p)'
    <3>1. loop'[p] = "acking" <=> loop[p] = "acking"
      BY <2>1, <2>3
    <3> QED
      BY Zenon, <2>2, <3>1, SteadyWay DEF Told, Steady
  <2>4. CASE loop[e] = "acking"
    <3>1. Failed(e, "close_ack")
      BY <1>17, <2>4 DEF LoopFailed
    <3>2. Over(e) /\ fate[e]["close_ack"] # "none"
      BY <1>1, <3>1 DEF Failed, IInv, Stopping
    <3>3. down[e]
      BY <2>4, <3>2 DEF Over, IInv, Stopping
    <3>4. AckWay(e) /\ (Sent(e, "close_ack")' => Sent(e, "close_ack"))
      BY Zenon, <2>2 DEF IInv, Acking, Fewer, Sent
    <3>5. AckWay(e)'
      BY <1>6, <2>1, <2>2, <3>2, <3>3, <3>4 DEF AckWay, Fewer
    <3> QED
      BY Zenon, <2>3, <3>5 DEF Acking
  <2> QED
    BY Zenon, <2>3, <2>4 DEF Acking
<1>18. ASSUME NEW e \in End, WriteClose(e) PROVE Acking'
  <2>1. "close" \in Op /\ "client" \in End /\ TypeOK
    BY DEF IInv, Op, End
  <2>2. Denied(e) \/ Granted(e, "close")
    BY Zenon, <1>18, <2>1, WriteIs DEF WriteClose
  <2> QED
    BY Zenon, <1>5, <1>18, <2>1, <2>2 DEF WriteClose
<1>19. ASSUME NEW e \in End, CloseFailed(e) PROVE Acking'
  <2>1. \A x \in End : fate'[x]["close_ack"] = fate[x]["close_ack"]
    BY <1>1, <1>19 DEF CloseFailed, Forget, TypeOK, Op
  <2> QED
    BY Zenon, <1>4, <1>19, <2>1, SameFewer DEF CloseFailed, Told
<1>20. ASSUME NEW e \in End, Acknowledged(e) \/ CloseTimeout(e) \/ GoesDown(e)
       PROVE  Acking'
  BY Zenon, <1>3, <1>20 DEF Acknowledged, CloseTimeout, GoesDown
<1>21. ASSUME NEW e \in End, FinishClose(e) PROVE Acking'
  <2>1. \A x \in End : closeAck'[x] = "closed" => closeAck[x] = "closed"
    BY <1>21 DEF FinishClose, IInv, TypeOK
  <2> QED
    BY Zenon, <1>1, <1>4, <1>21, <2>1, StepFewer, StopHalts, HaltsTold DEF FinishClose
<1>22. ASSUME NEW e \in End, CallClose(e) PROVE Acking'
  <2>1. \A x \in End : closeAck'[x] = "closed" => closeAck[x] = "closed"
    BY <1>22 DEF CallClose, IInv, TypeOK
  <2> QED
    BY Zenon, <1>4, <1>22, <2>1, SameFewer DEF CallClose, Told
<1>23. ASSUME NEW e \in End, Suspend(e) PROVE Acking'
  BY Zenon, <1>1, <1>4, <1>23, StepFewer, StopHalts, HaltsTold DEF Suspend
<1>24. CASE CallRefresh
  <2>1. "refresh" \in Op /\ "client" \in End /\ TypeOK
    BY DEF IInv, Op, End
  <2>2. Denied("client") \/ Granted("client", "refresh")
    BY Zenon, <1>24, <2>1, WriteIs DEF CallRefresh
  <2> QED
    BY Zenon, <1>5, <1>24, <2>1, <2>2 DEF CallRefresh
<1>25. CASE RefreshFailed
  <2>1. \A x \in End : fate'[x]["close_ack"] = fate[x]["close_ack"]
    BY <1>1, <1>25 DEF RefreshFailed, Forget, TypeOK, Op
  <2> QED
    BY Zenon, <1>4, <1>25, <2>1, SameFewer DEF RefreshFailed, Told
<1>26. CASE RefreshReturns \/ RefreshAbandoned \/ Done \/ UNCHANGED vars
  BY Zenon, <1>3, <1>26 DEF RefreshReturns, RefreshAbandoned, Done, vars
<1> HIDE DEF session, control, refresh, closing
<1> QED
  BY Zenon, <1>7, <1>8, <1>9, <1>10, <1>11, <1>12, <1>13, <1>14, <1>15, <1>16,
     <1>17, <1>18, <1>19, <1>20, <1>21, <1>22, <1>23, <1>24, <1>25, <1>26
  DEF Next, Writer, Loop, Closer, Refresher

-------------------------------------------------------------------------------
(* The theorems. *)

\* IInv holds in every state: each goroutine of the control channel preserves
\* it, whatever the others do and whenever the connection is lost.
THEOREM Invariance == Spec => []IInv
<1>1. Init => IInv
  <2>1. ASSUME Init PROVE TypeOK
    <3>1. stopped \in [End -> BOOLEAN] /\ down \in [End -> BOOLEAN] 
          /\ exhausted \in [End -> BOOLEAN] /\ result \in BOOLEAN
      BY Zenon, <2>1 DEF Init
    <3>2. TypedSession /\ TypedCalls
      BY <2>1, <3>1 DEF Init, TypedSession, TypedCalls
    <3>3. /\ queue \in [End -> Seq(Op)] /\ wire \in [End -> Seq(Op)]
          /\ writer \in [End -> Op \cup {"none", "idle", "exited"}]
          /\ fate \in [End -> [Op -> {"none", "queued", "err"}]]
          /\ \A e \in End : Len(queue[e]) <= MaxFrames
      BY <2>1, ControlAssumption DEF Init
    <3> QED
      BY Zenon, <3>1, <3>2, <3>3 DEF TypeOK, TypedSession, TypedCalls
  <2>2. ASSUME Init PROVE \A e \in End, op \in Op : ~Sent(e, op) /\ Single(e, op)
    BY <2>2 DEF Init, Sent, Held, Single, In, Lone, Op
  <2>3. ASSUME Init PROVE Stopping /\ Delivering
    BY <2>3 DEF Init, Stopping, Delivering
  <2>4. ASSUME Init PROVE Refreshing
    BY <2>2, <2>4 DEF Refreshing, End, Op
  <2>5. ASSUME Init PROVE Closing /\ Acking
    <3>1. \A e \in End : Peer(e) \in End
      BY DEF End, Peer
    <3> QED
      BY Zenon, <2>2, <2>5, <3>1 DEF Init, Closing, Acking, AckWay, Sent, Op
  <2> QED
    BY <2>1, <2>3, <2>4, <2>5 DEF IInv
<1>2. IInv /\ [Next]_vars => IInv'
  BY Zenon, TypeStep, StoppingStep, RefreshingStep, ClosingStep, DeliveringStep, AckingStep DEF IInv
<1> QED
  BY <1>1, <1>2, PTL DEF Spec

\* Two correct ends of a control channel agree, for every limit of the write
\* queue: neither controlLoop meets a frame that it must take for a protocol
\* violation, SessionEnded is delivered once at each end, and a Close that
\* was acknowledged was acted on by the peer.
THEOREM PeerAgreement == Spec => []PeersAgree
<1>1. IInv => PeersAgree
  <2> SUFFICES ASSUME IInv PROVE PeersAgree
    OBVIOUS
  <2>1. TypeOK /\ CorrectPeersNeverViolate /\ EndedOnce
    BY Zenon DEF IInv, Delivering, CorrectPeersNeverViolate, EndedOnce
  <2>2. AckIsEarned
    <3> SUFFICES ASSUME NEW e \in End, closer[e] = "acked"
                 PROVE  state[Peer(e)] = "closed" \/ loop[Peer(e)] = "acking"
      BY Zenon DEF AckIsEarned
    <3>1. Peer(e) \in End /\ Peer(Peer(e)) = e
      BY DEF End, Peer
    <3> QED
      BY Zenon, <3>1 DEF IInv, Closing, Acking, AckWay
  <2> QED
    BY Zenon, <2>1, <2>2 DEF PeersAgree
<1> QED
  BY <1>1, Invariance, PTL

================================================================================
