------------------------- MODULE ServerRegistryProofs -------------------------
(***************************************************************************)
(* Theorems about ServerRegistry, for every finite set of connections, any *)
(* number of drains, timers and calls of Revoke, and every limit.  IInv is *)
(* inductive.  The accounts rest on what a position of a handler or of a   *)
(* closer says about its session (Positions): a session is registered,     *)
(* listed or remembered only after its admission, and it is closed before  *)
(* anyone unlinks it.  Draining and shutdown rest on Ending: a drain that  *)
(* closes has every session in its hands.                                  *)
(***************************************************************************)
EXTENDS ServerRegistry, FiniteSetTheorems, TLAPS

\* The types of everything but pending, which PendingIsExact gives.
Shape ==
    /\ pc \in [Handler -> {"new", "hello", "admit", "serving", "unlink", "unmap", "done"}]
    /\ alive \in [Handler -> BOOLEAN]
    /\ state \in [Handler -> {"None", "Active", "Suspended", "Closed"}]
    /\ draining \in BOOLEAN /\ changed \in BOOLEAN
    /\ sessions \subseteq Handler
    /\ terminals \in Seq(Handler)
    /\ groupClosed \in BOOLEAN /\ members \subseteq Handler
    /\ todo \in [Closer -> SUBSET Handler]
    /\ target \in [Closer -> Handler \cup {NoSession}]
    /\ step \in [Closer -> {"idle", "unlink", "unmap"}]
    /\ drain \in [Drainer -> {"off", "check", "wait", "closing", "done"}]
    /\ serve \in {"accepting", "closing", "waiting", "returned"}

\* The limits of the sessions map and of the terminal cache.
Bounded == Cardinality(sessions) <= MaxSessions /\ Len(terminals) <= Cap

\* The handshakes that are not authenticated, which pending counts.
Greeting == {h \in Handler : pc[h] = "hello"}

Counted == pending = Cardinality(Greeting) /\ pending <= MaxPending

\* The id is not in the terminal cache.
Absent(h) == \A i \in 1..Len(terminals) : terminals[i] # h

\* No id is in the terminal cache twice.
NoRepeat == \A i, j \in 1..Len(terminals) : terminals[i] = terminals[j] => i = j

\* A session that does not exist yet is nowhere; an active one is served; one
\* that is being removed is closed.
Positions ==
    /\ \A h \in Handler :
         /\ pc[h] \in {"new", "hello", "admit"} => state[h] = "None"
         /\ state[h] = "None" =>
              /\ h \notin sessions /\ h \notin members
              /\ Absent(h)
              /\ \A c \in Closer : h \notin todo[c]
         /\ state[h] = "Active" => pc[h] = "serving"
         /\ pc[h] \in {"unlink", "unmap"} => state[h] = "Closed"
         /\ h \in sessions => Absent(h)
    /\ \A c \in Closer :
         step[c] # "idle" => target[c] \in Handler /\ state[target[c]] = "Closed"

\* What a drain and the end of Serve have in their hands.
Ending ==
    /\ \A d \in Drainer :
         /\ drain[d] # "off" => draining
         /\ drain[d] = "closing" => \A h \in sessions :
               h \in todo[d] \/ (step[d] # "idle" /\ target[d] = h)
    /\ serve = "returned" => \A h \in Handler : pc[h] \in {"new", "done"}

IInv ==
    /\ Shape /\ Bounded /\ Counted
    /\ Positions /\ NoRepeat /\ GroupSeesSessions
    /\ Ending /\ DrainIsTold /\ DrainedIsEmpty

-------------------------------------------------------------------------------
(* The terminal cache. *)

\* Tail drops the oldest id and shifts the others.
LEMMA TailIs ==
    ASSUME NEW S, NEW q \in Seq(S), q # <<>>
    PROVE  /\ Tail(q) \in Seq(S) /\ Len(q) \in Nat \ {0} /\ Len(Tail(q)) = Len(q) - 1
           /\ \A i \in 1..(Len(q) - 1) : Tail(q)[i] = q[i + 1]
  OBVIOUS

\* Append adds an id behind the others.
LEMMA AppendIs ==
    ASSUME NEW S, NEW q \in Seq(S), NEW x \in S
    PROVE  /\ Append(q, x) \in Seq(S) /\ Len(q) \in Nat /\ Len(Append(q, x)) = Len(q) + 1
           /\ \A i \in 1..Len(q) : Append(q, x)[i] = q[i]
           /\ Append(q, x)[Len(q) + 1] = x
  OBVIOUS

\* A sequence without repetitions has as many elements as it is long.
LEMMA CountsOnce ==
    ASSUME NEW S, NEW q \in Seq(S), \A i, j \in 1..Len(q) : q[i] = q[j] => i = j
    PROVE  Cardinality(Range(q)) = Len(q)
<1>1. Len(q) \in Nat /\ DOMAIN q = 1..Len(q) /\ q \in [1..Len(q) -> S]
  OBVIOUS
<1>2. q \in Bijection(1..Len(q), Range(q))
  <2>1. q \in [1..Len(q) -> Range(q)]
    BY <1>1 DEF Range
  <2>2. \A y \in Range(q) : \E i \in 1..Len(q) : q[i] = y
    BY Zenon, <1>1 DEF Range
  <2> QED
    BY <2>1, <2>2 DEF Bijection, Injection, Surjection, IsInjective
<1>3. ExistsBijection(1..Len(q), Range(q))
  BY Zenon, <1>2 DEF ExistsBijection
<1> QED
  BY <1>1, <1>3, FS_CountingElements

\* Dropping the oldest id adds none and repeats none.
LEMMA DropOldest ==
    ASSUME NEW q \in Seq(Handler), q # <<>>,
           \A i, j \in 1..Len(q) : q[i] = q[j] => i = j
    PROVE  /\ Tail(q) \in Seq(Handler) /\ Len(Tail(q)) = Len(q) - 1
           /\ \A i, j \in 1..Len(Tail(q)) : Tail(q)[i] = Tail(q)[j] => i = j
           /\ \A x : (\A i \in 1..Len(q) : q[i] # x) => \A i \in 1..Len(Tail(q)) : Tail(q)[i] # x
<1>1. /\ Tail(q) \in Seq(Handler) /\ Len(q) \in Nat \ {0} /\ Len(Tail(q)) = Len(q) - 1
      /\ \A i \in 1..(Len(q) - 1) : Tail(q)[i] = q[i + 1]
  BY TailIs
<1> QED
  BY <1>1

\* Adding an id that is absent repeats none.
LEMMA AddNewest ==
    ASSUME NEW q \in Seq(Handler), NEW h \in Handler, \A i \in 1..Len(q) : q[i] # h,
           \A i, j \in 1..Len(q) : q[i] = q[j] => i = j
    PROVE  /\ Append(q, h) \in Seq(Handler) /\ Len(Append(q, h)) = Len(q) + 1
           /\ \A i, j \in 1..Len(Append(q, h)) : Append(q, h)[i] = Append(q, h)[j] => i = j
           /\ \A x : x # h /\ (\A i \in 1..Len(q) : q[i] # x) =>
                        \A i \in 1..Len(Append(q, h)) : Append(q, h)[i] # x
<1>1. /\ Append(q, h) \in Seq(Handler) /\ Len(q) \in Nat /\ Len(Append(q, h)) = Len(q) + 1
      /\ \A i \in 1..Len(q) : Append(q, h)[i] = q[i]
      /\ Append(q, h)[Len(q) + 1] = h
  BY AppendIs
<1> QED
  BY <1>1

\* The cache after an id expired.
LEMMA ExpireKeeps ==
    ASSUME Shape, Bounded, NoRepeat, ExpireTerminal
    PROVE  /\ terminals' \in Seq(Handler) /\ Len(terminals') <= Cap /\ NoRepeat'
           /\ \A x \in Handler : Absent(x) => Absent(x)'
<1>1. /\ Tail(terminals) \in Seq(Handler) /\ Len(Tail(terminals)) = Len(terminals) - 1
      /\ \A i, j \in 1..Len(Tail(terminals)) : Tail(terminals)[i] = Tail(terminals)[j] => i = j
      /\ \A x : Absent(x) => \A i \in 1..Len(Tail(terminals)) : Tail(terminals)[i] # x
  BY DropOldest DEF Shape, NoRepeat, ExpireTerminal, Absent
<1>2. terminals' = Tail(terminals)
  BY DEF ExpireTerminal
<1>3. Len(terminals) \in Nat /\ Cap \in Nat /\ Len(terminals) <= Cap
  BY RegistryAssumption DEF Shape, Bounded, Cap
<1> QED
  BY <1>1, <1>2, <1>3 DEF NoRepeat, Absent

\* What removeSession does under mu: the session, if it is there, moves to the
\* cache, which stays in its bound; Drain is told.
LEMMA UnmapMoves ==
    ASSUME Shape, Bounded, NoRepeat, NEW h \in Handler, h \in sessions => Absent(h), Unmap(h)
    PROVE  /\ sessions' = sessions \ {h}
           /\ terminals' \in Seq(Handler) /\ Len(terminals') <= Cap /\ NoRepeat'
           /\ \A x \in Handler : Absent(x) /\ ~(x = h /\ h \in sessions) => Absent(x)'
           /\ changed' \in BOOLEAN /\ (changed => changed')
           /\ sessions' # sessions => changed'
<1>1. Len(terminals) \in Nat /\ Cap \in Nat /\ Cap >= 2 /\ Len(terminals) <= Cap
  BY RegistryAssumption DEF Shape, Bounded, Cap
<1>2. CASE h \notin sessions
  <2>1. sessions' = sessions /\ terminals' = terminals /\ changed' = changed
    BY Zenon, <1>2 DEF Unmap
  <2> QED
    BY Zenon, <1>2, <2>1 DEF Shape, Bounded, NoRepeat, Absent
<1>3. CASE h \in sessions
  <2> DEFINE room == IF Len(terminals) >= Cap THEN Tail(terminals) ELSE terminals
  <2>1. sessions' = sessions \ {h} /\ terminals' = Append(room, h) /\ changed' = TRUE
    BY Zenon, <1>3 DEF Unmap, Record
  <2>2. /\ room \in Seq(Handler) /\ Len(room) \in Nat /\ Len(room) < Cap
        /\ \A i, j \in 1..Len(room) : room[i] = room[j] => i = j
        /\ \A x : Absent(x) => \A i \in 1..Len(room) : room[i] # x
    <3>1. CASE Len(terminals) >= Cap
      <4>1. terminals # <<>>
        BY <1>1, <3>1
      <4>2. /\ Tail(terminals) \in Seq(Handler) /\ Len(Tail(terminals)) = Len(terminals) - 1
            /\ \A i, j \in 1..Len(Tail(terminals)) :
                 Tail(terminals)[i] = Tail(terminals)[j] => i = j
            /\ \A x : Absent(x) => \A i \in 1..Len(Tail(terminals)) : Tail(terminals)[i] # x
        BY <4>1, DropOldest DEF Shape, NoRepeat, Absent
      <4> QED
        BY <1>1, <3>1, <4>2
    <3>2. CASE ~(Len(terminals) >= Cap)
      BY <1>1, <3>2 DEF Shape, NoRepeat, Absent
    <3> QED
      BY Zenon, <3>1, <3>2
  <2> HIDE DEF room
  <2>3. \A i \in 1..Len(room) : room[i] # h
    BY <1>3, <2>2
  <2>4. /\ Append(room, h) \in Seq(Handler) /\ Len(Append(room, h)) = Len(room) + 1
        /\ \A i, j \in 1..Len(Append(room, h)) : Append(room, h)[i] = Append(room, h)[j] => i = j
        /\ \A x : x # h /\ (\A i \in 1..Len(room) : room[i] # x) =>
                     \A i \in 1..Len(Append(room, h)) : Append(room, h)[i] # x
    BY <2>2, <2>3, AddNewest
  <2>5. terminals' \in Seq(Handler) /\ Len(terminals') <= Cap /\ NoRepeat'
    BY <1>1, <2>1, <2>2, <2>4 DEF NoRepeat
  <2>6. \A x \in Handler : Absent(x) /\ x # h => Absent(x)'
    BY <2>1, <2>2, <2>4 DEF Absent
  <2> QED
    BY Zenon, <1>3, <2>1, <2>5, <2>6
<1> QED
  BY <1>2, <1>3
-------------------------------------------------------------------------------
(* One step per action. *)

\* Every action preserves the types.
LEMMA ShapeStep ==
    ASSUME IInv, [Next]_vars
    PROVE  Shape'
<1> USE DEF handlerVars, serverVars, groupVars, closerVars, Goto
<1>1. ASSUME NEW h \in Handler, Accept(h) PROVE Shape'
  <2>1. alive' \in [Handler -> BOOLEAN]
    BY Zenon, <1>1 DEF Accept, IInv, Shape
  <2> QED
    BY <1>1, <2>1 DEF Accept, IInv, Shape
<1>2. ASSUME NEW h \in Handler, Authenticated(h) PROVE Shape'
  BY <1>2 DEF Authenticated, IInv, Shape
<1>3. ASSUME NEW h \in Handler, Refuse(h) PROVE Shape'
  BY <1>3 DEF Refuse, IInv, Shape
<1>4. ASSUME NEW h \in Handler, Admit(h) PROVE Shape'
  BY <1>4 DEF Admit, MayAdmit, JoinGroup, IInv, Shape
<1>5. ASSUME NEW h \in Handler, Suspend(h) PROVE Shape'
  BY <1>5 DEF Suspend, IInv, Shape
<1>6. ASSUME NEW h \in Handler, StartRemoval(h) PROVE Shape'
  BY <1>6 DEF StartRemoval, IInv, Shape
<1>7. ASSUME NEW h \in Handler, HandlerUnlinks(h) PROVE Shape'
  BY <1>7 DEF HandlerUnlinks, IInv, Shape
<1>8. ASSUME NEW h \in Handler, HandlerUnmaps(h) PROVE Shape'
  <2>1. h \in sessions => Absent(h)
    BY DEF IInv, Positions
  <2>2. sessions' \subseteq sessions /\ terminals' \in Seq(Handler) /\ changed' \in BOOLEAN
    BY <1>8, <2>1, UnmapMoves DEF HandlerUnmaps, IInv
  <2> QED
    BY <1>8, <2>2 DEF HandlerUnmaps, IInv, Shape
<1>9. ASSUME NEW h \in Handler, SessionCloses(h) PROVE Shape'
  BY <1>9 DEF SessionCloses, IInv, Shape
<1>10. ASSUME NEW h \in Handler, Disconnect(h) PROVE Shape'
  BY <1>10 DEF Disconnect, IInv, Shape
<1>11. ASSUME NEW c \in Closer, NEW h \in Handler, CloseNext(c, h) PROVE Shape'
  BY <1>11 DEF CloseNext, IInv, Shape
<1>12. ASSUME NEW c \in Closer, CloserUnlinks(c) PROVE Shape'
  BY <1>12 DEF CloserUnlinks, IInv, Shape
<1>13. ASSUME NEW c \in Closer, CloserUnmaps(c) PROVE Shape'
  <2>1. target[c] \in Handler /\ (target[c] \in sessions => Absent(target[c]))
    BY <1>13 DEF CloserUnmaps, IInv, Positions
  <2>2. sessions' \subseteq sessions /\ terminals' \in Seq(Handler) /\ changed' \in BOOLEAN
    BY <1>13, <2>1, UnmapMoves DEF CloserUnmaps, IInv
  <2> QED
    BY <1>13, <2>1, <2>2 DEF CloserUnmaps, NoSession, IInv, Shape
<1>14. ASSUME NEW w \in Worker, StartClosing(w) PROVE Shape'
  BY <1>14 DEF StartClosing, Free, IInv, Shape, Closer
<1>15. ASSUME NEW d \in Drainer, StartDrain(d) PROVE Shape'
  BY <1>15 DEF StartDrain, IInv, Shape
<1>16. ASSUME NEW d \in Drainer, CheckDrained(d) PROVE Shape'
  BY <1>16 DEF CheckDrained, IInv, Shape
<1>17. ASSUME NEW d \in Drainer, Changed(d) PROVE Shape'
  <2>1. changed' \in BOOLEAN
    BY Zenon, <1>17 DEF Changed
  <2> QED
    BY <1>17, <2>1 DEF Changed, IInv, Shape
<1>18. ASSUME NEW d \in Drainer, DrainDeadline(d) PROVE Shape'
  BY <1>18 DEF DrainDeadline, IInv, Shape, Closer
<1>19. ASSUME NEW d \in Drainer, DrainReturns(d) PROVE Shape'
  BY <1>19 DEF DrainReturns, Free, IInv, Shape
<1>20. CASE CloseGroup
  BY <1>20 DEF CloseGroup, Free, IInv, Shape, Closer
<1>21. CASE StopServing
  BY <1>21 DEF StopServing, IInv, Shape, Closer
<1>22. CASE ClosePacket
  BY <1>22 DEF ClosePacket, Free, IInv, Shape
<1>23. CASE Served
  BY <1>23 DEF Served, IInv, Shape
<1>24. CASE ExpireTerminal
  <2>1. terminals' \in Seq(Handler)
    BY <1>24, ExpireKeeps DEF IInv
  <2> QED
    BY <1>24, <2>1 DEF ExpireTerminal, IInv, Shape
<1>25. CASE UNCHANGED vars
  BY <1>25 DEF vars, IInv, Shape
<1> HIDE DEF handlerVars, serverVars, groupVars, closerVars, Goto
<1> QED
  BY Zenon, <1>1, <1>2, <1>3, <1>4, <1>5, <1>6, <1>7, <1>8, <1>9, <1>10,
     <1>11, <1>12, <1>13, <1>14, <1>15, <1>16, <1>17, <1>18, <1>19, <1>20,
     <1>21, <1>22, <1>23, <1>24, <1>25
  DEF Next, Handles, Closes, Drains

\* The map is in its limit after a removal, and after an admission that found
\* room in it.
LEMMA SessionsBounded ==
    ASSUME Shape, Bounded, NEW h \in Handler,
           \/ sessions' \subseteq sessions
           \/ Cardinality(sessions) < MaxSessions /\ sessions' = sessions \cup {h}
    PROVE  Cardinality(sessions') <= MaxSessions
<1>1. IsFiniteSet(sessions) /\ Cardinality(sessions) \in Nat /\ MaxSessions \in Nat
  BY FS_Subset, FS_CardinalityType, RegistryAssumption DEF Shape
<1>2. CASE sessions' \subseteq sessions
  <2>1. IsFiniteSet(sessions') /\ Cardinality(sessions') <= Cardinality(sessions)
    BY <1>1, <1>2, FS_Subset
  <2>2. Cardinality(sessions') \in Nat
    BY <2>1, FS_CardinalityType
  <2> QED
    BY <1>1, <2>1, <2>2 DEF Bounded
<1>3. CASE Cardinality(sessions) < MaxSessions /\ sessions' = sessions \cup {h}
  <2>1. Cardinality(sessions') \in {Cardinality(sessions), Cardinality(sessions) + 1}
    BY <1>1, <1>3, FS_AddElement
  <2> QED
    BY <1>1, <1>3, <2>1
<1> QED
  BY <1>2, <1>3

\* pending counts the handshakes when one begins, one ends, or none does.
LEMMA PendingMoves ==
    ASSUME Counted, NEW h \in Handler,
           \/ Greeting' = Greeting /\ pending' = pending
           \/ Greeting' = Greeting \cup {h} /\ h \notin Greeting /\ pending' = pending + 1
                /\ pending < MaxPending
           \/ Greeting' = Greeting \ {h} /\ h \in Greeting /\ pending' = pending - 1
    PROVE  Counted'
<1>1. IsFiniteSet(Greeting)
  BY FS_Subset, RegistryAssumption DEF Greeting
<1>2. Cardinality(Greeting) \in Nat /\ MaxPending \in Nat
  BY <1>1, FS_CardinalityType, RegistryAssumption
<1>3. CASE Greeting' = Greeting /\ pending' = pending
  BY Zenon, <1>3 DEF Counted
<1>4. CASE Greeting' = Greeting \cup {h} /\ h \notin Greeting /\ pending' = pending + 1
             /\ pending < MaxPending
  <2>1. Cardinality(Greeting') = Cardinality(Greeting) + 1
    BY <1>1, <1>4, FS_AddElement
  <2> QED
    BY <1>2, <1>4, <2>1 DEF Counted
<1>5. CASE Greeting' = Greeting \ {h} /\ h \in Greeting /\ pending' = pending - 1
  <2>1. Cardinality(Greeting') = Cardinality(Greeting) - 1
    BY <1>1, <1>5, FS_RemoveElement
  <2> QED
    BY <1>2, <1>5, <2>1 DEF Counted
<1> QED
  BY <1>3, <1>4, <1>5

\* No action exceeds the limits of the map and of the cache.
LEMMA BoundedStep ==
    ASSUME IInv, [Next]_vars
    PROVE  Bounded'
<1> USE DEF handlerVars, serverVars, groupVars, closerVars
<1>1. ASSUME UNCHANGED <<sessions, terminals>> PROVE Bounded'
  BY Zenon, <1>1 DEF IInv, Bounded
<1>2. ASSUME NEW h \in Handler, Accept(h) PROVE Bounded'
  BY Zenon, <1>1, <1>2 DEF Accept
<1>3. ASSUME NEW h \in Handler, Authenticated(h) PROVE Bounded'
  BY Zenon, <1>1, <1>3 DEF Authenticated
<1>4. ASSUME NEW h \in Handler, Refuse(h) PROVE Bounded'
  BY Zenon, <1>1, <1>4 DEF Refuse
<1>5. ASSUME NEW h \in Handler, Admit(h) PROVE Bounded'
  <2>1. Cardinality(sessions') <= MaxSessions
    BY <1>5, SessionsBounded DEF Admit, MayAdmit, IInv
  <2>2. terminals' = terminals
    BY <1>5 DEF Admit
  <2> QED
    BY <2>1, <2>2 DEF IInv, Bounded
<1>6. ASSUME NEW h \in Handler, Suspend(h) PROVE Bounded'
  BY Zenon, <1>1, <1>6 DEF Suspend
<1>7. ASSUME NEW h \in Handler, StartRemoval(h) PROVE Bounded'
  BY Zenon, <1>1, <1>7 DEF StartRemoval
<1>8. ASSUME NEW h \in Handler, HandlerUnlinks(h) PROVE Bounded'
  BY Zenon, <1>1, <1>8 DEF HandlerUnlinks
<1>9. ASSUME NEW h \in Handler, HandlerUnmaps(h) PROVE Bounded'
  <2>1. h \in sessions => Absent(h)
    BY DEF IInv, Positions
  <2>2. sessions' \subseteq sessions /\ Len(terminals') <= Cap
    BY <1>9, <2>1, UnmapMoves DEF HandlerUnmaps, IInv
  <2>3. Cardinality(sessions') <= MaxSessions
    BY <2>2, SessionsBounded DEF IInv
  <2> QED
    BY <2>2, <2>3 DEF Bounded
<1>10. ASSUME NEW h \in Handler, SessionCloses(h) PROVE Bounded'
  BY Zenon, <1>1, <1>10 DEF SessionCloses
<1>11. ASSUME NEW h \in Handler, Disconnect(h) PROVE Bounded'
  BY Zenon, <1>1, <1>11 DEF Disconnect
<1>12. ASSUME NEW c \in Closer, NEW h \in Handler, CloseNext(c, h) PROVE Bounded'
  BY Zenon, <1>1, <1>12 DEF CloseNext
<1>13. ASSUME NEW c \in Closer, CloserUnlinks(c) PROVE Bounded'
  BY Zenon, <1>1, <1>13 DEF CloserUnlinks
<1>14. ASSUME NEW c \in Closer, CloserUnmaps(c) PROVE Bounded'
  <2>1. target[c] \in Handler /\ (target[c] \in sessions => Absent(target[c]))
    BY <1>14 DEF CloserUnmaps, IInv, Positions
  <2>2. sessions' \subseteq sessions /\ Len(terminals') <= Cap
    BY <1>14, <2>1, UnmapMoves DEF CloserUnmaps, IInv
  <2>3. Cardinality(sessions') <= MaxSessions
    BY <2>1, <2>2, SessionsBounded DEF IInv
  <2> QED
    BY <2>2, <2>3 DEF Bounded
<1>15. ASSUME NEW w \in Worker, StartClosing(w) PROVE Bounded'
  BY Zenon, <1>1, <1>15 DEF StartClosing
<1>16. ASSUME NEW d \in Drainer, StartDrain(d) PROVE Bounded'
  BY Zenon, <1>1, <1>16 DEF StartDrain
<1>17. ASSUME NEW d \in Drainer, CheckDrained(d) PROVE Bounded'
  BY Zenon, <1>1, <1>17 DEF CheckDrained
<1>18. ASSUME NEW d \in Drainer, Changed(d) PROVE Bounded'
  BY Zenon, <1>1, <1>18 DEF Changed
<1>19. ASSUME NEW d \in Drainer, DrainDeadline(d) PROVE Bounded'
  BY Zenon, <1>1, <1>19 DEF DrainDeadline
<1>20. ASSUME NEW d \in Drainer, DrainReturns(d) PROVE Bounded'
  BY Zenon, <1>1, <1>20 DEF DrainReturns
<1>21. CASE CloseGroup
  BY Zenon, <1>1, <1>21 DEF CloseGroup
<1>22. CASE StopServing
  BY Zenon, <1>1, <1>22 DEF StopServing
<1>23. CASE ClosePacket
  BY Zenon, <1>1, <1>23 DEF ClosePacket
<1>24. CASE Served
  BY Zenon, <1>1, <1>24 DEF Served
<1>25. CASE ExpireTerminal
  <2>1. sessions' = sessions /\ Len(terminals') <= Cap
    BY <1>25, ExpireKeeps DEF ExpireTerminal, IInv
  <2> QED
    BY <2>1 DEF IInv, Bounded
<1>26. CASE UNCHANGED vars
  BY Zenon, <1>1, <1>26 DEF vars
<1> HIDE DEF handlerVars, serverVars, groupVars, closerVars
<1> QED
  BY Zenon, <1>2, <1>3, <1>4, <1>5, <1>6, <1>7, <1>8, <1>9, <1>10, <1>11,
     <1>12, <1>13, <1>14, <1>15, <1>16, <1>17, <1>18, <1>19, <1>20, <1>21,
     <1>22, <1>23, <1>24, <1>25, <1>26
  DEF Next, Handles, Closes, Drains

\* pending is exact on every way into and out of a handshake.
LEMMA CountedStep ==
    ASSUME IInv, [Next]_vars
    PROVE  Counted'
<1> USE DEF handlerVars, serverVars, groupVars, closerVars
<1>1. ASSUME Greeting' = Greeting, pending' = pending PROVE Counted'
  BY Zenon, <1>1 DEF IInv, Counted
<1>2. ASSUME UNCHANGED <<pending, pc>> PROVE Counted'
  BY Zenon, <1>1, <1>2 DEF Greeting
<1>3. ASSUME NEW h \in Handler, Accept(h) PROVE Counted'
  <2>1. CASE pending < MaxPending
    <3>0. pending \in Nat /\ MaxPending \in Nat
      BY FS_Subset, FS_CardinalityType, RegistryAssumption DEF IInv, Counted, Greeting
    <3>1. Greeting' = Greeting \cup {h} /\ h \notin Greeting /\ pending' = pending + 1
      BY <1>3, <2>1, <3>0 DEF Accept, Goto, IInv, Shape, Greeting
    <3> QED
      BY Zenon, <2>1, <3>1, PendingMoves DEF IInv
  <2>2. CASE ~(pending < MaxPending)
    <3>1. Greeting' = Greeting /\ pending' = pending
      BY <1>3, <2>2 DEF Accept, Goto, IInv, Shape, Greeting
    <3> QED
      BY Zenon, <1>1, <3>1
  <2> QED
    BY <2>1, <2>2
<1>4. ASSUME NEW h \in Handler, Authenticated(h) PROVE Counted'
  <2>1. Greeting' = Greeting \ {h} /\ h \in Greeting /\ pending' = pending - 1
    BY <1>4 DEF Authenticated, Goto, IInv, Shape, Greeting
  <2> QED
    BY Zenon, <2>1, PendingMoves DEF IInv
<1>5. ASSUME NEW h \in Handler, Refuse(h) PROVE Counted'
  <2>1. CASE pc[h] = "hello"
    <3>1. Greeting' = Greeting \ {h} /\ h \in Greeting /\ pending' = pending - 1
      BY <1>5, <2>1 DEF Refuse, Goto, IInv, Shape, Greeting
    <3> QED
      BY Zenon, <3>1, PendingMoves DEF IInv
  <2>2. CASE pc[h] # "hello"
    <3>1. Greeting' = Greeting /\ pending' = pending
      BY <1>5, <2>2 DEF Refuse, Goto, IInv, Shape, Greeting
    <3> QED
      BY Zenon, <1>1, <3>1
  <2> QED
    BY <2>1, <2>2
<1>6. ASSUME NEW h \in Handler, Admit(h) PROVE Counted'
  <2>1. Greeting' = Greeting /\ pending' = pending
    BY <1>6 DEF Admit, Goto, IInv, Shape, Greeting
  <2> QED
    BY Zenon, <1>1, <2>1
<1>7. ASSUME NEW h \in Handler, Suspend(h) PROVE Counted'
  <2>1. Greeting' = Greeting /\ pending' = pending
    BY <1>7 DEF Suspend, Goto, IInv, Shape, Greeting
  <2> QED
    BY Zenon, <1>1, <2>1
<1>8. ASSUME NEW h \in Handler, StartRemoval(h) PROVE Counted'
  <2>1. Greeting' = Greeting /\ pending' = pending
    BY <1>8 DEF StartRemoval, Goto, IInv, Shape, Greeting
  <2> QED
    BY Zenon, <1>1, <2>1
<1>9. ASSUME NEW h \in Handler, HandlerUnlinks(h) PROVE Counted'
  <2>1. Greeting' = Greeting /\ pending' = pending
    BY <1>9 DEF HandlerUnlinks, Goto, IInv, Shape, Greeting
  <2> QED
    BY Zenon, <1>1, <2>1
<1>10. ASSUME NEW h \in Handler, HandlerUnmaps(h) PROVE Counted'
  <2>1. Greeting' = Greeting /\ pending' = pending
    BY <1>10 DEF HandlerUnmaps, Goto, IInv, Shape, Greeting
  <2> QED
    BY Zenon, <1>1, <2>1
<1>11. ASSUME NEW h \in Handler, SessionCloses(h) PROVE Counted'
  BY Zenon, <1>2, <1>11 DEF SessionCloses
<1>12. ASSUME NEW h \in Handler, Disconnect(h) PROVE Counted'
  BY Zenon, <1>2, <1>12 DEF Disconnect
<1>13. ASSUME NEW c \in Closer, NEW h \in Handler, CloseNext(c, h) PROVE Counted'
  BY Zenon, <1>2, <1>13 DEF CloseNext
<1>14. ASSUME NEW c \in Closer, CloserUnlinks(c) PROVE Counted'
  BY Zenon, <1>2, <1>14 DEF CloserUnlinks
<1>15. ASSUME NEW c \in Closer, CloserUnmaps(c) PROVE Counted'
  BY Zenon, <1>2, <1>15 DEF CloserUnmaps
<1>16. ASSUME NEW w \in Worker, StartClosing(w) PROVE Counted'
  BY Zenon, <1>2, <1>16 DEF StartClosing
<1>17. ASSUME NEW d \in Drainer, StartDrain(d) PROVE Counted'
  BY Zenon, <1>2, <1>17 DEF StartDrain
<1>18. ASSUME NEW d \in Drainer, CheckDrained(d) PROVE Counted'
  BY Zenon, <1>2, <1>18 DEF CheckDrained
<1>19. ASSUME NEW d \in Drainer, Changed(d) PROVE Counted'
  BY Zenon, <1>2, <1>19 DEF Changed
<1>20. ASSUME NEW d \in Drainer, DrainDeadline(d) PROVE Counted'
  BY Zenon, <1>2, <1>20 DEF DrainDeadline
<1>21. ASSUME NEW d \in Drainer, DrainReturns(d) PROVE Counted'
  BY Zenon, <1>2, <1>21 DEF DrainReturns
<1>22. CASE CloseGroup
  BY Zenon, <1>2, <1>22 DEF CloseGroup
<1>23. CASE StopServing
  BY Zenon, <1>2, <1>23 DEF StopServing
<1>24. CASE ClosePacket
  BY Zenon, <1>2, <1>24 DEF ClosePacket
<1>25. CASE Served
  BY Zenon, <1>2, <1>25 DEF Served
<1>26. CASE ExpireTerminal
  BY Zenon, <1>2, <1>26 DEF ExpireTerminal
<1>27. CASE UNCHANGED vars
  BY Zenon, <1>2, <1>27 DEF vars
<1> HIDE DEF handlerVars, serverVars, groupVars, closerVars
<1> QED
  BY Zenon, <1>3, <1>4, <1>5, <1>6, <1>7, <1>8, <1>9, <1>10, <1>11, <1>12,
     <1>13, <1>14, <1>15, <1>16, <1>17, <1>18, <1>19, <1>20, <1>21, <1>22,
     <1>23, <1>24, <1>25, <1>26, <1>27
  DEF Next, Handles, Closes, Drains
\* A session is admitted before it is listed and closed before it is removed,
\* and it enters the cache when it leaves the map.
LEMMA PositionsStep ==
    ASSUME IInv, [Next]_vars
    PROVE  Positions' /\ NoRepeat'
<1> USE DEF handlerVars, serverVars, groupVars, closerVars
<1>1. ASSUME terminals' = terminals
      PROVE  NoRepeat' /\ \A x \in Handler : Absent(x)' <=> Absent(x)
  BY Zenon, <1>1 DEF IInv, NoRepeat, Absent
<1>2. ASSUME UNCHANGED <<pc, state, sessions, terminals, members, todo, target, step>>
      PROVE  Positions' /\ NoRepeat'
  BY <1>1, <1>2 DEF IInv, Positions
<1>3. ASSUME NEW h \in Handler, Accept(h) PROVE Positions' /\ NoRepeat'
  BY <1>1, <1>3 DEF Accept, Goto, IInv, Shape, Positions
<1>4. ASSUME NEW h \in Handler, Authenticated(h) PROVE Positions' /\ NoRepeat'
  BY <1>1, <1>4 DEF Authenticated, Goto, IInv, Shape, Positions
<1>5. ASSUME NEW h \in Handler, Refuse(h) PROVE Positions' /\ NoRepeat'
  BY <1>1, <1>5 DEF Refuse, Goto, IInv, Shape, Positions
<1>6. ASSUME NEW h \in Handler, Admit(h) PROVE Positions' /\ NoRepeat'
  BY <1>1, <1>6 DEF Admit, MayAdmit, JoinGroup, Goto, IInv, Shape, Positions
<1>7. ASSUME NEW h \in Handler, Suspend(h) PROVE Positions' /\ NoRepeat'
  BY <1>1, <1>7 DEF Suspend, Goto, IInv, Shape, Positions
<1>8. ASSUME NEW h \in Handler, StartRemoval(h) PROVE Positions' /\ NoRepeat'
  BY <1>1, <1>8 DEF StartRemoval, Goto, IInv, Shape, Positions
<1>9. ASSUME NEW h \in Handler, HandlerUnlinks(h) PROVE Positions' /\ NoRepeat'
  BY <1>1, <1>9 DEF HandlerUnlinks, Goto, IInv, Shape, Positions
<1>10. ASSUME NEW h \in Handler, HandlerUnmaps(h) PROVE Positions' /\ NoRepeat'
  <2>1. h \in sessions => Absent(h)
    BY DEF IInv, Positions
  <2>2. /\ sessions' = sessions \ {h} /\ NoRepeat'
        /\ \A x \in Handler : Absent(x) /\ ~(x = h /\ h \in sessions) => Absent(x)'
    BY <1>10, <2>1, UnmapMoves DEF HandlerUnmaps, IInv
  <2> QED
    BY <1>10, <2>2 DEF HandlerUnmaps, Goto, IInv, Shape, Positions
<1>11. ASSUME NEW h \in Handler, SessionCloses(h) PROVE Positions' /\ NoRepeat'
  BY <1>1, <1>11 DEF SessionCloses, Goto, IInv, Shape, Positions
<1>12. ASSUME NEW h \in Handler, Disconnect(h) PROVE Positions' /\ NoRepeat'
  BY Zenon, <1>2, <1>12 DEF Disconnect
<1>13. ASSUME NEW c \in Closer, NEW h \in Handler, CloseNext(c, h) PROVE Positions' /\ NoRepeat'
  BY <1>1, <1>13 DEF CloseNext, Goto, IInv, Shape, Positions
<1>14. ASSUME NEW c \in Closer, CloserUnlinks(c) PROVE Positions' /\ NoRepeat'
  BY <1>1, <1>14 DEF CloserUnlinks, Goto, IInv, Shape, Positions
<1>15. ASSUME NEW c \in Closer, CloserUnmaps(c) PROVE Positions' /\ NoRepeat'
  <2>1. target[c] \in Handler /\ (target[c] \in sessions => Absent(target[c]))
    BY <1>15 DEF CloserUnmaps, IInv, Positions
  <2>2. /\ sessions' = sessions \ {target[c]} /\ NoRepeat'
        /\ \A x \in Handler :
             Absent(x) /\ ~(x = target[c] /\ target[c] \in sessions) => Absent(x)'
    BY <1>15, <2>1, UnmapMoves DEF CloserUnmaps, IInv
  <2> QED
    BY <1>15, <2>1, <2>2 DEF CloserUnmaps, IInv, Shape, Positions
<1>16. ASSUME NEW w \in Worker, StartClosing(w) PROVE Positions' /\ NoRepeat'
  BY <1>1, <1>16 DEF StartClosing, Closer, Goto, IInv, Shape, Positions
<1>17. ASSUME NEW d \in Drainer, StartDrain(d) PROVE Positions' /\ NoRepeat'
  BY Zenon, <1>2, <1>17 DEF StartDrain
<1>18. ASSUME NEW d \in Drainer, CheckDrained(d) PROVE Positions' /\ NoRepeat'
  BY Zenon, <1>2, <1>18 DEF CheckDrained
<1>19. ASSUME NEW d \in Drainer, Changed(d) PROVE Positions' /\ NoRepeat'
  BY Zenon, <1>2, <1>19 DEF Changed
<1>20. ASSUME NEW d \in Drainer, DrainDeadline(d) PROVE Positions' /\ NoRepeat'
  BY <1>1, <1>20 DEF DrainDeadline, Closer, Goto, IInv, Shape, Positions
<1>21. ASSUME NEW d \in Drainer, DrainReturns(d) PROVE Positions' /\ NoRepeat'
  BY Zenon, <1>2, <1>21 DEF DrainReturns
<1>22. CASE CloseGroup
  BY <1>1, <1>22 DEF CloseGroup, Free, Closer, Goto, IInv, Shape, Positions
<1>23. CASE StopServing
  BY <1>1, <1>23 DEF StopServing, Closer, Goto, IInv, Shape, Positions
<1>24. CASE ClosePacket
  BY Zenon, <1>2, <1>24 DEF ClosePacket
<1>25. CASE Served
  BY Zenon, <1>2, <1>25 DEF Served
<1>26. CASE ExpireTerminal
  <2>1. NoRepeat' /\ \A x \in Handler : Absent(x) => Absent(x)'
    BY <1>26, ExpireKeeps DEF IInv
  <2> QED
    BY <1>26, <2>1 DEF ExpireTerminal, IInv, Shape, Positions
<1>27. CASE UNCHANGED vars
  BY Zenon, <1>2, <1>27 DEF vars
<1> HIDE DEF handlerVars, serverVars, groupVars, closerVars
<1> QED
  BY Zenon, <1>3, <1>4, <1>5, <1>6, <1>7, <1>8, <1>9, <1>10, <1>11, <1>12,
     <1>13, <1>14, <1>15, <1>16, <1>17, <1>18, <1>19, <1>20, <1>21, <1>22,
     <1>23, <1>24, <1>25, <1>26, <1>27
  DEF Next, Handles, Closes, Drains
\* CloseGroup misses no session, whoever else closes one.
LEMMA GroupStep ==
    ASSUME IInv, [Next]_vars
    PROVE  GroupSeesSessions'
<1> USE DEF handlerVars, serverVars, groupVars, closerVars
<1>1. ASSUME UNCHANGED <<sessions, state, members, groupClosed, todo>> PROVE GroupSeesSessions'
  BY Zenon, <1>1 DEF IInv, GroupSeesSessions
<1>2. ASSUME NEW h \in Handler, Accept(h) PROVE GroupSeesSessions'
  BY Zenon, <1>1, <1>2 DEF Accept
<1>3. ASSUME NEW h \in Handler, Authenticated(h) PROVE GroupSeesSessions'
  BY Zenon, <1>1, <1>3 DEF Authenticated
<1>4. ASSUME NEW h \in Handler, Refuse(h) PROVE GroupSeesSessions'
  BY Zenon, <1>1, <1>4 DEF Refuse
<1>5. ASSUME NEW h \in Handler, Admit(h) PROVE GroupSeesSessions'
  BY <1>5, RegistryAssumption
  DEF Admit, MayAdmit, JoinGroup, Goto, IInv, Shape, Positions, GroupSeesSessions, Closer
<1>6. ASSUME NEW h \in Handler, Suspend(h) PROVE GroupSeesSessions'
  BY <1>6, RegistryAssumption
  DEF Suspend, Goto, IInv, Shape, Positions, GroupSeesSessions, Closer
<1>7. ASSUME NEW h \in Handler, StartRemoval(h) PROVE GroupSeesSessions'
  BY Zenon, <1>1, <1>7 DEF StartRemoval
<1>8. ASSUME NEW h \in Handler, HandlerUnlinks(h) PROVE GroupSeesSessions'
  BY <1>8, RegistryAssumption
  DEF HandlerUnlinks, Goto, IInv, Shape, Positions, GroupSeesSessions, Closer
<1>9. ASSUME NEW h \in Handler, HandlerUnmaps(h) PROVE GroupSeesSessions'
  <2>1. h \in sessions => Absent(h)
    BY DEF IInv, Positions
  <2>2. sessions' = sessions \ {h}
    BY <1>9, <2>1, UnmapMoves DEF HandlerUnmaps, IInv
  <2> QED
    BY <1>9, <2>2
    DEF HandlerUnmaps, Goto, IInv, Shape, Positions, GroupSeesSessions, Closer
<1>10. ASSUME NEW h \in Handler, SessionCloses(h) PROVE GroupSeesSessions'
  BY <1>10, RegistryAssumption
  DEF SessionCloses, Goto, IInv, Shape, Positions, GroupSeesSessions, Closer
<1>11. ASSUME NEW h \in Handler, Disconnect(h) PROVE GroupSeesSessions'
  BY Zenon, <1>1, <1>11 DEF Disconnect
<1>12. ASSUME NEW c \in Closer, NEW h \in Handler, CloseNext(c, h) PROVE GroupSeesSessions'
  BY <1>12, RegistryAssumption
  DEF CloseNext, IInv, Shape, Positions, GroupSeesSessions, Closer
<1>13. ASSUME NEW c \in Closer, CloserUnlinks(c) PROVE GroupSeesSessions'
  BY <1>13, RegistryAssumption
  DEF CloserUnlinks, IInv, Shape, Positions, GroupSeesSessions, Closer
<1>14. ASSUME NEW c \in Closer, CloserUnmaps(c) PROVE GroupSeesSessions'
  <2>1. target[c] \in Handler /\ (target[c] \in sessions => Absent(target[c]))
    BY <1>14 DEF CloserUnmaps, IInv, Positions
  <2>2. sessions' = sessions \ {target[c]}
    BY <1>14, <2>1, UnmapMoves DEF CloserUnmaps, IInv
  <2> QED
    BY <1>14, <2>1, <2>2
    DEF CloserUnmaps, IInv, Shape, Positions, GroupSeesSessions, Closer
<1>15. ASSUME NEW w \in Worker, StartClosing(w) PROVE GroupSeesSessions'
  BY <1>15, RegistryAssumption
  DEF StartClosing, Free, IInv, Shape, Positions, GroupSeesSessions, Closer
<1>16. ASSUME NEW d \in Drainer, StartDrain(d) PROVE GroupSeesSessions'
  BY Zenon, <1>1, <1>16 DEF StartDrain
<1>17. ASSUME NEW d \in Drainer, CheckDrained(d) PROVE GroupSeesSessions'
  BY Zenon, <1>1, <1>17 DEF CheckDrained
<1>18. ASSUME NEW d \in Drainer, Changed(d) PROVE GroupSeesSessions'
  BY Zenon, <1>1, <1>18 DEF Changed
<1>19. ASSUME NEW d \in Drainer, DrainDeadline(d) PROVE GroupSeesSessions'
  BY <1>19, RegistryAssumption
  DEF DrainDeadline, IInv, Shape, Positions, GroupSeesSessions, Closer
<1>20. ASSUME NEW d \in Drainer, DrainReturns(d) PROVE GroupSeesSessions'
  BY Zenon, <1>1, <1>20 DEF DrainReturns
<1>21. CASE CloseGroup
  BY <1>21, RegistryAssumption
  DEF CloseGroup, Free, IInv, Shape, Positions, GroupSeesSessions, Closer
<1>22. CASE StopServing
  BY <1>22, RegistryAssumption
  DEF StopServing, IInv, Shape, Positions, GroupSeesSessions, Closer
<1>23. CASE ClosePacket
  BY Zenon, <1>1, <1>23 DEF ClosePacket
<1>24. CASE Served
  BY Zenon, <1>1, <1>24 DEF Served
<1>25. CASE ExpireTerminal
  BY Zenon, <1>1, <1>25 DEF ExpireTerminal
<1>26. CASE UNCHANGED vars
  BY Zenon, <1>1, <1>26 DEF vars
<1> HIDE DEF handlerVars, serverVars, groupVars, closerVars
<1> QED
  BY Zenon, <1>2, <1>3, <1>4, <1>5, <1>6, <1>7, <1>8, <1>9, <1>10, <1>11,
     <1>12, <1>13, <1>14, <1>15, <1>16, <1>17, <1>18, <1>19, <1>20, <1>21,
     <1>22, <1>23, <1>24, <1>25, <1>26
  DEF Next, Handles, Closes, Drains

\* A drain at its deadline loses no session, since none is admitted any more.
LEMMA EndingStep ==
    ASSUME IInv, [Next]_vars
    PROVE  Ending'
<1> USE DEF handlerVars, serverVars, groupVars, closerVars
<1>1. ASSUME UNCHANGED <<sessions, draining, todo, target, step, drain, serve, pc>> PROVE Ending'
  BY Zenon, <1>1 DEF IInv, Ending
<1>2. ASSUME NEW h \in Handler, Accept(h) PROVE Ending'
  BY <1>2, RegistryAssumption DEF Accept, Goto, IInv, Shape, Positions, Ending, Closer
<1>3. ASSUME NEW h \in Handler, Authenticated(h) PROVE Ending'
  BY <1>3, RegistryAssumption DEF Authenticated, Goto, IInv, Shape, Positions, Ending, Closer
<1>4. ASSUME NEW h \in Handler, Refuse(h) PROVE Ending'
  BY <1>4, RegistryAssumption DEF Refuse, Goto, IInv, Shape, Positions, Ending, Closer
<1>5. ASSUME NEW h \in Handler, Admit(h) PROVE Ending'
  BY <1>5, RegistryAssumption
  DEF Admit, MayAdmit, JoinGroup, Goto, IInv, Shape, Positions, Ending, Closer
<1>6. ASSUME NEW h \in Handler, Suspend(h) PROVE Ending'
  BY <1>6, RegistryAssumption DEF Suspend, Goto, IInv, Shape, Positions, Ending, Closer
<1>7. ASSUME NEW h \in Handler, StartRemoval(h) PROVE Ending'
  BY <1>7, RegistryAssumption DEF StartRemoval, Goto, IInv, Shape, Positions, Ending, Closer
<1>8. ASSUME NEW h \in Handler, HandlerUnlinks(h) PROVE Ending'
  BY <1>8, RegistryAssumption DEF HandlerUnlinks, Goto, IInv, Shape, Positions, Ending, Closer
<1>9. ASSUME NEW h \in Handler, HandlerUnmaps(h) PROVE Ending'
  <2>1. h \in sessions => Absent(h)
    BY DEF IInv, Positions
  <2>2. sessions' = sessions \ {h}
    BY <1>9, <2>1, UnmapMoves DEF HandlerUnmaps, IInv
  <2> QED
    BY <1>9, <2>2
    DEF HandlerUnmaps, Goto, IInv, Shape, Positions, Ending, Closer
<1>10. ASSUME NEW h \in Handler, SessionCloses(h) PROVE Ending'
  BY Zenon, <1>1, <1>10 DEF SessionCloses
<1>11. ASSUME NEW h \in Handler, Disconnect(h) PROVE Ending'
  BY Zenon, <1>1, <1>11 DEF Disconnect
<1>12. ASSUME NEW c \in Closer, NEW h \in Handler, CloseNext(c, h) PROVE Ending'
  BY <1>12, RegistryAssumption DEF CloseNext, IInv, Shape, Positions, Ending, Closer
<1>13. ASSUME NEW c \in Closer, CloserUnlinks(c) PROVE Ending'
  BY <1>13, RegistryAssumption DEF CloserUnlinks, IInv, Shape, Positions, Ending, Closer
<1>14. ASSUME NEW c \in Closer, CloserUnmaps(c) PROVE Ending'
  <2>1. target[c] \in Handler /\ (target[c] \in sessions => Absent(target[c]))
    BY <1>14 DEF CloserUnmaps, IInv, Positions
  <2>2. sessions' = sessions \ {target[c]}
    BY <1>14, <2>1, UnmapMoves DEF CloserUnmaps, IInv
  <2> QED
    BY <1>14, <2>1, <2>2
    DEF CloserUnmaps, IInv, Shape, Positions, Ending, Closer
<1>15. ASSUME NEW w \in Worker, StartClosing(w) PROVE Ending'
  BY <1>15, RegistryAssumption
  DEF StartClosing, Free, IInv, Shape, Positions, Ending, Closer
<1>16. ASSUME NEW d \in Drainer, StartDrain(d) PROVE Ending'
  BY <1>16, RegistryAssumption DEF StartDrain, IInv, Shape, Positions, Ending, Closer
<1>17. ASSUME NEW d \in Drainer, CheckDrained(d) PROVE Ending'
  BY <1>17, RegistryAssumption DEF CheckDrained, IInv, Shape, Positions, Ending, Closer
<1>18. ASSUME NEW d \in Drainer, Changed(d) PROVE Ending'
  BY <1>18, RegistryAssumption DEF Changed, IInv, Shape, Positions, Ending, Closer
<1>19. ASSUME NEW d \in Drainer, DrainDeadline(d) PROVE Ending'
  BY <1>19, RegistryAssumption DEF DrainDeadline, IInv, Shape, Positions, Ending, Closer
<1>20. ASSUME NEW d \in Drainer, DrainReturns(d) PROVE Ending'
  BY <1>20, RegistryAssumption
  DEF DrainReturns, Free, IInv, Shape, Positions, Ending, Closer
<1>21. CASE CloseGroup
  BY <1>21, RegistryAssumption
  DEF CloseGroup, Free, IInv, Shape, Positions, Ending, Closer
<1>22. CASE StopServing
  BY <1>22, RegistryAssumption DEF StopServing, IInv, Shape, Positions, Ending, Closer
<1>23. CASE ClosePacket
  BY <1>23, RegistryAssumption
  DEF ClosePacket, Free, IInv, Shape, Positions, Ending, Closer
<1>24. CASE Served
  BY <1>24, RegistryAssumption DEF Served, IInv, Shape, Positions, Ending, Closer
<1>25. CASE ExpireTerminal
  BY Zenon, <1>1, <1>25 DEF ExpireTerminal
<1>26. CASE UNCHANGED vars
  BY Zenon, <1>1, <1>26 DEF vars
<1> HIDE DEF handlerVars, serverVars, groupVars, closerVars
<1> QED
  BY Zenon, <1>2, <1>3, <1>4, <1>5, <1>6, <1>7, <1>8, <1>9, <1>10, <1>11,
     <1>12, <1>13, <1>14, <1>15, <1>16, <1>17, <1>18, <1>19, <1>20, <1>21,
     <1>22, <1>23, <1>24, <1>25, <1>26
  DEF Next, Handles, Closes, Drains

\* What a drain is told, and what it leaves when it has returned.
DrainPromise == DrainIsTold /\ DrainedIsEmpty

\* A removal tells the drain that waits; one that has returned left no session.
LEMMA DrainStep ==
    ASSUME IInv, [Next]_vars
    PROVE  DrainPromise'
<1> USE DEF handlerVars, serverVars, groupVars, closerVars
<1>1. ASSUME UNCHANGED <<sessions, changed, drain>> PROVE DrainPromise'
  BY Zenon, <1>1 DEF IInv, DrainPromise, DrainIsTold, DrainedIsEmpty
<1>2. ASSUME NEW h \in Handler, Accept(h) PROVE DrainPromise'
  BY Zenon, <1>1, <1>2 DEF Accept
<1>3. ASSUME NEW h \in Handler, Authenticated(h) PROVE DrainPromise'
  BY Zenon, <1>1, <1>3 DEF Authenticated
<1>4. ASSUME NEW h \in Handler, Refuse(h) PROVE DrainPromise'
  BY Zenon, <1>1, <1>4 DEF Refuse
<1>5. ASSUME NEW h \in Handler, Admit(h) PROVE DrainPromise'
  BY <1>5
  DEF Admit, MayAdmit, JoinGroup, Goto, IInv, Shape, Ending,
      DrainPromise, DrainIsTold, DrainedIsEmpty
<1>6. ASSUME NEW h \in Handler, Suspend(h) PROVE DrainPromise'
  BY Zenon, <1>1, <1>6 DEF Suspend
<1>7. ASSUME NEW h \in Handler, StartRemoval(h) PROVE DrainPromise'
  BY Zenon, <1>1, <1>7 DEF StartRemoval
<1>8. ASSUME NEW h \in Handler, HandlerUnlinks(h) PROVE DrainPromise'
  BY Zenon, <1>1, <1>8 DEF HandlerUnlinks
<1>9. ASSUME NEW h \in Handler, HandlerUnmaps(h) PROVE DrainPromise'
  <2>1. h \in sessions => Absent(h)
    BY DEF IInv, Positions
  <2>2. /\ sessions' = sessions \ {h}
        /\ (changed => changed') /\ (sessions' # sessions => changed')
    BY <1>9, <2>1, UnmapMoves DEF HandlerUnmaps, IInv
  <2> QED
    BY <1>9, <2>2
    DEF HandlerUnmaps, Goto, IInv, Shape, Ending,
      DrainPromise, DrainIsTold, DrainedIsEmpty
<1>10. ASSUME NEW h \in Handler, SessionCloses(h) PROVE DrainPromise'
  BY Zenon, <1>1, <1>10 DEF SessionCloses
<1>11. ASSUME NEW h \in Handler, Disconnect(h) PROVE DrainPromise'
  BY Zenon, <1>1, <1>11 DEF Disconnect
<1>12. ASSUME NEW c \in Closer, NEW h \in Handler, CloseNext(c, h) PROVE DrainPromise'
  BY Zenon, <1>1, <1>12 DEF CloseNext
<1>13. ASSUME NEW c \in Closer, CloserUnlinks(c) PROVE DrainPromise'
  BY Zenon, <1>1, <1>13 DEF CloserUnlinks
<1>14. ASSUME NEW c \in Closer, CloserUnmaps(c) PROVE DrainPromise'
  <2>1. target[c] \in Handler /\ (target[c] \in sessions => Absent(target[c]))
    BY <1>14 DEF CloserUnmaps, IInv, Positions
  <2>2. /\ sessions' = sessions \ {target[c]}
        /\ (changed => changed') /\ (sessions' # sessions => changed')
    BY <1>14, <2>1, UnmapMoves DEF CloserUnmaps, IInv
  <2> QED
    BY <1>14, <2>1, <2>2
    DEF CloserUnmaps, IInv, Shape, Ending,
      DrainPromise, DrainIsTold, DrainedIsEmpty
<1>15. ASSUME NEW w \in Worker, StartClosing(w) PROVE DrainPromise'
  BY Zenon, <1>1, <1>15 DEF StartClosing
<1>16. ASSUME NEW d \in Drainer, StartDrain(d) PROVE DrainPromise'
  BY <1>16
  DEF StartDrain, IInv, Shape, Ending,
      DrainPromise, DrainIsTold, DrainedIsEmpty
<1>17. ASSUME NEW d \in Drainer, CheckDrained(d) PROVE DrainPromise'
  BY <1>17
  DEF CheckDrained, IInv, Shape, Ending,
      DrainPromise, DrainIsTold, DrainedIsEmpty
<1>18. ASSUME NEW d \in Drainer, Changed(d) PROVE DrainPromise'
  BY <1>18
  DEF Changed, IInv, Shape, Ending,
      DrainPromise, DrainIsTold, DrainedIsEmpty
<1>19. ASSUME NEW d \in Drainer, DrainDeadline(d) PROVE DrainPromise'
  BY <1>19
  DEF DrainDeadline, IInv, Shape, Ending,
      DrainPromise, DrainIsTold, DrainedIsEmpty
<1>20. ASSUME NEW d \in Drainer, DrainReturns(d) PROVE DrainPromise'
  BY <1>20
  DEF DrainReturns, Free, Closer, IInv, Shape, Ending,
      DrainPromise, DrainIsTold, DrainedIsEmpty
<1>21. CASE CloseGroup
  BY Zenon, <1>1, <1>21 DEF CloseGroup
<1>22. CASE StopServing
  BY Zenon, <1>1, <1>22 DEF StopServing
<1>23. CASE ClosePacket
  BY Zenon, <1>1, <1>23 DEF ClosePacket
<1>24. CASE Served
  BY Zenon, <1>1, <1>24 DEF Served
<1>25. CASE ExpireTerminal
  BY Zenon, <1>1, <1>25 DEF ExpireTerminal
<1>26. CASE UNCHANGED vars
  BY Zenon, <1>1, <1>26 DEF vars
<1> HIDE DEF handlerVars, serverVars, groupVars, closerVars
<1> QED
  BY Zenon, <1>2, <1>3, <1>4, <1>5, <1>6, <1>7, <1>8, <1>9, <1>10, <1>11,
     <1>12, <1>13, <1>14, <1>15, <1>16, <1>17, <1>18, <1>19, <1>20, <1>21,
     <1>22, <1>23, <1>24, <1>25, <1>26
  DEF Next, Handles, Closes, Drains

\* IInv holds in every reachable state of the endpoint.
THEOREM Invariance == Spec => []IInv
<1>1. Init => IInv
  <2> SUFFICES ASSUME Init PROVE IInv
    OBVIOUS
  <2>1. Shape
    <3>1. alive \in [Handler -> BOOLEAN] /\ draining \in BOOLEAN /\ changed \in BOOLEAN
            /\ groupClosed \in BOOLEAN
      BY Zenon DEF Init
    <3>2. /\ pc \in [Handler -> {"new", "hello", "admit", "serving", "unlink", "unmap", "done"}]
          /\ state \in [Handler -> {"None", "Active", "Suspended", "Closed"}]
          /\ sessions \subseteq Handler /\ terminals \in Seq(Handler) /\ members \subseteq Handler
      BY DEF Init
    <3>3. /\ todo \in [Closer -> SUBSET Handler]
          /\ target \in [Closer -> Handler \cup {NoSession}]
          /\ step \in [Closer -> {"idle", "unlink", "unmap"}]
          /\ drain \in [Drainer -> {"off", "check", "wait", "closing", "done"}]
          /\ serve \in {"accepting", "closing", "waiting", "returned"}
      BY DEF Init
    <3> QED
      BY Zenon, <3>1, <3>2, <3>3 DEF Shape
  <2>2. Bounded
    <3>1. Cardinality({}) = 0
      BY FS_EmptySet
    <3> QED
      BY <3>1, RegistryAssumption DEF Init, Bounded, Cap
  <2>3. Counted
    <3>1. Greeting = {} /\ Cardinality({}) = 0
      BY FS_EmptySet DEF Init, Greeting
    <3> QED
      BY <3>1, RegistryAssumption DEF Init, Counted
  <2>4. Positions /\ NoRepeat
    BY DEF Init, Positions, NoRepeat, Absent
  <2>5. GroupSeesSessions /\ Ending /\ DrainIsTold /\ DrainedIsEmpty
    BY DEF Init, GroupSeesSessions, Ending, DrainIsTold, DrainedIsEmpty
  <2> QED
    BY <2>1, <2>2, <2>3, <2>4, <2>5 DEF IInv
<1>2. IInv /\ [Next]_vars => IInv'
  <2> SUFFICES ASSUME IInv, [Next]_vars PROVE IInv'
    OBVIOUS
  <2>1. Shape' /\ Bounded' /\ Counted'
    BY ShapeStep, BoundedStep, CountedStep
  <2>2. Positions' /\ NoRepeat' /\ GroupSeesSessions'
    BY PositionsStep, GroupStep
  <2>3. Ending' /\ DrainIsTold' /\ DrainedIsEmpty'
    BY EndingStep, DrainStep DEF DrainPromise
  <2> QED
    BY <2>1, <2>2, <2>3 DEF IInv
<1> QED
  BY <1>1, <1>2, PTL DEF Spec

\* The endpoint's accounts are right (RegistryIsExact): finishPending is called
\* once on each way out of a handshake, the limits of sessions and of the
\* terminal cache hold, removeSession by several goroutines records a session
\* once, and CloseGroup has every open session of its group in its list.
THEOREM RegistryExact == Spec => []RegistryIsExact
<1>1. IInv => RegistryIsExact
  <2> SUFFICES ASSUME IInv PROVE RegistryIsExact
    OBVIOUS
  <2>1. pending \in 0..MaxPending
    <3>1. IsFiniteSet(Greeting)
      BY FS_Subset, RegistryAssumption DEF Greeting
    <3>2. Cardinality(Greeting) \in Nat
      BY <3>1, FS_CardinalityType
    <3> QED
      BY <3>2, RegistryAssumption DEF IInv, Counted
  <2>2. TypeOK
    BY <2>1 DEF IInv, Shape, Bounded, TypeOK
  <2>3. PendingIsExact
    BY DEF IInv, Counted, Greeting, PendingIsExact
  <2>4. terminals \in Seq(Handler) /\ Cardinality(Range(terminals)) = Len(terminals)
    BY CountsOnce DEF IInv, Shape, NoRepeat
  <2>5. Range(terminals) \cap sessions = {}
    <3>1. DOMAIN terminals = 1..Len(terminals)
      BY <2>4
    <3>2. \A h \in sessions : \A i \in 1..Len(terminals) : terminals[i] # h
      BY DEF IInv, Shape, Positions, Absent
    <3> QED
      BY Zenon, <3>1, <3>2 DEF Range
  <2> QED
    BY <2>2, <2>3, <2>4, <2>5 DEF IInv, TerminalOnce, RegistryIsExact
<1> QED
  BY <1>1, Invariance, PTL

\* Draining and shutdown leave no one behind (ShutdownIsQuiet): the changed
\* token is there for a Drain that waits alone when the last session goes, a
\* Drain that returned leaves no session registered, and Serve returns with no
\* session Active.
THEOREM ShutdownQuiet == Spec => []ShutdownIsQuiet
<1>1. IInv => ShutdownIsQuiet
  BY DEF IInv, Shape, Positions, Ending, ServedIsQuiet, ShutdownIsQuiet
<1> QED
  BY <1>1, Invariance, PTL
===============================================================================
