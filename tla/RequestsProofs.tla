---------------------------- MODULE RequestsProofs ----------------------------
(***************************************************************************)
(* Theorems about Requests, for every set of requests and every limit:     *)
(* the slots, one response on each stream, and that Call implements the    *)
(* promise of RemoteCall.  IInv is inductive and has four parts: types,    *)
(* slots (Slotted), what the caller knows (Calling) and what the callee    *)
(* did with the stream and the application (Serving).  The promise rests   *)
(* on the last: a request refused, or never written, is not and will not   *)
(* be given to the application, because its stream was left before the     *)
(* envelope was queued.                                                    *)
(*                                                                         *)
(* RateLimits, here Limits: the token buckets that handshakes and inbound  *)
(* messages draw on before anything else is done for them.                 *)
(***************************************************************************)
EXTENDS Requests, FiniteSetTheorems, TLAPS

CONSTANTS     \* of RateLimits
    Source, Price, Full, Idle, MaxSources, MessagePrice, MessageFull, MaxTime, MaxBursts

VARIABLES now, sources, fill, seen, rateTokens, rateAt, mark, paid, messagesPaid, bursts

Limits == INSTANCE RateLimits

\* Every variable has its type.
Typed ==
    /\ mode \in {"handlers", "polling"}
    /\ current \in [{"caller", "callee"} -> BOOLEAN]
    /\ call \in [Request -> {"idle", "opened", "waiting", "returned"}]
    /\ told \in [Request -> {"none"} \cup Promise!Outcome]
    /\ ctx \in [Request -> BOOLEAN]
    /\ reader \in [Request -> {"none", "reading", "offering", "gone"}]
    /\ stream \in [Request -> {"none", "partial", "full", "aborted"}]
    /\ answer \in [Request -> {"nothing", "end", "refused", "ok", "failed"}]
    /\ serve \in [Request -> {"none", "accepted", "reserved", "queued", "running", "left"}]
    /\ taken \subseteq Request
    /\ ran \in [Request -> BOOLEAN]
    /\ expired \in [Request -> BOOLEAN]
    /\ responded \in [Request -> BOOLEAN]
    /\ released \in [Request -> BOOLEAN]

\* The slots in use are finitely many, whatever Request is, and in bounds.
Slotted ==
    /\ IsFiniteSet(InRequests) /\ IsFiniteSet(OutRequests)
    /\ SlotsAreBounded

\* The caller: nothing is written before the call is open; a call that is not
\* over was told nothing; a local error leaves nothing on the wire; and a
\* reader that offers a response has one.
Calling ==
    \A r \in Request :
        /\ call[r] \in {"idle", "opened"} => stream[r] = "none"
        /\ call[r] # "returned" => told[r] = "none"
        /\ told[r] = "local" => call[r] = "returned" /\ stream[r] = "none"
        /\ told[r] = "refused" => answer[r] = "refused"
        /\ told[r] = "ok" => answer[r] = "ok"
        /\ reader[r] = "offering" => answer[r] \notin {"nothing", "end"}

\* The callee: it serves what is on the wire; it answers nothing before the
\* envelope is queued, and has answered when it leaves; the application is
\* given what was queued, never what was refused; only it says ok.
Serving ==
    \A r \in Request :
        /\ stream[r] = "none" => serve[r] = "none"
        /\ serve[r] \in {"none", "accepted", "reserved"} =>
              answer[r] = "nothing" /\ ~ran[r] /\ ~expired[r]
        /\ serve[r] = "left" => answer[r] # "nothing"
        /\ answer[r] = "refused" => serve[r] = "left" /\ ~expired[r] /\ ~ran[r]
        /\ answer[r] = "ok" => ran[r]
        /\ r \in taken \/ serve[r] = "running" => ran[r]

IInv == Typed /\ Slotted /\ Calling /\ Serving

-------------------------------------------------------------------------------
\* A session that is closed for a violation keeps the type of current.
LEMMA SuspectTyped ==
    ASSUME current \in [{"caller", "callee"} -> BOOLEAN], MaySuspect
    PROVE  current' \in [{"caller", "callee"} -> BOOLEAN]
BY Zenon DEF MaySuspect

\* Enqueue fails a request that finds no room, or hands it on unanswered.
LEMMA EnqueueTyped ==
    ASSUME NEW r \in Request, Enqueue(r),
           responded \in [Request -> BOOLEAN], released \in [Request -> BOOLEAN]
    PROVE  responded' \in [Request -> BOOLEAN] /\ released' \in [Request -> BOOLEAN]
<1>1. CanRespond(r) \in BOOLEAN
  BY Zenon DEF CanRespond
<1> QED
  BY Zenon, <1>1 DEF Enqueue

\* invoke runs the handler or, in an epoch that is over, cleans up.
LEMMA InvokeTyped ==
    ASSUME NEW r \in Request, Invoke(r),
           ran \in [Request -> BOOLEAN], released \in [Request -> BOOLEAN]
    PROVE  /\ ran' \in [Request -> BOOLEAN] /\ released' \in [Request -> BOOLEAN]
           /\ serve' \in {[serve EXCEPT ![r] = "running"], [serve EXCEPT ![r] = "left"]}
           /\ answer' \in {answer, [answer EXCEPT ![r] = IF @ = "nothing" THEN "end" ELSE @]}
           /\ UNCHANGED <<mode, current, caller, stream, taken, expired, responded>>
BY Zenon DEF Invoke, Cleanup

\* Every action preserves the types.
LEMMA TypedStep ==
    ASSUME IInv, [Next]_vars
    PROVE  Typed'
<1> USE DEF IInv, Typed, Promise!Outcome, Calling, caller, callee
<1>1. ASSUME NEW r \in Request, Call(r) PROVE Typed'
  BY <1>1 DEF Call, Return, caller, callee
<1>2. ASSUME NEW r \in Request, WriteRequest(r) PROVE Typed'
  BY <1>2 DEF WriteRequest, Return
<1>3. ASSUME NEW r \in Request, ReadResponse(r) PROVE Typed'
  BY <1>3 DEF ReadResponse
<1>4. ASSUME NEW r \in Request, ReadFails(r) PROVE Typed'
  BY <1>4 DEF ReadFails, Return
<1>5. ASSUME NEW r \in Request, Receive(r) PROVE Typed'
  <2>1. answer[r] \in Promise!Outcome
    BY <1>5 DEF Receive
  <2>2. told' \in [Request -> {"none"} \cup Promise!Outcome]
    BY <1>5, <2>1 DEF Receive, Return
  <2> QED
    BY <1>5, <2>2 DEF Receive, Return
<1>6. ASSUME NEW r \in Request, ReaderLeaves(r) PROVE Typed'
  BY <1>6 DEF ReaderLeaves
<1>7. ASSUME NEW r \in Request, ContextEnds(r) PROVE Typed'
  BY <1>7 DEF ContextEnds
<1>8. ASSUME NEW r \in Request, GiveUp(r) PROVE Typed'
  BY <1>8 DEF GiveUp, Return
<1>9. ASSUME NEW r \in Request, Accept(r) PROVE Typed'
  <2>1. current' \in [{"caller", "callee"} -> BOOLEAN]
    BY Zenon, <1>9, SuspectTyped DEF Accept
  <2> QED
    BY <1>9, <2>1 DEF Accept
<1>10. ASSUME NEW r \in Request, ReadBody(r) PROVE Typed'
  <2>1. current' \in [{"caller", "callee"} -> BOOLEAN]
    BY Zenon, <1>10, SuspectTyped DEF ReadBody
  <2> QED
    BY <1>10, <2>1 DEF ReadBody, Cleanup
<1>11. ASSUME NEW r \in Request, Enqueue(r) PROVE Typed'
  <2>1. responded' \in [Request -> BOOLEAN] /\ released' \in [Request -> BOOLEAN]
    BY Zenon, <1>11, EnqueueTyped
  <2> QED
    BY <1>11, <2>1 DEF Enqueue
<1>12. ASSUME NEW r \in Request, Expire(r) PROVE Typed'
  BY <1>12 DEF Expire
<1>13. ASSUME NEW r \in Request, Invoke(r) PROVE Typed'
  <2>1. ran' \in [Request -> BOOLEAN] /\ released' \in [Request -> BOOLEAN]
    BY Zenon, <1>13, InvokeTyped
  <2>2. /\ serve' \in {[serve EXCEPT ![r] = "running"], [serve EXCEPT ![r] = "left"]}
        /\ answer' \in {answer, [answer EXCEPT ![r] = IF @ = "nothing" THEN "end" ELSE @]}
        /\ UNCHANGED <<mode, current, caller, stream, taken, expired, responded>>
    BY Zenon, <1>13, InvokeTyped
  <2> QED
    BY <2>1, <2>2
<1>14. ASSUME NEW r \in Request, HandlerReturns(r) PROVE Typed'
  <2>1. current' \in [{"caller", "callee"} -> BOOLEAN]
    BY Zenon, <1>14, SuspectTyped DEF HandlerReturns
  <2>2. responded' \in [Request -> BOOLEAN] /\ released' \in [Request -> BOOLEAN]
    BY Zenon, <1>14 DEF HandlerReturns
  <2> QED
    BY <1>14, <2>1, <2>2 DEF HandlerReturns
<1>15. ASSUME NEW r \in Request, Take(r) PROVE Typed'
  BY <1>15 DEF Take
<1>16. ASSUME NEW r \in Request, PollingDone(r) PROVE Typed'
  BY <1>16 DEF PollingDone, CanRespond
<1>17. ASSUME NEW r \in Request, NEW a \in {"ok", "failed"}, Respond(r, a) PROVE Typed'
  BY <1>17 DEF Respond, CanRespond
<1>18. ASSUME NEW e \in {"caller", "callee"}, EpochEnds(e) PROVE Typed'
  BY <1>18 DEF EpochEnds
<1>19. CASE UNCHANGED vars
  BY Zenon, <1>19 DEF vars
<1> HIDE DEF IInv, Typed, Promise!Outcome, Calling, caller, callee
<1> QED
  BY Zenon, <1>1, <1>2, <1>3, <1>4, <1>5, <1>6, <1>7, <1>8, <1>9, <1>10,
     <1>11, <1>12, <1>13, <1>14, <1>15, <1>16, <1>17, <1>18, <1>19
  DEF Next, Caller, Reader, Worker, Quiet

\* Every action keeps what the caller knows.
LEMMA CallingStep ==
    ASSUME IInv, [Next]_vars
    PROVE  Calling'
<1> USE DEF IInv, Typed, Promise!Outcome, Calling, Serving, caller, callee
<1>1. ASSUME NEW r \in Request, Call(r) PROVE Calling'
  BY <1>1 DEF Call, Return, caller, callee
<1>2. ASSUME NEW r \in Request, WriteRequest(r) PROVE Calling'
  BY <1>2 DEF WriteRequest, Return
<1>3. ASSUME NEW r \in Request, ReadResponse(r) PROVE Calling'
  BY <1>3 DEF ReadResponse
<1>4. ASSUME NEW r \in Request, ReadFails(r) PROVE Calling'
  BY <1>4 DEF ReadFails, Return
<1>5. ASSUME NEW r \in Request, Receive(r) PROVE Calling'
  BY <1>5 DEF Receive, Return
<1>6. ASSUME NEW r \in Request, ReaderLeaves(r) PROVE Calling'
  BY <1>6 DEF ReaderLeaves
<1>7. ASSUME NEW r \in Request, ContextEnds(r) PROVE Calling'
  BY <1>7 DEF ContextEnds
<1>8. ASSUME NEW r \in Request, GiveUp(r) PROVE Calling'
  BY <1>8 DEF GiveUp, Return
<1>9. ASSUME NEW r \in Request, Accept(r) PROVE Calling'
  BY <1>9 DEF Accept, MaySuspect
<1>10. ASSUME NEW r \in Request, ReadBody(r) PROVE Calling'
  BY <1>10 DEF ReadBody, Cleanup, MaySuspect
<1>11. ASSUME NEW r \in Request, Enqueue(r) PROVE Calling'
  BY <1>11 DEF Enqueue, CanRespond
<1>12. ASSUME NEW r \in Request, Expire(r) PROVE Calling'
  BY <1>12 DEF Expire
<1>13. ASSUME NEW r \in Request, Invoke(r) PROVE Calling'
  BY <1>13 DEF Invoke, Cleanup
<1>14. ASSUME NEW r \in Request, HandlerReturns(r) PROVE Calling'
  BY <1>14 DEF HandlerReturns, CanRespond, MaySuspect
<1>15. ASSUME NEW r \in Request, Take(r) PROVE Calling'
  BY <1>15 DEF Take
<1>16. ASSUME NEW r \in Request, PollingDone(r) PROVE Calling'
  BY <1>16 DEF PollingDone, CanRespond
<1>17. ASSUME NEW r \in Request, NEW a \in {"ok", "failed"}, Respond(r, a) PROVE Calling'
  BY <1>17 DEF Respond, CanRespond
<1>18. ASSUME NEW e \in {"caller", "callee"}, EpochEnds(e) PROVE Calling'
  BY <1>18 DEF EpochEnds
<1>19. CASE UNCHANGED vars
  BY Zenon, <1>19 DEF vars
<1> HIDE DEF IInv, Typed, Promise!Outcome, Calling, Serving, caller, callee
<1> QED
  BY Zenon, <1>1, <1>2, <1>3, <1>4, <1>5, <1>6, <1>7, <1>8, <1>9, <1>10,
     <1>11, <1>12, <1>13, <1>14, <1>15, <1>16, <1>17, <1>18, <1>19
  DEF Next, Caller, Reader, Worker, Quiet

\* Every action keeps what the callee did.
LEMMA ServingStep ==
    ASSUME IInv, [Next]_vars
    PROVE  Serving'
<1> USE DEF IInv, Typed, Promise!Outcome, Calling, Serving, caller, callee
<1>1. ASSUME NEW r \in Request, Call(r) PROVE Serving'
  BY <1>1 DEF Call, Return, caller, callee
<1>2. ASSUME NEW r \in Request, WriteRequest(r) PROVE Serving'
  BY <1>2 DEF WriteRequest, Return
<1>3. ASSUME NEW r \in Request, ReadResponse(r) PROVE Serving'
  BY <1>3 DEF ReadResponse
<1>4. ASSUME NEW r \in Request, ReadFails(r) PROVE Serving'
  BY <1>4 DEF ReadFails, Return
<1>5. ASSUME NEW r \in Request, Receive(r) PROVE Serving'
  BY <1>5 DEF Receive, Return
<1>6. ASSUME NEW r \in Request, ReaderLeaves(r) PROVE Serving'
  BY <1>6 DEF ReaderLeaves
<1>7. ASSUME NEW r \in Request, ContextEnds(r) PROVE Serving'
  BY <1>7 DEF ContextEnds
<1>8. ASSUME NEW r \in Request, GiveUp(r) PROVE Serving'
  BY <1>8 DEF GiveUp, Return
<1>9. ASSUME NEW r \in Request, Accept(r) PROVE Serving'
  BY <1>9 DEF Accept, MaySuspect
<1>10. ASSUME NEW r \in Request, ReadBody(r) PROVE Serving'
  BY <1>10 DEF ReadBody, Cleanup, MaySuspect
<1>11. ASSUME NEW r \in Request, Enqueue(r) PROVE Serving'
  BY <1>11 DEF Enqueue, CanRespond
<1>12. ASSUME NEW r \in Request, Expire(r) PROVE Serving'
  BY <1>12 DEF Expire
<1>13. ASSUME NEW r \in Request, Invoke(r) PROVE Serving'
  BY <1>13 DEF Invoke, Cleanup
<1>14. ASSUME NEW r \in Request, HandlerReturns(r) PROVE Serving'
  BY <1>14 DEF HandlerReturns, CanRespond, MaySuspect
<1>15. ASSUME NEW r \in Request, Take(r) PROVE Serving'
  BY <1>15 DEF Take
<1>16. ASSUME NEW r \in Request, PollingDone(r) PROVE Serving'
  BY <1>16 DEF PollingDone, CanRespond
<1>17. ASSUME NEW r \in Request, NEW a \in {"ok", "failed"}, Respond(r, a) PROVE Serving'
  BY <1>17 DEF Respond, CanRespond
<1>18. ASSUME NEW e \in {"caller", "callee"}, EpochEnds(e) PROVE Serving'
  BY <1>18 DEF EpochEnds
<1>19. CASE UNCHANGED vars
  BY Zenon, <1>19 DEF vars
<1> HIDE DEF IInv, Typed, Promise!Outcome, Calling, Serving, caller, callee
<1> QED
  BY Zenon, <1>1, <1>2, <1>3, <1>4, <1>5, <1>6, <1>7, <1>8, <1>9, <1>10,
     <1>11, <1>12, <1>13, <1>14, <1>15, <1>16, <1>17, <1>18, <1>19
  DEF Next, Caller, Reader, Worker, Quiet

-------------------------------------------------------------------------------
(* Slots. *)

\* A set of slots shrinks, or one slot is taken while there is one.
SlotsMove ==
    /\ \/ InRequests' \subseteq InRequests
       \/ HasInboundSlot /\ \E r \in Request : InRequests' \subseteq InRequests \cup {r}
    /\ \/ OutRequests' \subseteq OutRequests
       \/ HasOutboundSlot /\ \E r \in Request : OutRequests' \subseteq OutRequests \cup {r}

\* Taking one element under the limit stays within the limit.
LEMMA OneMore ==
    ASSUME NEW S, IsFiniteSet(S), Cardinality(S) <= Limit,
           NEW T,
           T \subseteq S \/ (Cardinality(S) < Limit /\ \E r \in Request : T \subseteq S \cup {r})
    PROVE  IsFiniteSet(T) /\ Cardinality(T) <= Limit
<1>1. Cardinality(S) \in Nat /\ Limit \in Nat
  BY FS_CardinalityType, RequestsAssumption
<1>2. CASE T \subseteq S
  <2>1. IsFiniteSet(T) /\ Cardinality(T) <= Cardinality(S)
    BY <1>2, FS_Subset
  <2>2. Cardinality(T) \in Nat
    BY <2>1, FS_CardinalityType
  <2> QED
    BY <1>1, <2>1, <2>2
<1>3. ASSUME NEW r \in Request, Cardinality(S) < Limit, T \subseteq S \cup {r}
      PROVE  IsFiniteSet(T) /\ Cardinality(T) <= Limit
  <2>1. IsFiniteSet(S \cup {r}) /\ Cardinality(S \cup {r}) \in {Cardinality(S), Cardinality(S) + 1}
    BY FS_AddElement
  <2>2. IsFiniteSet(T) /\ Cardinality(T) <= Cardinality(S \cup {r})
    BY <1>3, <2>1, FS_Subset
  <2>3. Cardinality(T) \in Nat
    BY <2>2, FS_CardinalityType
  <2> QED
    BY <1>1, <1>3, <2>1, <2>2, <2>3
<1> QED
  BY <1>2, <1>3

\* The slots stay within their limit when they move so.
LEMMA SlottedStep ==
    ASSUME Slotted, SlotsMove
    PROVE  Slotted'
<1>1. IsFiniteSet(InRequests') /\ Cardinality(InRequests') <= Limit
  BY OneMore DEF Slotted, SlotsAreBounded, SlotsMove, HasInboundSlot
<1>2. IsFiniteSet(OutRequests') /\ Cardinality(OutRequests') <= Limit
  BY OneMore DEF Slotted, SlotsAreBounded, SlotsMove, HasOutboundSlot
<1> QED
  BY <1>1, <1>2 DEF Slotted, SlotsAreBounded

\* No action takes more than one slot, and none without looking at the limit.
LEMMA SlotsMoveStep ==
    ASSUME IInv, [Next]_vars
    PROVE  SlotsMove
<1> USE DEF IInv, Typed, SlotsMove, InRequests, OutRequests, caller, callee
<1>1. ASSUME NEW r \in Request, Call(r) PROVE SlotsMove
  <2>1. InRequests' \subseteq InRequests
    BY <1>1 DEF Call
  <2>2. \/ OutRequests' \subseteq OutRequests
        \/ HasOutboundSlot /\ OutRequests' \subseteq OutRequests \cup {r}
    BY <1>1 DEF Call, Return
  <2> QED
    BY <2>1, <2>2
<1>2. ASSUME NEW r \in Request, WriteRequest(r) PROVE SlotsMove
  BY <1>2 DEF WriteRequest, Return
<1>3. ASSUME NEW r \in Request, ReadResponse(r) PROVE SlotsMove
  BY <1>3 DEF ReadResponse
<1>4. ASSUME NEW r \in Request, ReadFails(r) PROVE SlotsMove
  BY <1>4 DEF ReadFails, Return
<1>5. ASSUME NEW r \in Request, Receive(r) PROVE SlotsMove
  BY <1>5 DEF Receive, Return
<1>6. ASSUME NEW r \in Request, ReaderLeaves(r) PROVE SlotsMove
  BY <1>6 DEF ReaderLeaves
<1>7. ASSUME NEW r \in Request, ContextEnds(r) PROVE SlotsMove
  BY <1>7 DEF ContextEnds
<1>8. ASSUME NEW r \in Request, GiveUp(r) PROVE SlotsMove
  BY <1>8 DEF GiveUp, Return
<1>9. ASSUME NEW r \in Request, Accept(r) PROVE SlotsMove
  <2>1. OutRequests' \subseteq OutRequests
    BY <1>9 DEF Accept
  <2>2. \/ InRequests' \subseteq InRequests
        \/ HasInboundSlot /\ InRequests' \subseteq InRequests \cup {r}
    BY <1>9 DEF Accept
  <2> QED
    BY <2>1, <2>2
<1>10. ASSUME NEW r \in Request, ReadBody(r) PROVE SlotsMove
  BY <1>10 DEF ReadBody, Cleanup, MaySuspect
<1>11. ASSUME NEW r \in Request, Enqueue(r) PROVE SlotsMove
  BY <1>11 DEF Enqueue, CanRespond
<1>12. ASSUME NEW r \in Request, Expire(r) PROVE SlotsMove
  BY <1>12 DEF Expire
<1>13. ASSUME NEW r \in Request, Invoke(r) PROVE SlotsMove
  BY <1>13 DEF Invoke, Cleanup
<1>14. ASSUME NEW r \in Request, HandlerReturns(r) PROVE SlotsMove
  BY <1>14 DEF HandlerReturns, CanRespond, MaySuspect
<1>15. ASSUME NEW r \in Request, Take(r) PROVE SlotsMove
  BY <1>15 DEF Take
<1>16. ASSUME NEW r \in Request, PollingDone(r) PROVE SlotsMove
  BY <1>16 DEF PollingDone, CanRespond
<1>17. ASSUME NEW r \in Request, NEW a \in {"ok", "failed"}, Respond(r, a) PROVE SlotsMove
  BY <1>17 DEF Respond, CanRespond
<1>18. ASSUME NEW e \in {"caller", "callee"}, EpochEnds(e) PROVE SlotsMove
  BY <1>18 DEF EpochEnds
<1>19. CASE UNCHANGED vars
  BY Zenon, <1>19 DEF vars
<1> HIDE DEF IInv, Typed, SlotsMove, InRequests, OutRequests, caller, callee
<1> QED
  BY Zenon, <1>1, <1>2, <1>3, <1>4, <1>5, <1>6, <1>7, <1>8, <1>9, <1>10,
     <1>11, <1>12, <1>13, <1>14, <1>15, <1>16, <1>17, <1>18, <1>19
  DEF Next, Caller, Reader, Worker, Quiet

-------------------------------------------------------------------------------
(* One response, and the promise of Call. *)

\* What a step may do to the answer of a request and to what its caller and the
\* application know of it.
Promised ==
    /\ \A r \in Request : answer[r] # "nothing" => answer'[r] = answer[r]
    /\ [Promise!Next]_<<ran, told>>

\* Giving the request to the application is a step of the promise, or none.
LEMMA RunStep ==
    ASSUME NEW r \in Request, ran \in [Request -> BOOLEAN], told' = told,
           ran' \in {ran, [ran EXCEPT ![r] = TRUE]},
           ~ran[r] => told[r] \notin {"local", "refused", "ok"}
    PROVE  [Promise!Next]_<<ran, told>>
<1>1. CASE ran[r]
  <2>1. [ran EXCEPT ![r] = TRUE] = ran
    BY Zenon, <1>1
  <2> QED
    BY Zenon, <2>1
<1>2. CASE ~ran[r] /\ ran' # ran
  <2>1. Promise!Run(r)
    BY Zenon, <1>2 DEF Promise!Run
  <2> QED
    BY Zenon, <2>1 DEF Promise!Next
<1> QED
  BY Zenon, <1>1, <1>2

\* Returning from Call is a step of the promise.
LEMMA TellStep ==
    ASSUME NEW r \in Request, NEW outcome \in Promise!Outcome, Return(r, outcome), ran' = ran,
           told[r] = "none",
           outcome \in {"local", "refused"} => ~ran[r],
           outcome = "ok" => ran[r]
    PROVE  [Promise!Next]_<<ran, told>>
<1>1. Promise!Tell(r, outcome)
  BY Zenon DEF Promise!Tell, Return
<1> QED
  BY Zenon, <1>1 DEF Promise!Next

\* Every step keeps the promises.
LEMMA PromisedStep ==
    ASSUME IInv, [Next]_vars
    PROVE  Promised
<1> USE DEF Promised, caller, callee
<1>1. ASSUME NEW r \in Request, Call(r) PROVE Promised
  <2>1. told[r] = "none" /\ ~ran[r] /\ answer' = answer /\ ran' = ran
    BY <1>1 DEF Call, IInv, Typed, Calling, Serving, Promise!Outcome
  <2>2. told' = told \/ \E outcome \in {"local"} : Return(r, outcome)
    BY Zenon, <1>1 DEF Call
  <2>3. [Promise!Next]_<<ran, told>>
    BY Zenon, <2>1, <2>2, TellStep DEF Promise!Outcome
  <2> QED
    BY Zenon, <2>1, <2>3
<1>2. ASSUME NEW r \in Request, WriteRequest(r) PROVE Promised
  <2>1. told[r] = "none" /\ ~ran[r] /\ answer' = answer /\ ran' = ran
    BY <1>2 DEF WriteRequest, IInv, Typed, Calling, Serving, Promise!Outcome
  <2>2. told' = told \/ \E outcome \in {"local", "unknown"} : Return(r, outcome)
    BY Zenon, <1>2 DEF WriteRequest
  <2>3. [Promise!Next]_<<ran, told>>
    BY Zenon, <2>1, <2>2, TellStep DEF Promise!Outcome
  <2> QED
    BY Zenon, <2>1, <2>3
<1>3. ASSUME NEW r \in Request, ReadResponse(r) PROVE Promised
  BY <1>3 DEF ReadResponse
<1>4. ASSUME NEW r \in Request, ReadFails(r) PROVE Promised
  <2>1. CASE call[r] = "waiting"
    <3>1. told[r] = "none" /\ answer' = answer /\ ran' = ran /\ Return(r, "unknown")
      BY <1>4, <2>1 DEF ReadFails, IInv, Typed, Calling, Serving, Promise!Outcome
    <3> QED
      BY Zenon, <3>1, TellStep DEF Promise!Outcome
  <2>2. CASE call[r] # "waiting"
    BY Zenon, <1>4, <2>2 DEF ReadFails
  <2> QED
    BY <2>1, <2>2
<1>5. ASSUME NEW r \in Request, Receive(r) PROVE Promised
  <2>1. told[r] = "none" /\ answer' = answer
    BY <1>5 DEF Receive, IInv, Typed, Calling, Serving, Promise!Outcome
  <2>2. answer[r] \in Promise!Outcome
    BY <1>5 DEF Receive, IInv, Typed, Calling, Serving, Promise!Outcome
  <2>3. (answer[r] \in {"local", "refused"} => ~ran[r]) /\ (answer[r] = "ok" => ran[r])
    BY <1>5 DEF Receive, IInv, Typed, Calling, Serving, Promise!Outcome
  <2>4. Return(r, answer[r]) /\ ran' = ran
    BY Zenon, <1>5 DEF Receive
  <2>5. [Promise!Next]_<<ran, told>>
    BY Zenon, <2>1, <2>2, <2>3, <2>4, TellStep
  <2> QED
    BY Zenon, <2>1, <2>5
<1>6. ASSUME NEW r \in Request, ReaderLeaves(r) PROVE Promised
  BY <1>6 DEF ReaderLeaves
<1>7. ASSUME NEW r \in Request, ContextEnds(r) PROVE Promised
  BY <1>7 DEF ContextEnds
<1>8. ASSUME NEW r \in Request, GiveUp(r) PROVE Promised
  <2>1. told[r] = "none" /\ answer' = answer
    BY <1>8 DEF GiveUp, IInv, Typed, Calling, Serving, Promise!Outcome
  <2>2. "unknown" \in Promise!Outcome
    BY <1>8 DEF GiveUp, IInv, Typed, Calling, Serving, Promise!Outcome
  <2>3. ("unknown" \in {"local", "refused"} => ~ran[r]) /\ ("unknown" = "ok" => ran[r])
    BY <1>8 DEF GiveUp, IInv, Typed, Calling, Serving, Promise!Outcome
  <2>4. Return(r, "unknown") /\ ran' = ran
    BY Zenon, <1>8 DEF GiveUp
  <2>5. [Promise!Next]_<<ran, told>>
    BY Zenon, <2>1, <2>2, <2>3, <2>4, TellStep
  <2> QED
    BY Zenon, <2>1, <2>5
<1>9. ASSUME NEW r \in Request, Accept(r) PROVE Promised
  BY <1>9 DEF Accept, MaySuspect, IInv, Typed, Calling, Serving, Promise!Outcome
<1>10. ASSUME NEW r \in Request, ReadBody(r) PROVE Promised
  BY <1>10 DEF ReadBody, Cleanup, MaySuspect, IInv, Typed, Calling, Serving, Promise!Outcome
<1>11. ASSUME NEW r \in Request, Enqueue(r) PROVE Promised
  BY <1>11 DEF Enqueue, CanRespond, IInv, Typed, Calling, Serving, Promise!Outcome
<1>12. ASSUME NEW r \in Request, Expire(r) PROVE Promised
  BY <1>12 DEF Expire
<1>13. ASSUME NEW r \in Request, Invoke(r) PROVE Promised
  <2>1. \A q \in Request : answer[q] # "nothing" => answer'[q] = answer[q]
    BY <1>13 DEF Invoke, IInv, Typed, Calling, Serving, Promise!Outcome, Cleanup
  <2>2. told' = told /\ ran' \in {ran, [ran EXCEPT ![r] = TRUE]}
    BY Zenon, <1>13 DEF Invoke
  <2>3. ~ran[r] => told[r] \notin {"local", "refused", "ok"}
    BY <1>13 DEF Invoke, IInv, Typed, Calling, Serving, Promise!Outcome
  <2>4. ran \in [Request -> BOOLEAN]
    BY Zenon DEF IInv, Typed
  <2>5. [Promise!Next]_<<ran, told>>
    BY Zenon, <2>2, <2>3, <2>4, RunStep
  <2> QED
    BY Zenon, <2>1, <2>5
<1>14. ASSUME NEW r \in Request, HandlerReturns(r) PROVE Promised
  BY <1>14 DEF HandlerReturns, CanRespond, MaySuspect, IInv, Typed, Calling, Serving, Promise!Outcome
<1>15. ASSUME NEW r \in Request, Take(r) PROVE Promised
  <2>1. \A q \in Request : answer[q] # "nothing" => answer'[q] = answer[q]
    BY <1>15 DEF Take, IInv, Typed, Calling, Serving, Promise!Outcome
  <2>2. told' = told /\ ran' \in {ran, [ran EXCEPT ![r] = TRUE]}
    BY Zenon, <1>15 DEF Take
  <2>3. ~ran[r] => told[r] \notin {"local", "refused", "ok"}
    BY <1>15 DEF Take, IInv, Typed, Calling, Serving, Promise!Outcome
  <2>4. ran \in [Request -> BOOLEAN]
    BY Zenon DEF IInv, Typed
  <2>5. [Promise!Next]_<<ran, told>>
    BY Zenon, <2>2, <2>3, <2>4, RunStep
  <2> QED
    BY Zenon, <2>1, <2>5
<1>16. ASSUME NEW r \in Request, PollingDone(r) PROVE Promised
  BY <1>16 DEF PollingDone, CanRespond, IInv, Typed, Calling, Serving, Promise!Outcome
<1>17. ASSUME NEW r \in Request, NEW a \in {"ok", "failed"}, Respond(r, a) PROVE Promised
  BY <1>17 DEF Respond, CanRespond, IInv, Typed, Calling, Serving, Promise!Outcome
<1>18. ASSUME NEW e \in {"caller", "callee"}, EpochEnds(e) PROVE Promised
  BY <1>18 DEF EpochEnds
<1>19. CASE UNCHANGED vars
  BY Zenon, <1>19 DEF vars
<1> HIDE DEF Promised, caller, callee
<1> QED
  BY Zenon, <1>1, <1>2, <1>3, <1>4, <1>5, <1>6, <1>7, <1>8, <1>9, <1>10,
     <1>11, <1>12, <1>13, <1>14, <1>15, <1>16, <1>17, <1>18, <1>19
  DEF Next, Caller, Reader, Worker, Quiet

-------------------------------------------------------------------------------
\* The inductive invariant holds in every reachable state.
THEOREM Invariance == Spec => []IInv
<1>1. Init => IInv
  <2> SUFFICES ASSUME Init PROVE IInv
    OBVIOUS
  <2>1. Typed
    BY DEF Init, Typed, Promise!Outcome
  <2>2. Slotted
    <3>1. InRequests = {} /\ OutRequests = {}
      BY DEF Init, InRequests, OutRequests
    <3> QED
      BY <3>1, FS_EmptySet, RequestsAssumption DEF Slotted, SlotsAreBounded
  <2>3. Calling /\ Serving
    BY DEF Init, Calling, Serving
  <2> QED
    BY <2>1, <2>2, <2>3 DEF IInv
<1>2. IInv /\ [Next]_vars => IInv'
  BY TypedStep, SlotsMoveStep, SlottedStep, CallingStep, ServingStep DEF IInv
<1> QED
  BY <1>1, <1>2, PTL DEF Spec

\* acquireRequest never overdraws the slots of either end, however many calls,
\* streams and handlers there are.
THEOREM SlotBound == Spec => []SlotsAreBounded
<1>1. IInv => SlotsAreBounded
  BY DEF IInv, Slotted
<1> QED
  BY <1>1, Invariance, PTL

\* respond writes one response per stream, and nothing follows it: not the
\* failure of a handler that returned, not the one of an expired request, and
\* not the end of the stream.
THEOREM SingleResponse == Spec => OneResponse
<1>1. IInv /\ [Next]_vars =>
        [\A r \in Request : answer[r] # "nothing" => answer'[r] = answer[r]]_vars
  BY PromisedStep DEF Promised
<1> QED
  BY <1>1, Invariance, PTL DEF Spec, OneResponse

\* Call keeps its promise: what it returns agrees with what the application at
\* the other end was or will ever be given.
THEOREM CallImplementsPromise == Spec => PromiseSpec
<1>1. Init => Promise!Init
  BY DEF Init, Promise!Init
<1>2. IInv /\ [Next]_vars => [Promise!Next]_<<ran, told>>
  BY PromisedStep DEF Promised
<1> QED
  BY <1>1, <1>2, Invariance, PTL DEF Spec, PromiseSpec, Promise!Spec

-------------------------------------------------------------------------------
(* The token buckets. *)

\* What a bucket paid since the observed window opened, and what it still holds,
\* came from one burst and the refill; the bucket of a forgotten source was idle
\* long enough to be full again.
LimitsInv == Limits!TypeOK /\ Limits!Accounted /\ Limits!MessagesAccounted

\* The instance counts as the library does.
LEMMA LimitsCount ==
    \A S : Limits!Cardinality(S) = Cardinality(S) /\ (Limits!IsFiniteSet(S) <=> IsFiniteSet(S))
  BY Zenon DEF Limits!Cardinality, Cardinality, Limits!IsFiniteSet, IsFiniteSet

\* A refilled bucket holds no more than a full one, and gained no more than
\* the time that passed.
LEMMA RefilledBounds ==
    ASSUME NEW full \in Nat, NEW tokens \in 0..full, NEW at \in Nat,
           now \in Nat, at <= now
    PROVE  /\ Limits!Refilled(full, tokens, at) \in 0..full
           /\ Limits!Refilled(full, tokens, at) <= tokens + (now - at)
  BY DEF Limits!Refilled, Limits!AtMost

\* Full buckets account for themselves.
LEMMA LimitsInit == ASSUME Limits!RateAssumption, Limits!Init PROVE LimitsInv
  <1>1. Cardinality({}) = 0
    BY FS_EmptySet
  <1>2. Limits!TypeOK
    BY <1>1, LimitsCount DEF Limits!RateAssumption, Limits!Init, Limits!TypeOK
  <1>3. Limits!Accounted /\ Limits!MessagesAccounted
    BY DEF Limits!RateAssumption, Limits!Init, Limits!Accounted, Limits!MessagesAccounted
  <1>. QED  BY <1>2, <1>3 DEF LimitsInv

\* allow keeps the account of the source that calls it, whether or not its
\* bucket can pay.
LEMMA PayKeepsAccount ==
    ASSUME Limits!RateAssumption, Limits!TypeOK, NEW s \in Source, NEW tokens \in 0..Full, Limits!PayHandshake(s, tokens),
           paid[s] + tokens <= Full + (now - mark)
    PROVE  /\ fill' \in [Source -> 0..Full] /\ seen' \in [Source -> Nat]
           /\ paid' \in [Source -> Nat]
           /\ seen'[s] = now /\ paid'[s] + fill'[s] <= Full + (now - mark)
           /\ \A t \in Source \ {s} : fill'[t] = fill[t] /\ seen'[t] = seen[t] /\ paid'[t] = paid[t]
  <1>1. CASE tokens < Price
    BY <1>1 DEF Limits!PayHandshake, Limits!TypeOK
  <1>2. CASE ~(tokens < Price)
    <2>1. tokens - Price \in 0..Full /\ paid[s] + Price \in Nat
      BY <1>2 DEF Limits!RateAssumption, Limits!TypeOK
    <2>2. /\ fill' = [fill EXCEPT ![s] = tokens - Price]
          /\ paid' = [paid EXCEPT ![s] = @ + Price]
          /\ seen' = [seen EXCEPT ![s] = now]
      BY <1>2 DEF Limits!PayHandshake
    <2>3. paid'[s] + fill'[s] = paid[s] + tokens
      BY <2>1, <2>2 DEF Limits!RateAssumption, Limits!TypeOK
    <2>. QED  BY <2>1, <2>2, <2>3 DEF Limits!TypeOK
  <1>. QED  BY <1>1, <1>2

\* A handshake of a source with a bucket.
LEMMA AllowKnownInvariant ==
    ASSUME Limits!RateAssumption, LimitsInv, NEW s \in Source, Limits!AllowKnown(s)
    PROVE  LimitsInv'
  <1>. DEFINE tokens == Limits!Refilled(Full, fill[s], seen[s])
  <1>1. tokens \in 0..Full /\ tokens <= fill[s] + (now - seen[s])
    BY RefilledBounds DEF Limits!RateAssumption, LimitsInv, Limits!TypeOK
  <1>2. paid[s] + tokens <= Full + (now - mark)
    <2>1. CASE seen[s] < mark
      BY <1>1, <2>1 DEF Limits!RateAssumption, Limits!AllowKnown, LimitsInv, Limits!TypeOK, Limits!Accounted
    <2>2. CASE ~(seen[s] < mark)
      BY <1>1, <2>2 DEF Limits!RateAssumption, Limits!AllowKnown, LimitsInv, Limits!TypeOK, Limits!Accounted
    <2>. QED  BY <2>1, <2>2
  <1>3. Limits!PayHandshake(s, tokens)
    BY DEF Limits!AllowKnown
  <1>. HIDE DEF tokens
  <1>4. /\ fill' \in [Source -> 0..Full] /\ seen' \in [Source -> Nat]
        /\ paid' \in [Source -> Nat]
        /\ seen'[s] = now /\ paid'[s] + fill'[s] <= Full + (now - mark)
        /\ \A t \in Source \ {s} : fill'[t] = fill[t] /\ seen'[t] = seen[t] /\ paid'[t] = paid[t]
    BY <1>1, <1>2, <1>3, PayKeepsAccount DEF LimitsInv
  <1>5. Limits!TypeOK'
    BY <1>4 DEF LimitsInv, Limits!TypeOK, Limits!AllowKnown, Limits!messages
  <1>6. Limits!Accounted'
    BY <1>4 DEF LimitsInv, Limits!TypeOK, Limits!AllowKnown, Limits!Accounted
  <1>7. Limits!MessagesAccounted'
    BY DEF LimitsInv, Limits!AllowKnown, Limits!messages, Limits!MessagesAccounted
  <1>. QED  BY <1>5, <1>6, <1>7 DEF LimitsInv

\* A handshake of a source without one, which may evict idle buckets first.
LEMMA AllowNewInvariant ==
    ASSUME Limits!RateAssumption, LimitsInv, NEW s \in Source, Limits!AllowNew(s)
    PROVE  LimitsInv'
  <1>1. Limits!Active \subseteq sources /\ IsFiniteSet(Limits!Active) /\ Cardinality(Limits!Active) <= Cardinality(sources)
    <2>1. Limits!Active \subseteq sources /\ IsFiniteSet(sources)
      BY FS_Subset, LimitsCount DEF Limits!RateAssumption, Limits!Active, LimitsInv, Limits!TypeOK
    <2>. QED  BY <2>1, FS_Subset
  \* a source whose bucket is forgotten has waited for a full one
  <1>2. \A t \in sources \ Limits!Active : paid[t] <= now - mark
    <2>. SUFFICES ASSUME NEW t \in sources \ Limits!Active PROVE paid[t] <= now - mark
      OBVIOUS
    <2>1. t \in Source /\ now - seen[t] >= Idle
      BY DEF Limits!RateAssumption, Limits!Active, LimitsInv, Limits!TypeOK
    <2>. QED  BY <2>1 DEF Limits!RateAssumption, LimitsInv, Limits!TypeOK, Limits!Accounted
  <1>3. CASE Cardinality(Limits!Active) >= MaxSources
    <2>1. Limits!TypeOK'
      <3>1. Cardinality(Limits!Active) \in Nat /\ Cardinality(sources) \in Nat
        BY <1>1, FS_CardinalityType, FS_Subset, LimitsCount DEF Limits!RateAssumption, LimitsInv, Limits!TypeOK
      <3>2. sources' = Limits!Active /\ UNCHANGED <<fill, seen, paid, now, mark, Limits!messages>>
        BY <1>3, LimitsCount DEF Limits!AllowNew
      <3>. QED  BY <1>1, <3>1, <3>2, LimitsCount DEF Limits!RateAssumption, LimitsInv, Limits!TypeOK, Limits!messages
    <2>2. Limits!Accounted'
      BY <1>1, <1>2, <1>3, LimitsCount DEF LimitsInv, Limits!TypeOK, Limits!AllowNew, Limits!Accounted
    <2>3. Limits!MessagesAccounted'
      BY DEF LimitsInv, Limits!AllowNew, Limits!messages, Limits!MessagesAccounted
    <2>. QED  BY <2>1, <2>2, <2>3 DEF LimitsInv
  <1>4. CASE ~(Cardinality(Limits!Active) >= MaxSources)
    <2>1. paid[s] + Full <= Full + (now - mark)
      BY DEF Limits!RateAssumption, Limits!AllowNew, LimitsInv, Limits!TypeOK, Limits!Accounted
    <2>2. Limits!PayHandshake(s, Full) /\ sources' = Limits!Active \cup {s} /\ UNCHANGED <<now, mark, Limits!messages>>
      BY <1>4, LimitsCount DEF Limits!AllowNew
    <2>3. Full \in 0..Full
      BY DEF Limits!RateAssumption
    <2>4. /\ fill' \in [Source -> 0..Full] /\ seen' \in [Source -> Nat]
          /\ paid' \in [Source -> Nat]
          /\ seen'[s] = now /\ paid'[s] + fill'[s] <= Full + (now - mark)
          /\ \A t \in Source \ {s} : fill'[t] = fill[t] /\ seen'[t] = seen[t] /\ paid'[t] = paid[t]
      BY <2>1, <2>2, <2>3, PayKeepsAccount DEF LimitsInv
    <2>5. Cardinality(Limits!Active \cup {s}) <= MaxSources
      <3>1. s \notin Limits!Active
        BY <1>1 DEF Limits!AllowNew
      <3>2. Cardinality(Limits!Active \cup {s}) = Cardinality(Limits!Active) + 1
        BY <1>1, <3>1, FS_AddElement
      <3>. QED  BY <1>1, <1>4, <3>2, FS_CardinalityType DEF Limits!RateAssumption
    <2>6. Limits!TypeOK'
      BY <1>1, <2>2, <2>4, <2>5, LimitsCount DEF LimitsInv, Limits!TypeOK, Limits!messages
    <2>7. Limits!Accounted'
      BY <1>1, <1>2, <2>2, <2>4 DEF LimitsInv, Limits!TypeOK, Limits!Accounted
    <2>8. Limits!MessagesAccounted'
      BY <2>2 DEF LimitsInv, Limits!messages, Limits!MessagesAccounted
    <2>. QED  BY <2>6, <2>7, <2>8 DEF LimitsInv
  <1>. QED  BY <1>3, <1>4

\* An inbound message.
LEMMA MessageInvariant ==
    ASSUME Limits!RateAssumption, LimitsInv, Limits!AllowInboundMessage
    PROVE  LimitsInv'
  <1>. DEFINE tokens == Limits!Refilled(MessageFull, rateTokens, rateAt)
  <1>1. tokens \in 0..MessageFull /\ tokens <= rateTokens + (now - rateAt)
    BY RefilledBounds DEF Limits!RateAssumption, LimitsInv, Limits!TypeOK
  <1>2. /\ IF tokens < MessagePrice THEN rateTokens' = tokens /\ UNCHANGED messagesPaid
           ELSE /\ rateTokens' = tokens - MessagePrice
                /\ messagesPaid' = messagesPaid + MessagePrice
        /\ rateAt' = now
        /\ UNCHANGED <<now, mark, Limits!handshakes, bursts>>
    BY DEF Limits!AllowInboundMessage
  <1>. HIDE DEF tokens
  <1>3. Limits!TypeOK'
    BY <1>1, <1>2 DEF Limits!RateAssumption, LimitsInv, Limits!TypeOK, Limits!handshakes
  <1>4. Limits!Accounted'
    BY <1>2 DEF LimitsInv, Limits!Accounted, Limits!handshakes
  <1>5. messagesPaid + tokens <= bursts + (now - mark)
    <2>1. MessageFull <= bursts
      BY DEF LimitsInv, Limits!TypeOK
    <2>. QED  BY <1>1, <2>1 DEF Limits!RateAssumption, LimitsInv, Limits!TypeOK, Limits!MessagesAccounted
  <1>6. Limits!MessagesAccounted'
    BY <1>1, <1>2, <1>5 DEF Limits!RateAssumption, LimitsInv, Limits!TypeOK, Limits!MessagesAccounted
  <1>. QED  BY <1>3, <1>4, <1>6 DEF LimitsInv

\* Every step keeps the account.
LEMMA LimitsStep ==
    ASSUME Limits!RateAssumption, LimitsInv, [Limits!Next]_(Limits!vars)
    PROVE  LimitsInv'
  <1>1. CASE \E s \in Source : Limits!AllowKnown(s)
    BY <1>1, AllowKnownInvariant
  <1>2. CASE \E s \in Source : Limits!AllowNew(s)
    BY <1>2, AllowNewInvariant
  <1>3. CASE Limits!AllowInboundMessage
    BY <1>3, MessageInvariant
  <1>4. CASE Limits!Attach
    BY <1>4 DEF Limits!RateAssumption, Limits!Attach, LimitsInv, Limits!TypeOK, Limits!Accounted, Limits!MessagesAccounted, Limits!handshakes
  <1>5. CASE Limits!Tick
    BY <1>5 DEF Limits!RateAssumption, Limits!Tick, LimitsInv, Limits!TypeOK, Limits!Accounted, Limits!MessagesAccounted, Limits!handshakes, Limits!messages
  <1>6. CASE Limits!OpenWindow
    BY <1>6 DEF Limits!RateAssumption, Limits!OpenWindow, LimitsInv, Limits!TypeOK, Limits!Accounted, Limits!MessagesAccounted
  <1>7. CASE UNCHANGED Limits!vars
    BY <1>7 DEF Limits!vars, LimitsInv, Limits!TypeOK, Limits!Accounted, Limits!MessagesAccounted, Limits!handshakes, Limits!messages
  <1>. QED  BY <1>1, <1>2, <1>3, <1>4, <1>5, <1>6, <1>7 DEF Limits!Next

\* Every variable keeps its type: a bucket never holds more than its burst and
\* the table of sources never exceeds maxHandshakeSources.
THEOREM BucketsTypeCorrect ==
    ASSUME Limits!RateAssumption PROVE Limits!Spec => []Limits!TypeOK
  <1>1. LimitsInv => Limits!TypeOK
    BY DEF LimitsInv
  <1>. QED  BY <1>1, LimitsInit, LimitsStep, PTL DEF Limits!Spec

\* handshakeLimiter admits each source for at most one burst and the refill in
\* every window of time, for every table size and every order of callers.
THEOREM HandshakeRate ==
    ASSUME Limits!RateAssumption PROVE Limits!Spec => []Limits!HandshakesWithinRate
  <1>1. LimitsInv => Limits!HandshakesWithinRate
    BY DEF Limits!RateAssumption, LimitsInv, Limits!TypeOK, Limits!Accounted, Limits!HandshakesWithinRate
  <1>. QED  BY <1>1, LimitsInit, LimitsStep, PTL DEF Limits!Spec

\* allowInboundMessage admits the refill and one burst per connection.
THEOREM MessageRate ==
    ASSUME Limits!RateAssumption PROVE Limits!Spec => []Limits!MessagesWithinRate
  <1>1. LimitsInv => Limits!MessagesWithinRate
    BY DEF Limits!RateAssumption, LimitsInv, Limits!TypeOK, Limits!MessagesAccounted, Limits!MessagesWithinRate
  <1>. QED  BY <1>1, LimitsInit, LimitsStep, PTL DEF Limits!Spec
===============================================================================
