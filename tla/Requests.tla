------------------------------- MODULE Requests -------------------------------
(***************************************************************************)
(* Request and reply over one connection: call at one endpoint,            *)
(* readRequestStream and the dispatch of the envelope at the other, in     *)
(* either dispatch mode.  Every request has a bidirectional stream of its  *)
(* own.  The two ends learn of the end of the epoch separately, a write    *)
(* may fail at any time, and the caller may give up at any time.           *)
(***************************************************************************)
EXTENDS Integers, FiniteSets

CONSTANTS
    Request,
    Limit         \* Requests, in the limits of both ends

ASSUME RequestsAssumption == Limit \in Nat \ {0}

VARIABLES
    mode,         \* handlers or polling, at the answering end
    current,      \* the epoch is current at "caller" and at "callee"
    call,         \* idle, opened, waiting or returned
    told,         \* what Call returned
    ctx,          \* the caller's context is alive
    reader,       \* the goroutine that reads the response: none, reading, offering, gone
    stream,       \* what of the request reached the wire: none, partial, full, aborted
    answer,       \* what the callee put on the stream: nothing, a response or its end
    serve,        \* none, accepted, reserved, queued, running, left
    taken,        \* the polling application has the envelope
    ran,          \* the application was given the request
    expired,      \* the request's context at the callee is done
    responded,    \* Incoming.responded
    released      \* Incoming.released

caller == <<call, told, ctx, reader>>
callee == <<serve, taken, ran, expired, responded, released>>
vars == <<mode, current, caller, stream, answer, callee>>

Init ==
    /\ mode \in {"handlers", "polling"}
    /\ current = [e \in {"caller", "callee"} |-> TRUE]
    /\ call = [r \in Request |-> "idle"] /\ told = [r \in Request |-> "none"]
    /\ ctx = [r \in Request |-> TRUE] /\ reader = [r \in Request |-> "none"]
    /\ stream = [r \in Request |-> "none"] /\ answer = [r \in Request |-> "nothing"]
    /\ serve = [r \in Request |-> "none"] /\ taken = {} /\ ran = [r \in Request |-> FALSE]
    /\ expired = [r \in Request |-> FALSE]
    /\ responded = [r \in Request |-> FALSE] /\ released = [r \in Request |-> FALSE]

-------------------------------------------------------------------------------
(* Slots: acquireRequest, whose release runs once. *)

OutRequests == {r \in Request : call[r] \in {"opened", "waiting"}}
InRequests == {r \in Request : serve[r] \notin {"none", "left"}}

\* Fault: the callee's limit is not enforced.
HasInboundAlways == TRUE

HasInboundSlot == Cardinality(InRequests) < Limit

HasOutboundSlot == Cardinality(OutRequests) < Limit

-------------------------------------------------------------------------------
(* call. *)

Return(r, outcome) ==
    /\ call' = [call EXCEPT ![r] = "returned"]
    /\ told' = [told EXCEPT ![r] = outcome]

\* the epoch, the slots, the outgoing budget and the timeout are checked first
Call(r) ==
    /\ call[r] = "idle"
    /\ \/ /\ current["caller"] /\ HasOutboundSlot
          /\ call' = [call EXCEPT ![r] = "opened"]
          /\ UNCHANGED told
       \/ Return(r, "local")
    /\ UNCHANGED <<mode, current, ctx, reader, stream, answer, callee>>

\* Fault: a request whose CloseWrite failed is reported as not sent.
WriteRequestLosesFin(r) ==
    /\ call[r] = "opened"
    /\ \/ /\ stream' = [stream EXCEPT ![r] = "full"]
          /\ call' = [call EXCEPT ![r] = "waiting"]
          /\ reader' = [reader EXCEPT ![r] = "reading"]
          /\ UNCHANGED told
       \/ /\ stream' = [stream EXCEPT ![r] = "full"]
          /\ Return(r, "local")
          /\ UNCHANGED reader
    /\ UNCHANGED <<mode, current, ctx, answer, callee>>

\* nothing, a part or all of the request is written; CloseWrite may fail
WriteRequest(r) ==
    /\ call[r] = "opened"
    /\ \/ /\ stream' = [stream EXCEPT ![r] = "full"]
          /\ call' = [call EXCEPT ![r] = "waiting"]
          /\ reader' = [reader EXCEPT ![r] = "reading"]
          /\ UNCHANGED told
       \/ Return(r, "local") /\ UNCHANGED <<stream, reader>>
       \/ /\ \E written \in {"partial", "full"} : stream' = [stream EXCEPT ![r] = written]
          /\ Return(r, "unknown")
          /\ UNCHANGED reader
    /\ UNCHANGED <<mode, current, ctx, answer, callee>>

\* the reader has a complete response, for which it holds reply budget
ReadResponse(r) ==
    /\ reader[r] = "reading" /\ answer[r] \notin {"nothing", "end"}
    /\ reader' = [reader EXCEPT ![r] = "offering"]
    /\ UNCHANGED <<mode, current, call, told, ctx, stream, answer, callee>>

\* the stream ended early or broke, or there is no budget for the body
ReadFails(r) ==
    /\ reader[r] = "reading"
    /\ reader' = [reader EXCEPT ![r] = "gone"]
    /\ IF call[r] = "waiting" THEN Return(r, "unknown") ELSE UNCHANGED <<call, told>>
    /\ UNCHANGED <<mode, current, ctx, stream, answer, callee>>

\* the caller receives what the reader offers
Receive(r) ==
    /\ reader[r] = "offering" /\ call[r] = "waiting"
    /\ reader' = [reader EXCEPT ![r] = "gone"]
    /\ Return(r, answer[r])
    /\ UNCHANGED <<mode, current, ctx, stream, answer, callee>>

\* Fault: a reader whose caller gave up waits for the end of the epoch.
ReaderWaitsForEpoch(r) ==
    /\ reader[r] = "offering" /\ ~current["caller"]
    /\ reader' = [reader EXCEPT ![r] = "gone"]
    /\ UNCHANGED <<mode, current, call, told, ctx, stream, answer, callee>>

\* nobody receives: the body's budget is released
ReaderLeaves(r) ==
    /\ reader[r] = "offering" /\ (~ctx[r] \/ ~current["caller"])
    /\ reader' = [reader EXCEPT ![r] = "gone"]
    /\ UNCHANGED <<mode, current, call, told, ctx, stream, answer, callee>>

ContextEnds(r) ==
    /\ ctx[r] /\ call[r] # "idle"
    /\ ctx' = [ctx EXCEPT ![r] = FALSE]
    /\ UNCHANGED <<mode, current, call, told, reader, stream, answer, callee>>

\* the caller's context or its epoch is over: the stream is aborted
GiveUp(r) ==
    /\ call[r] = "waiting" /\ (~ctx[r] \/ ~current["caller"])
    /\ Return(r, "unknown")
    /\ stream' = [stream EXCEPT ![r] = "aborted"]
    /\ UNCHANGED <<mode, current, ctx, reader, answer, callee>>

EpochEnds(e) ==
    /\ current[e]
    /\ current' = [current EXCEPT ![e] = FALSE]
    /\ UNCHANGED <<mode, caller, stream, answer, callee>>

-------------------------------------------------------------------------------
(* readRequestStream. *)

\* cleanup: the stream is closed and the slot released
Cleanup(r) ==
    /\ serve' = [serve EXCEPT ![r] = "left"]
    /\ answer' = [answer EXCEPT ![r] = IF @ = "nothing" THEN "end" ELSE @]

\* respond, under responseMu: one response, and only in the current epoch
CanRespond(r) == ~responded[r] /\ current["callee"] /\ answer[r] = "nothing"

\* the callee closes its session for a violation or a slow consumer
MaySuspect == \E still \in {current["callee"], FALSE} : current' = [current EXCEPT !["callee"] = still]

\* a stream is refused for its rate or for want of a slot
Accept(r) ==
    /\ stream[r] # "none" /\ serve[r] = "none"
    /\ \/ /\ HasInboundSlot
          /\ serve' = [serve EXCEPT ![r] = "accepted"]
          /\ UNCHANGED <<current, answer>>
       \/ /\ serve' = [serve EXCEPT ![r] = "left"]
          /\ answer' = [answer EXCEPT ![r] = "refused"]
          /\ MaySuspect
    /\ UNCHANGED <<mode, caller, stream, taken, ran, expired, responded, released>>

\* capacity for the body is reserved, and the body is read
ReadBody(r) ==
    /\ serve[r] = "accepted"
    /\ \/ /\ stream[r] = "full"
          /\ serve' = [serve EXCEPT ![r] = "reserved"]
          /\ UNCHANGED <<current, answer>>
       \/ Cleanup(r) /\ MaySuspect
    /\ UNCHANGED <<mode, caller, stream, taken, ran, expired, responded, released>>

\* Fault: a request that is refused for want of room is queued nevertheless.
EnqueueBoth(r) ==
    /\ serve[r] = "reserved"
    /\ serve' = [serve EXCEPT ![r] = "queued"]
    /\ \E full \in {TRUE, FALSE} :
           answer' = [answer EXCEPT ![r] = IF full THEN "refused" ELSE @]
    /\ UNCHANGED <<mode, current, caller, stream, taken, ran, expired, responded, released>>

\* the envelope joins the queue of its mode, or is failed with Backpressure
Enqueue(r) ==
    /\ serve[r] = "reserved"
    /\ \/ /\ serve' = [serve EXCEPT ![r] = "queued"]
          /\ UNCHANGED <<answer, responded, released>>
       \/ /\ serve' = [serve EXCEPT ![r] = "left"]
          /\ answer' = [answer EXCEPT ![r] = IF CanRespond(r) THEN "refused" ELSE "end"]
          /\ responded' = [responded EXCEPT ![r] = CanRespond(r)]
          /\ released' = [released EXCEPT ![r] = TRUE]
    /\ UNCHANGED <<mode, current, caller, stream, taken, ran, expired>>

\* TimeoutMS after the body was read, or the end of the epoch
Expire(r) ==
    /\ serve[r] \in {"queued", "running"} /\ ~expired[r]
    /\ expired' = [expired EXCEPT ![r] = TRUE]
    /\ UNCHANGED <<mode, current, caller, stream, answer, serve, taken, ran, responded, released>>

-------------------------------------------------------------------------------
(* Handler mode: invoke. *)

Invoke(r) ==
    /\ mode = "handlers" /\ serve[r] = "queued"
    /\ IF current["callee"]
         THEN /\ serve' = [serve EXCEPT ![r] = "running"]
              /\ ran' = [ran EXCEPT ![r] = TRUE]
              /\ UNCHANGED <<answer, released>>
         ELSE /\ Cleanup(r)
              /\ released' = [released EXCEPT ![r] = TRUE]
              /\ UNCHANGED ran
    /\ UNCHANGED <<mode, current, caller, stream, taken, expired, responded>>

\* Fault: a second response is written over the first one.
RespondTwice(r, a) ==
    /\ ran[r] /\ current["callee"] /\ serve[r] # "left"
    /\ answer' = [answer EXCEPT ![r] = a]
    /\ responded' = [responded EXCEPT ![r] = TRUE]
    /\ UNCHANGED <<mode, current, caller, stream, serve, taken, ran, expired, released>>

\* Reply or Fail by the application, which owns the envelope
Respond(r, a) ==
    /\ serve[r] = "running" \/ r \in taken
    /\ CanRespond(r)
    /\ answer' = [answer EXCEPT ![r] = a]
    /\ responded' = [responded EXCEPT ![r] = TRUE]
    /\ UNCHANGED <<mode, current, caller, stream, serve, taken, ran, expired, released>>

\* a handler that did not respond fails the request, if its context is alive;
\* a panic closes the session, and its request is left without a response
HandlerReturns(r) ==
    /\ mode = "handlers" /\ serve[r] = "running"
    /\ serve' = [serve EXCEPT ![r] = "left"]
    /\ \/ /\ CanRespond(r) /\ ~expired[r]
          /\ answer' = [answer EXCEPT ![r] = "failed"]
          /\ responded' = [responded EXCEPT ![r] = TRUE]
          /\ UNCHANGED current
       \/ /\ answer' = [answer EXCEPT ![r] = IF @ = "nothing" THEN "end" ELSE @]
          /\ MaySuspect
          /\ UNCHANGED responded
    /\ released' = [released EXCEPT ![r] = TRUE]
    /\ UNCHANGED <<mode, caller, stream, taken, ran, expired>>

-------------------------------------------------------------------------------
(* Polling mode. *)

\* Next returns the envelope, which stays queued after its reader left
Take(r) ==
    /\ mode = "polling" /\ r \notin taken
    /\ serve[r] = "queued" \/ (serve[r] = "left" /\ expired[r])
    /\ taken' = taken \cup {r}
    /\ ran' = [ran EXCEPT ![r] = TRUE]
    /\ UNCHANGED <<mode, current, caller, stream, answer, serve, expired, responded, released>>

\* the reader waits for the response, or fails the request at its deadline
PollingDone(r) ==
    /\ mode = "polling" /\ serve[r] = "queued" /\ (responded[r] \/ expired[r])
    /\ serve' = [serve EXCEPT ![r] = "left"]
    /\ answer' = [answer EXCEPT ![r] =
                    IF @ # "nothing" THEN @ ELSE IF CanRespond(r) THEN "failed" ELSE "end"]
    /\ responded' = [responded EXCEPT ![r] = @ \/ CanRespond(r)]
    /\ released' = [released EXCEPT ![r] = TRUE]
    /\ UNCHANGED <<mode, current, caller, stream, taken, ran, expired>>

\* a request nobody calls leaves nothing to do
Quiet ==
    /\ \A r \in Request :
         /\ call[r] = "returned" /\ reader[r] \in {"none", "gone"}
         /\ serve[r] = "left" \/ (serve[r] = "none" /\ stream[r] = "none")
    /\ UNCHANGED vars

-------------------------------------------------------------------------------

Caller(r) ==
    \/ WriteRequest(r) \/ ReadResponse(r) \/ Receive(r) \/ ReaderLeaves(r) \/ GiveUp(r)
    \/ (answer[r] = "end" \/ ~current["callee"]) /\ ReadFails(r)
Reader(r) == Accept(r) \/ ReadBody(r) \/ Enqueue(r) \/ PollingDone(r)
Worker(r) == Invoke(r) \/ HandlerReturns(r)

Next ==
    \/ \E r \in Request :
         \/ Call(r) \/ Caller(r) \/ ReadFails(r) \/ ContextEnds(r)
         \/ Reader(r) \/ Worker(r) \/ Expire(r) \/ Take(r)
         \/ \E a \in {"ok", "failed"} : Respond(r, a)
    \/ \E e \in {"caller", "callee"} : EpochEnds(e)
    \/ Quiet

Spec == Init /\ [][Next]_vars

\* Goroutines run, a handler returns and a request's context expires; the
\* callers' contexts need not end.
Fairness ==
    \A r \in Request :
        /\ WF_vars(Caller(r)) /\ WF_vars(Reader(r))
        /\ WF_vars(Worker(r)) /\ WF_vars(Expire(r))

FairSpec == Spec /\ Fairness

-------------------------------------------------------------------------------
(* Properties. *)

\* A slot of the callee is never overdrawn: its limit counts the requests
\* whose reader or handler is still busy, also those their caller forgot.
SlotsAreBounded ==
    Cardinality(InRequests) <= Limit /\ Cardinality(OutRequests) <= Limit

\* A request has one response: what the caller is told is never replaced, and
\* nothing is written after the stream was closed.
OneResponse ==
    [][\A r \in Request : answer[r] # "nothing" => answer'[r] = answer[r]]_vars

Promise == INSTANCE RemoteCall

\* Call keeps the promise of RemoteCall: a request runs at most once; it runs
\* neither before nor after a local or a Backpressure error; OutcomeUnknown
\* covers every way to lose the answer of a request that may have run.
PromiseSpec == Promise!Spec

\* Every call returns without help from its context, because the callee
\* answers or closes each stream it accepted; and the reader of its response
\* returns its budget.
CallReturns ==
    \A r \in Request :
        call[r] \in {"opened", "waiting"} ~> call[r] = "returned" /\ reader[r] \in {"none", "gone"}
===============================================================================
