---------------------------- MODULE CustomStreams -----------------------------
(***************************************************************************)
(* Application byte streams over one connection: openStream at one end,    *)
(* readCustomStream at the other, in either dispatch mode, and the slots   *)
(* both ends hold until the application closes or aborts its side.         *)
(***************************************************************************)
EXTENDS Integers, FiniteSets

CONSTANTS
    Stream,
    Limit         \* Streams, in the limits of both ends

StreamsAssumption == Limit \in Nat \ {0}

VARIABLES
    mode,         \* handlers or polling, at the accepting end
    current,      \* the epoch is current at the accepting end
    opener,       \* idle, opening, open, closed or failed
    header,       \* the header was written
    reply,        \* the acceptance: none, accepted, refused or broken
    acceptor,     \* none, arrived, announced, queued, served, closed or left
    delivered,    \* streams the accepting application was given
    inStreams, outStreams,   \* the counters of slots
    slotFree      \* ends whose slot of a stream went back: releaseOnce

vars == <<mode, current, opener, header, reply, acceptor, delivered,
          inStreams, outStreams, slotFree>>

Init ==
    /\ mode \in {"handlers", "polling"} /\ current = TRUE
    /\ opener = [s \in Stream |-> "idle"] /\ header = {}
    /\ reply = [s \in Stream |-> "none"] /\ acceptor = [s \in Stream |-> "none"]
    /\ delivered = {} /\ inStreams = 0 /\ outStreams = 0
    /\ slotFree = [s \in Stream |-> {"in", "out"}]

-------------------------------------------------------------------------------
(* Slots. *)

AcquireOut(s) ==
    /\ outStreams < Limit
    /\ outStreams' = outStreams + 1
    /\ slotFree' = [slotFree EXCEPT ![s] = @ \ {"out"}]

ReleaseOut(s) ==
    /\ outStreams' = IF "out" \in slotFree[s] THEN outStreams ELSE outStreams - 1
    /\ slotFree' = [slotFree EXCEPT ![s] = @ \cup {"out"}]

AcquireIn(s) ==
    /\ inStreams < Limit
    /\ inStreams' = inStreams + 1
    /\ slotFree' = [slotFree EXCEPT ![s] = @ \ {"in"}]

\* Fault: releasing twice returns two slots.
ReleaseInEachTime(s) ==
    /\ inStreams' = inStreams - 1
    /\ slotFree' = [slotFree EXCEPT ![s] = @ \cup {"in"}]

ReleaseIn(s) ==
    /\ inStreams' = IF "in" \in slotFree[s] THEN inStreams ELSE inStreams - 1
    /\ slotFree' = [slotFree EXCEPT ![s] = @ \cup {"in"}]

-------------------------------------------------------------------------------
(* openStream. *)

Open(s) ==
    /\ opener[s] = "idle"
    /\ \/ AcquireOut(s) /\ opener' = [opener EXCEPT ![s] = "opening"]
       \/ opener' = [opener EXCEPT ![s] = "failed"] /\ UNCHANGED <<outStreams, slotFree>>
    /\ UNCHANGED <<mode, current, header, reply, acceptor, delivered, inStreams>>

WriteHeader(s) ==
    /\ opener[s] = "opening" /\ s \notin header
    /\ header' = header \cup {s}
    /\ UNCHANGED <<mode, current, opener, reply, acceptor, delivered, inStreams, outStreams, slotFree>>

Opened(s) ==
    /\ opener[s] = "opening" /\ reply[s] = "accepted"
    /\ opener' = [opener EXCEPT ![s] = "open"]
    /\ UNCHANGED <<mode, current, header, reply, acceptor, delivered, inStreams, outStreams, slotFree>>

\* Fault: the slot of a stream that was refused is not returned.
OpenFailsKeepingSlot(s) ==
    /\ opener[s] = "opening"
    /\ opener' = [opener EXCEPT ![s] = "failed"]
    /\ UNCHANGED <<mode, current, header, reply, acceptor, delivered, inStreams, outStreams, slotFree>>

\* refused, timed out, or the transport failed
OpenFails(s) ==
    /\ opener[s] = "opening"
    /\ opener' = [opener EXCEPT ![s] = "failed"]
    /\ ReleaseOut(s)
    /\ UNCHANGED <<mode, current, header, reply, acceptor, delivered, inStreams>>

\* applicationStream.Close or Abort
CloseOpened(s) ==
    /\ opener[s] = "open"
    /\ opener' = [opener EXCEPT ![s] = "closed"]
    /\ ReleaseOut(s)
    /\ UNCHANGED <<mode, current, header, reply, acceptor, delivered, inStreams>>

-------------------------------------------------------------------------------
(* readApplicationStream and readCustomStream. *)

Accept(s) ==
    /\ s \in header /\ acceptor[s] = "none"
    /\ \/ /\ AcquireIn(s)
          /\ acceptor' = [acceptor EXCEPT ![s] = "arrived"]
          /\ UNCHANGED reply
       \/ /\ acceptor' = [acceptor EXCEPT ![s] = "left"]
          /\ reply' = [reply EXCEPT ![s] = "refused"]
          /\ UNCHANGED <<inStreams, slotFree>>
    /\ UNCHANGED <<mode, current, opener, header, delivered, outStreams>>

\* Fault: a stream the inbox took is refused all the same.
RefuseQueued(s) ==
    /\ acceptor[s] = "arrived"
    /\ acceptor' = [acceptor EXCEPT ![s] = "queued"]
    /\ reply' = [reply EXCEPT ![s] = "refused"]
    /\ ReleaseIn(s)
    /\ UNCHANGED <<mode, current, opener, header, delivered, outStreams>>

\* no handler, or a full or stale inbox
Refuse(s) ==
    /\ acceptor[s] = "arrived"
    /\ acceptor' = [acceptor EXCEPT ![s] = "left"]
    /\ reply' = [reply EXCEPT ![s] = "refused"]
    /\ ReleaseIn(s)
    /\ UNCHANGED <<mode, current, opener, header, delivered, outStreams>>

\* Fault: a polling stream is announced to its opener before it has a place
\* in the inbox.
AdmitEarly(s) ==
    /\ acceptor[s] = "arrived"
    /\ reply' = [reply EXCEPT ![s] = "accepted"]
    /\ UNCHANGED <<mode, current, opener, header, acceptor, delivered, inStreams, outStreams, slotFree>>

\* polling puts the stream in the inbox first, handlers answer the opener first
Admit(s) ==
    /\ acceptor[s] = "arrived"
    /\ acceptor' = [acceptor EXCEPT ![s] = IF mode = "polling" THEN "queued" ELSE "announced"]
    /\ reply' = [reply EXCEPT ![s] = IF mode = "polling" THEN @ ELSE "accepted"]
    /\ current \/ mode = "handlers"
    /\ UNCHANGED <<mode, current, opener, header, delivered, inStreams, outStreams, slotFree>>

Announce(s) ==
    /\ mode = "polling" /\ reply[s] = "none" /\ acceptor[s] \in {"queued", "served", "closed"}
    /\ reply' = [reply EXCEPT ![s] = "accepted"]
    /\ UNCHANGED <<mode, current, opener, header, acceptor, delivered, inStreams, outStreams, slotFree>>

\* the acceptance cannot be written: the slot is released although a polling
\* application may already have the stream
AnnounceFails(s) ==
    /\ reply[s] = "none" /\ acceptor[s] \in {"arrived", "queued", "served", "closed"}
    /\ mode = "polling" <=> acceptor[s] # "arrived"
    /\ reply' = [reply EXCEPT ![s] = "broken"]
    /\ acceptor' = [acceptor EXCEPT ![s] = IF @ = "arrived" THEN "left" ELSE @]
    /\ ReleaseIn(s)
    /\ UNCHANGED <<mode, current, opener, header, delivered, outStreams>>

\* invoke in a goroutine of its own, or Next
Deliver(s) ==
    /\ acceptor[s] \in {"announced", "queued"}
    /\ IF current
         THEN acceptor' = [acceptor EXCEPT ![s] = "served"] /\ delivered' = delivered \cup {s}
         ELSE acceptor' = [acceptor EXCEPT ![s] = "left"] /\ UNCHANGED delivered
    /\ UNCHANGED <<mode, current, opener, header, reply, inStreams, outStreams, slotFree>>

CloseServed(s) ==
    /\ acceptor[s] = "served"
    /\ acceptor' = [acceptor EXCEPT ![s] = "closed"]
    /\ ReleaseIn(s)
    /\ UNCHANGED <<mode, current, opener, header, reply, delivered, outStreams>>

EpochEnds ==
    /\ current
    /\ current' = FALSE
    /\ UNCHANGED <<mode, opener, header, reply, acceptor, delivered, inStreams, outStreams, slotFree>>

Quiet ==
    /\ \A s \in Stream : opener[s] \in {"closed", "failed"} /\ acceptor[s] \in {"none", "left", "closed"}
    /\ UNCHANGED vars

-------------------------------------------------------------------------------

Opener(s) == WriteHeader(s) \/ Opened(s) \/ OpenFails(s)
Acceptor(s) == Accept(s) \/ Refuse(s) \/ Admit(s) \/ Announce(s) \/ AnnounceFails(s) \/ Deliver(s)
Application(s) == CloseOpened(s) \/ CloseServed(s)

Next ==
    \/ \E s \in Stream : Open(s) \/ Opener(s) \/ Acceptor(s) \/ Application(s)
    \/ EpochEnds \/ Quiet

Spec == Init /\ [][Next]_vars

\* Goroutines run, and applications close or abort their streams.
Fairness ==
    \A s \in Stream :
        WF_vars(Opener(s)) /\ WF_vars(Acceptor(s)) /\ WF_vars(Application(s))

FairSpec == Spec /\ Fairness

-------------------------------------------------------------------------------
(* Properties. *)

Holding(end) == {s \in Stream : end \notin slotFree[s]}

\* The counters of slots are exact and within their limit, whichever of a
\* failed acceptance, Close and Abort released a slot first.
SlotsAreExact ==
    /\ inStreams = Cardinality(Holding("in")) /\ inStreams <= Limit
    /\ outStreams = Cardinality(Holding("out")) /\ outStreams <= Limit

\* A stream its opener was refused is never given to the application.
RefusedIsNotDelivered == \A s \in delivered : reply[s] # "refused"

\* Every stream that was asked for is settled, unless its epoch ends: both its
\* slots return once the applications closed it, and it was given to the
\* accepting application if its opener was granted it.
StreamsSettle ==
    \A s \in Stream : opener[s] # "idle" ~>
        \/ slotFree[s] = {"in", "out"} /\ opener[s] = "failed"
        \/ slotFree[s] = {"in", "out"} /\ opener[s] = "closed" /\ s \in delivered
        \/ ~current
===============================================================================
