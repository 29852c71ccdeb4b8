------------------------------ MODULE RateLimits ------------------------------
(***************************************************************************)
(* The two token buckets of an endpoint: handshakes per source address     *)
(* (handshakeLimiter, one caller: the accept loop) and inbound messages    *)
(* per connection (allowInboundMessage, under rateMu).                     *)
(*                                                                         *)
(* A bucket holds time rather than tokens: it gains a tick per tick and    *)
(* pays Price ticks, one token's worth, per admission.  The limits it      *)
(* must enforce are those over any window of time: the window opens at     *)
(* mark, at any moment, and admissions are counted from there.             *)
(***************************************************************************)
EXTENDS Integers, FiniteSets

CONSTANTS
    Source,
    Price, Full,               \* of a handshake, and a full bucket
    Idle,                      \* handshakeSourceIdle
    MaxSources,                \* maxHandshakeSources
    MessagePrice, MessageFull,
    MaxTime, MaxBursts         \* bounds on the clock and on bursts

\* an idle bucket may be forgotten because it would be full again
RateAssumption ==
    /\ IsFiniteSet(Source)
    /\ Price \in Nat \ {0} /\ Full \in Nat /\ Price <= Full
    /\ Idle \in Nat /\ Full <= Idle
    /\ MaxSources \in Nat
    /\ MessagePrice \in Nat \ {0} /\ MessageFull \in Nat /\ MessagePrice <= MessageFull
    /\ MaxTime \in Nat /\ MaxBursts \in Nat

VARIABLES
    now,
    sources,            \* sources with a bucket
    fill, seen,         \* their buckets and when they were last filled
    rateTokens, rateAt, \* the bucket of the current connection
    mark,               \* when the observed window opened
    paid,               \* by each source since then
    messagesPaid,       \* by inbound messages since then
    bursts              \* a full bucket for every connection since then

handshakes == <<sources, fill, seen, paid>>
messages == <<rateTokens, rateAt, messagesPaid, bursts>>
vars == <<now, mark, handshakes, messages>>

Init ==
    /\ now = 0 /\ mark = 0
    /\ sources = {}
    /\ fill = [s \in Source |-> 0] /\ seen = [s \in Source |-> 0]
    /\ paid = [s \in Source |-> 0]
    /\ rateTokens = MessageFull /\ rateAt = 0
    /\ messagesPaid = 0 /\ bursts = MessageFull

-------------------------------------------------------------------------------

AtMost(bound, n) == IF n <= bound THEN n ELSE bound

\* Fault: the time of the last refill is forgotten.
RefilledTwice(full, tokens, at) == AtMost(full, tokens + now)

Refilled(full, tokens, at) == AtMost(full, tokens + (now - at))

\* a bucket pays if it can; refilled either way
PayHandshake(s, tokens) ==
    /\ seen' = [seen EXCEPT ![s] = now]
    /\ IF tokens < Price
         THEN fill' = [fill EXCEPT ![s] = tokens] /\ paid' = paid
         ELSE /\ fill' = [fill EXCEPT ![s] = tokens - Price]
              /\ paid' = [paid EXCEPT ![s] = @ + Price]

\* allow, for a source that has a bucket
AllowKnown(s) ==
    /\ s \in sources
    /\ PayHandshake(s, Refilled(Full, fill[s], seen[s]))
    /\ UNCHANGED <<now, mark, sources, messages>>

\* Fault: every bucket is forgotten to make room.
ActiveNone == {}

\* the buckets a new source leaves in place
Active == {s \in sources : now - seen[s] < Idle}

\* allow, for a source that has none: idle buckets are forgotten first
AllowNew(s) ==
    /\ s \notin sources
    /\ IF Cardinality(Active) >= MaxSources
         THEN sources' = Active /\ UNCHANGED <<fill, seen, paid>>
         ELSE sources' = Active \cup {s} /\ PayHandshake(s, Full)
    /\ UNCHANGED <<now, mark, messages>>

\* Fault: a message is admitted for a part of its price.
AllowInboundMessageCheaply ==
    /\ LET tokens == Refilled(MessageFull, rateTokens, rateAt) IN
       /\ rateTokens' = IF tokens = 0 THEN tokens ELSE tokens - 1
       /\ messagesPaid' = IF tokens = 0 THEN messagesPaid ELSE messagesPaid + MessagePrice
    /\ rateAt' = now
    /\ UNCHANGED <<now, mark, handshakes, bursts>>

AllowInboundMessage ==
    /\ LET tokens == Refilled(MessageFull, rateTokens, rateAt) IN
       IF tokens < MessagePrice THEN rateTokens' = tokens /\ UNCHANGED messagesPaid
       ELSE /\ rateTokens' = tokens - MessagePrice
            /\ messagesPaid' = messagesPaid + MessagePrice
    /\ rateAt' = now
    /\ UNCHANGED <<now, mark, handshakes, bursts>>

\* a resumed session's connection starts with a full bucket
Attach ==
    /\ bursts < MaxBursts
    /\ rateTokens' = MessageFull /\ rateAt' = now
    /\ bursts' = bursts + MessageFull
    /\ UNCHANGED <<now, mark, handshakes, messagesPaid>>

Tick ==
    /\ now < MaxTime
    /\ now' = now + 1
    /\ UNCHANGED <<mark, handshakes, messages>>

\* the observer's window opens again
OpenWindow ==
    /\ mark' = now
    /\ paid' = [s \in Source |-> 0]
    /\ messagesPaid' = 0 /\ bursts' = MessageFull
    /\ UNCHANGED <<now, sources, fill, seen, rateTokens, rateAt>>

Next ==
    \/ \E s \in Source : AllowKnown(s) \/ AllowNew(s)
    \/ AllowInboundMessage \/ Attach
    \/ Tick \/ OpenWindow

Spec == Init /\ [][Next]_vars

-------------------------------------------------------------------------------
(* Properties. *)

\* Every variable has its type, buckets hold at most their burst and the table
\* of sources is within its limit.
TypeOK ==
    /\ now \in Nat /\ mark \in Nat /\ mark <= now
    /\ sources \subseteq Source /\ Cardinality(sources) <= MaxSources
    /\ fill \in [Source -> 0..Full] /\ seen \in [Source -> Nat]
    /\ \A s \in Source : seen[s] <= now
    /\ paid \in [Source -> Nat]
    /\ rateTokens \in 0..MessageFull /\ rateAt \in Nat /\ rateAt <= now
    /\ messagesPaid \in Nat /\ bursts \in Nat /\ MessageFull <= bursts

\* In every window a source is admitted for at most one burst and the refill
\* of the window, although its bucket may be forgotten and made anew.
HandshakesWithinRate == \A s \in Source : paid[s] <= Full + (now - mark)

\* In every window a session's messages are admitted for at most the refill of
\* the window and one burst for every connection attached in it.
MessagesWithinRate == messagesPaid <= bursts + (now - mark)

-------------------------------------------------------------------------------
(* The inductive strengthening. *)

\* what a bucket holds and paid since the window opened came from one burst
\* and the refill since then; a forgotten one was idle long enough to refill
Accounted ==
    \A s \in Source :
        IF s \notin sources THEN paid[s] <= now - mark
        ELSE IF seen[s] < mark THEN paid[s] = 0
        ELSE paid[s] + fill[s] <= Full + (seen[s] - mark)

MessagesAccounted ==
    IF rateAt < mark THEN messagesPaid = 0
    ELSE messagesPaid + rateTokens <= bursts + (rateAt - mark)
===============================================================================
