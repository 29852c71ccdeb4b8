-------------------------------- MODULE Tickets --------------------------------
(***************************************************************************)
(* Admission tickets: the bootstrap server resolves a group and signs a    *)
(* ticket for the owner it knows, the client presents it in its HELLO, and *)
(* the owner verifies it with the keys and the clock it has by then.       *)
(*                                                                         *)
(* In between, time passes, the owner restarts under a new incarnation,    *)
(* the registry learns of it late, and ReplaceKeys changes the owner's     *)
(* keys.  The two clocks differ by a fixed skew.  Signatures are taken to  *)
(* be sound: a ticket is what was signed.                                  *)
(***************************************************************************)
EXTENDS Integers, FiniteSets

CONSTANTS
    Key,                \* key identifiers; the signer keeps one of them
    SignerKey,
    Second,             \* clock ticks in a second, the precision of a claim
    Lifetime,           \* of a ticket: 30 seconds in the code
    Leeway,             \* 5 seconds in the code
    Skew,               \* largest difference of the two clocks
    MaxTime, MaxRestarts \* bounds

TicketsAssumption ==
    /\ SignerKey \in Key /\ Skew \in Nat
    /\ Second \in Nat \ {0} /\ Leeway \in Nat
    /\ Lifetime \in Nat /\ Lifetime >= Second

Group == {"", "g"}

VARIABLES
    now, skew,          \* the bootstrap's clock, and how far the owner's is ahead
    incarnation,        \* of the owner that runs
    listed,             \* the incarnation in the bootstrap's registry
    keys,               \* AdmissionVerifier.keys
    until,              \* the expiry of the client's credential
    reply,              \* the bootstrap's reply on its way to the client, if any
    ticket,             \* the ticket the client holds, if any
    outcome             \* of the HELLO just made, if any

vars == <<now, skew, incarnation, listed, keys, until, reply, ticket, outcome>>

Init ==
    /\ now = 0 /\ skew \in -Skew..Skew
    /\ incarnation = 1 /\ listed = 1
    /\ keys \in SUBSET Key \ {{}}
    /\ until \in 1..MaxTime
    /\ reply = {} /\ ticket = {} /\ outcome = {}

-------------------------------------------------------------------------------
(* The bootstrap server: Bootstrap.Resolve and AdmissionSigner.Sign. *)

Least(a, b) == IF a < b THEN a ELSE b

\* Fault: the ticket outlives the credential it was given for.
ExpiresAtUncapped == now + Lifetime

ExpiresAt == Least(now + Lifetime, until)

\* Fault: a claim is rounded up.
NumericDateUp(t) == ((t + Second - 1) \div Second) * Second

\* a claim holds whole seconds
NumericDate(t) == (t \div Second) * Second

Resolve(g) ==
    /\ until > now
    /\ reply' = {[group |-> g, incarnation |-> listed, kid |-> SignerKey,
                  exp |-> NumericDate(ExpiresAt), iat |-> NumericDate(now),
                  signed |-> now, expires |-> ExpiresAt]}
    /\ UNCHANGED <<now, skew, incarnation, listed, keys, until, ticket>>
    /\ outcome' = {}

\* the client's Resolve: a reply that comes after its expiry is an error
Receive ==
    /\ reply # {}
    /\ reply' = {}
    /\ ticket' = {t \in reply : t.expires > now}
    /\ UNCHANGED <<now, skew, incarnation, listed, keys, until>>
    /\ outcome' = {}

-------------------------------------------------------------------------------
(* The owner: AdmissionVerifier.Verify and authorizeAdmission. *)

Clock == now + skew

\* Fault: no leeway for a ticket that was signed by a faster clock.
ValidateRegisteredStrictly(t) == t.exp > Clock /\ t.exp > t.iat /\ t.iat <= Clock

\* validateRegistered; nbf is iat
ValidateRegistered(t) ==
    /\ t.exp > Clock /\ t.exp > t.iat
    /\ t.iat <= Clock + Leeway

Verify(t) == t.kid \in keys /\ ValidateRegistered(t)

\* Fault: any incarnation of the owner takes the ticket.
AuthorizeAdmissionAnywhere(t, g) == Verify(t) /\ t.group = g

AuthorizeAdmission(t, g) ==
    /\ Verify(t)
    /\ t.incarnation = incarnation /\ t.group = g /\ t.exp > Clock

Present(g) ==
    /\ \E t \in ticket :
         outcome' = {[ticket |-> t, group |-> g, admitted |-> AuthorizeAdmission(t, g),
                      at |-> now, incarnation |-> incarnation, known |-> SignerKey \in keys]}
    /\ UNCHANGED <<now, skew, incarnation, listed, keys, until, reply, ticket>>

-------------------------------------------------------------------------------
(* What happens meanwhile. *)

Restart ==
    /\ incarnation <= MaxRestarts
    /\ incarnation' = incarnation + 1
    /\ UNCHANGED <<now, skew, listed, keys, until, reply, ticket>>
    /\ outcome' = {}

Publish ==
    /\ listed' = incarnation
    /\ UNCHANGED <<now, skew, incarnation, keys, until, reply, ticket>>
    /\ outcome' = {}

\* at least one key
ReplaceKeys(ks) ==
    /\ ks # {}
    /\ keys' = ks
    /\ UNCHANGED <<now, skew, incarnation, listed, until, reply, ticket>>
    /\ outcome' = {}

Tick ==
    /\ now < MaxTime
    /\ now' = now + 1
    /\ UNCHANGED <<skew, incarnation, listed, keys, until, reply, ticket>>
    /\ outcome' = {}

Next ==
    \/ \E g \in Group : Resolve(g) \/ Present(g)
    \/ Receive \/ Restart \/ Publish \/ Tick
    \/ \E ks \in SUBSET Key : ReplaceKeys(ks)

Spec == Init /\ [][Next]_vars

-------------------------------------------------------------------------------
(* Properties. *)

\* A ticket admits only to the incarnation and the group it was signed for, and
\* for no longer than its lifetime and the credential behind it, by the owner's
\* clock: rounding, leeway, restarts and new keys add nothing to it.
AdmittedInTime ==
    \A o \in outcome : o.admitted =>
        /\ o.incarnation = o.ticket.incarnation /\ o.group = o.ticket.group
        /\ o.at + skew < o.ticket.signed + Lifetime
        /\ o.at + skew < until

\* A ticket is refused for a reason its holder can repair by resolving again:
\* the owner restarted, its keys or the group changed, or less than a second
\* was left of the ticket or the credential.  Clocks must agree within the
\* leeway.
RefusedForCause ==
    \A o \in outcome : ~o.admitted /\ o.known /\ skew >= -Leeway =>
        \/ o.incarnation # o.ticket.incarnation \/ o.group # o.ticket.group
        \/ o.at + skew > Least(o.ticket.signed + Lifetime, until) - Second
        \/ until < o.ticket.signed + Second
================================================================================
