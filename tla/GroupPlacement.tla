---------------------------- MODULE GroupPlacement -----------------------------
(***************************************************************************)
(* One group through placement: the durable assignment, the Resolve calls  *)
(* that read or make it and sign admission tickets, the admissions these   *)
(* tickets buy on the owner, and CloseGroup, which closes the group on the *)
(* owner, closes its sessions, commits the closure to the store and keeps  *)
(* a tombstone for a while.                                                *)
(*                                                                         *)
(* An owner is a process incarnation: one that crashes does not come back. *)
(* Time is in one unit for all the durations.                              *)
(*                                                                         *)
(* A definition commented "Fault:" is a plausible bug in the definition    *)
(* that follows it; no action uses it.                                     *)
(***************************************************************************)
EXTENDS Integers, FiniteSets

CONSTANTS
    Owner,        \* owner incarnations
    NoOwner,
    Resolver,     \* Resolve calls that may be in progress together
    Player,       \* admissions that may be tried
    TicketTTL,    \* 30 s
    AuthTimeout,  \* limits.AuthTimeout
    GroupTTL,     \* 35 s
    MaxLag,       \* time from the store's answer taking effect to its use
    MaxTime       \* bound on the clock

ASSUME PlacementAssumption ==
    /\ NoOwner \notin Owner
    /\ TicketTTL \in Nat \ {0} /\ AuthTimeout \in Nat \ {0} /\ GroupTTL \in Nat \ {0}
    /\ MaxLag \in Nat /\ MaxTime \in Nat

VARIABLES
    clock,
    healthy,    \* owners the registry reports healthy, with capacity, not draining
    down,       \* owners that crashed
    record,     \* the store's Assignment: its owner, and whether it is closed
    resolve,    \* each Resolve: where it stands, the registry snapshot it took,
                \* its candidate or the owner it was given, and when it was
    tickets,    \* admission tickets signed that have not expired
    player,     \* each admission: new, verified, in or out, the owner it is made
                \* on, and the deadline of its handshake context
    group,      \* each owner's groupState: none, open, closed or kept (persisted)
    keepUntil,  \* when the tombstone's timer fires
    closing,    \* where each owner's CloseGroup stands
    doomed,     \* the sessions it has yet to close
    ended       \* owners on which a CloseGroup has returned nil

storeVars   == <<healthy, down, record>>
ownerVars   == <<group, keepUntil, closing, doomed, ended>>
vars == <<clock, storeVars, resolve, tickets, player, ownerVars>>

Idle == [pc |-> "idle", statuses |-> {}, owner |-> NoOwner, readAt |-> 0]
New == [pc |-> "new", owner |-> NoOwner, deadline |-> 0]
Out == [pc |-> "out", owner |-> NoOwner, deadline |-> 0]
NoRecord == [owner |-> NoOwner, closed |-> FALSE]

Init ==
    /\ clock = 0
    /\ healthy = Owner /\ down = {} /\ record = NoRecord
    /\ resolve = [r \in Resolver |-> Idle]
    /\ tickets = {}
    /\ player = [p \in Player |-> New]
    /\ group = [o \in Owner |-> "none"]
    /\ keepUntil = [o \in Owner |-> 0]
    /\ closing = [o \in Owner |-> "idle"]
    /\ doomed = [o \in Owner |-> {}]
    /\ ended = {}

--------------------------------------------------------------------------------
(* Bootstrap.Resolve. *)

At(p) == player[p].owner

Members(o) == {p \in Player : player[p].pc = "in" /\ At(p) = o}

Snapshot(r) ==
    /\ resolve[r].pc = "idle"
    /\ resolve' = [resolve EXCEPT ![r] = [@ EXCEPT !.pc = "read", !.statuses = healthy]]
    /\ UNCHANGED <<clock, storeVars, tickets, player, ownerVars>>

\* the store answered with an open assignment
Answered(r, o) ==
    resolve' = [resolve EXCEPT ![r] = [@ EXCEPT !.pc = "sign", !.owner = o, !.readAt = clock]]

\* Store.Get found an assignment
Read(r) ==
    /\ resolve[r].pc = "read" /\ record.owner # NoOwner
    /\ \/ record.closed /\ resolve' = [resolve EXCEPT ![r] = Idle]
       \/ ~record.closed /\ Answered(r, record.owner)
    /\ UNCHANGED <<clock, storeVars, tickets, player, ownerVars>>

\* ErrAssignmentNotFound: selectOwner, if an owner is eligible
Select(r) ==
    /\ resolve[r].pc = "read" /\ record.owner = NoOwner
    /\ \/ \E o \in resolve[r].statuses :
             resolve' = [resolve EXCEPT ![r] = [@ EXCEPT !.pc = "assign", !.owner = o]]
       \/ /\ resolve[r].statuses = {}
          /\ resolve' = [resolve EXCEPT ![r] = Idle]
    /\ UNCHANGED <<clock, storeVars, tickets, player, ownerVars>>

\* Fault: the candidate replaces an assignment made in the meantime.
AssignedOverwrite(r) == [owner |-> resolve[r].owner, closed |-> FALSE]

\* Store.Assign: the record afterwards, which is never overwritten
Assigned(r) ==
    IF record = NoRecord THEN [owner |-> resolve[r].owner, closed |-> FALSE] ELSE record

Assign(r) ==
    /\ resolve[r].pc = "assign"
    /\ record' = Assigned(r)
    /\ \/ record'.closed /\ resolve' = [resolve EXCEPT ![r] = Idle]
       \/ ~record'.closed /\ Answered(r, record'.owner)
    /\ UNCHANGED <<clock, healthy, down, tickets, player, ownerVars>>

\* the assigned owner must be available in the snapshot; then a ticket
Sign(r) ==
    /\ resolve[r].pc = "sign"
    /\ resolve' = [resolve EXCEPT ![r] = Idle]
    /\ tickets' =
         IF resolve[r].owner \in resolve[r].statuses
         THEN tickets \cup {[owner |-> resolve[r].owner, expires |-> clock + TicketTTL]}
         ELSE tickets
    /\ UNCHANGED <<clock, storeVars, player, ownerVars>>

--------------------------------------------------------------------------------
(* handleConnection on the owner. *)

\* authorizeAdmission up to AuthorizeGroup, which has the rest of the context
Verify(p, t) ==
    /\ player[p].pc = "new"
    /\ t.owner \notin down /\ t.expires > clock
    /\ player' = [player EXCEPT ![p] = [pc |-> "verified", owner |-> t.owner,
                                        deadline |-> clock + AuthTimeout]]
    /\ UNCHANGED <<clock, storeVars, resolve, tickets, ownerVars>>

MayJoin(o) == group[o] \in {"none", "open"}

\* the groupMu section
Admit(p) ==
    /\ player[p].pc = "verified" /\ MayJoin(At(p))
    /\ player' = [player EXCEPT ![p] = [@ EXCEPT !.pc = "in", !.deadline = 0]]
    /\ group' = [group EXCEPT ![At(p)] = "open"]
    /\ UNCHANGED <<clock, storeVars, resolve, tickets, keepUntil, closing, doomed, ended>>

\* AuthorizeGroup refuses, the group is closed, or the endpoint is full or
\* draining, when the group stays behind
Refuse(p) ==
    /\ player[p].pc = "verified"
    /\ player' = [player EXCEPT ![p] = Out]
    /\ \/ UNCHANGED group
       \/ group[At(p)] = "none" /\ group' = [group EXCEPT ![At(p)] = "open"]
    /\ UNCHANGED <<clock, storeVars, resolve, tickets, keepUntil, closing, doomed, ended>>

\* the session is closed and removed for a reason of its own
Leave(p) ==
    /\ player[p].pc = "in"
    /\ player' = [player EXCEPT ![p] = Out]
    /\ UNCHANGED <<clock, storeVars, resolve, tickets, ownerVars>>

--------------------------------------------------------------------------------
(* serverEndpoint.CloseGroup. *)

\* the groupMu section
MarkClosed(o) ==
    /\ closing[o] = "idle" /\ o \notin down
    /\ group' = [group EXCEPT ![o] = IF @ = "kept" THEN "kept" ELSE "closed"]
    /\ doomed' = [doomed EXCEPT ![o] = Members(o)]
    /\ closing' = [closing EXCEPT ![o] = "sessions"]
    /\ UNCHANGED <<clock, storeVars, resolve, tickets, player, keepUntil, ended>>

\* closeSession, which does nothing to a session that has left
CloseMember(o, p) ==
    /\ closing[o] = "sessions" /\ p \in doomed[o]
    /\ doomed' = [doomed EXCEPT ![o] = @ \ {p}]
    /\ player' = [player EXCEPT ![p] = Out]
    /\ UNCHANGED <<clock, storeVars, resolve, tickets, group, keepUntil, closing, ended>>

\* Fault: the store closes an assignment to any owner.
MayCloseAny(o) == record.owner # NoOwner

\* Fault: a missing assignment is closed too.
MayCloseAbsent(o) == record.owner \in {o, NoOwner}

\* Store.Close finds an assignment, and it is this owner's
MayClose(o) == record.owner = o

\* CommitGroupClose: closed in the store, or refused by it; the store may fail
\* before or after it has committed
Commit(o) ==
    /\ closing[o] = "sessions" /\ doomed[o] = {}
    /\ \/ /\ MayClose(o)
          /\ record' = [record EXCEPT !.closed = TRUE]
          /\ \E answer \in {"retain", "idle"} : closing' = [closing EXCEPT ![o] = answer]
       \/ /\ UNCHANGED record
          /\ closing' = [closing EXCEPT ![o] = "idle"]
    /\ UNCHANGED <<clock, healthy, down, resolve, tickets, player, group, keepUntil,
                   doomed, ended>>

\* Fault: the tombstone is kept for as long as a ticket is valid.
KeepForTicket == clock + TicketTTL

KeepFor == clock + GroupTTL

\* retainClosedGroup
Retain(o) ==
    /\ closing[o] = "retain"
    /\ \/ /\ group[o] = "closed"
          /\ group' = [group EXCEPT ![o] = "kept"]
          /\ keepUntil' = [keepUntil EXCEPT ![o] = KeepFor]
       \/ /\ group[o] # "closed"
          /\ UNCHANGED <<group, keepUntil>>
    /\ closing' = [closing EXCEPT ![o] = "idle"]
    /\ ended' = ended \cup {o}
    /\ UNCHANGED <<clock, storeVars, resolve, tickets, player, doomed>>

\* the tombstone's timer
Forget(o) ==
    /\ group[o] = "kept" /\ keepUntil[o] <= clock
    /\ group' = [group EXCEPT ![o] = "none"]
    /\ keepUntil' = [keepUntil EXCEPT ![o] = 0]
    /\ UNCHANGED <<clock, storeVars, resolve, tickets, player, closing, doomed, ended>>

--------------------------------------------------------------------------------
(* The environment: owners, their registry, and time. *)

SetStatus(o) ==
    /\ o \notin down
    /\ healthy' = IF o \in healthy THEN healthy \ {o} ELSE healthy \cup {o}
    /\ UNCHANGED <<clock, down, record, resolve, tickets, player, ownerVars>>

Crash(o) ==
    /\ o \notin down
    /\ down' = down \cup {o} /\ healthy' = healthy \ {o}
    /\ player' = [p \in Player |-> IF At(p) = o THEN Out ELSE player[p]]
    /\ group' = [group EXCEPT ![o] = "none"]
    /\ keepUntil' = [keepUntil EXCEPT ![o] = 0]
    /\ closing' = [closing EXCEPT ![o] = "idle"]
    /\ doomed' = [doomed EXCEPT ![o] = {}]
    /\ UNCHANGED <<clock, record, resolve, tickets, ended>>

\* a handshake is over by its deadline, and a Resolve uses what it read in time
Tick ==
    /\ clock < MaxTime
    /\ \A p \in Player : player[p].pc = "verified" => clock < player[p].deadline
    /\ \A r \in Resolver : resolve[r].pc = "sign" => clock < resolve[r].readAt + MaxLag
    /\ clock' = clock + 1
    /\ tickets' = {t \in tickets : t.expires > clock'}
    /\ UNCHANGED <<storeVars, resolve, player, ownerVars>>

Next ==
    \/ \E r \in Resolver : Snapshot(r) \/ Read(r) \/ Select(r) \/ Assign(r) \/ Sign(r)
    \/ \E p \in Player : Admit(p) \/ Refuse(p) \/ Leave(p)
    \/ \E p \in Player, t \in tickets : Verify(p, t)
    \/ \E o \in Owner : MarkClosed(o) \/ Commit(o) \/ Retain(o) \/ Forget(o)
    \/ \E o \in Owner, p \in Player : CloseMember(o, p)
    \/ \E o \in Owner : SetStatus(o) \/ Crash(o)
    \/ Tick

Spec == Init /\ [][Next]_vars

--------------------------------------------------------------------------------
(* Properties. *)

\* Every variable has its type, and only an admission that is being made or
\* has succeeded has an owner.
TypeOK ==
    /\ clock \in 0..MaxTime
    /\ healthy \subseteq Owner /\ down \subseteq Owner
    /\ record \in {NoRecord} \cup [owner : Owner, closed : BOOLEAN]
    /\ resolve \in [Resolver -> [pc : {"idle", "read", "assign", "sign"},
                                statuses : SUBSET Owner,
                                owner : Owner \cup {NoOwner}, readAt : Nat]]
    /\ tickets \subseteq [owner : Owner, expires : Nat]
    /\ player \in [Player -> {New, Out} \cup
                     [pc : {"verified", "in"}, owner : Owner, deadline : Nat]]
    /\ group \in [Owner -> {"none", "open", "closed", "kept"}]
    /\ keepUntil \in [Owner -> Nat]
    /\ closing \in [Owner -> {"idle", "sessions", "retain"}]
    /\ doomed \in [Owner -> SUBSET Player]
    /\ ended \subseteq Owner

\* All sessions of a group live on one owner, the one in the durable record:
\* concurrent Resolves with different candidates never split the group.
OneOwner == \A p \in Player : player[p].pc = "in" => record.owner = At(p)

\* Once CloseGroup has returned nil the group has no session on that owner and
\* never gets one, although the tombstone is dropped after GroupTTL and tickets
\* signed before the closure are still in the players' hands.
ClosedGroupEmpty == \A o \in ended : Members(o) = {}

\* CloseGroup returns nil only when the store says so, and then for good.
EndedIsDurable == ended # {} => record.closed /\ ended = {record.owner}
================================================================================
