-------------------------- MODULE GroupPlacementProofs --------------------------
(***************************************************************************)
(* Theorems about GroupPlacement, for every set of owners, resolvers and   *)
(* players and for all durations; the closure of a group rests on one      *)
(* relation between the durations, TombstoneOutlivesTickets.               *)
(*                                                                         *)
(* Tickets, here Ticket: the admission ticket that Resolve signs, for      *)
(* every lifetime, leeway and difference of the clocks.                    *)
(***************************************************************************)
EXTENDS GroupPlacement, TLAPS

CONSTANTS Key, SignerKey, Second, Lifetime, Leeway, Skew, MaxRestarts     \* of Tickets

VARIABLES now, skew, incarnation, listed, keys, until, reply, ticket, outcome

Ticket == INSTANCE Tickets

\* Everything that refers to an owner refers to the one in the record, and
\* nothing outlives its deadline.
Placed ==
    /\ \A r \in Resolver :
          /\ resolve[r].pc = "assign" => resolve[r].owner \in Owner
          /\ resolve[r].pc = "sign" =>
                /\ resolve[r].owner = record.owner /\ record.owner \in Owner
                /\ resolve[r].readAt <= clock /\ clock <= resolve[r].readAt + MaxLag
    /\ \A t \in tickets :
          t.owner = record.owner /\ clock < t.expires /\ t.expires <= clock + TicketTTL
    /\ \A p \in Player :
          /\ player[p].pc \in {"verified", "in"} => At(p) = record.owner
          /\ player[p].pc = "verified" =>
                clock <= player[p].deadline /\ player[p].deadline <= clock + AuthTimeout

\* What may still lead to an admission on o does so before time t.
Over(o, t) ==
    /\ \A r \in Resolver : resolve[r].pc = "sign" /\ resolve[r].owner = o =>
          resolve[r].readAt + MaxLag + TicketTTL + AuthTimeout <= t
    /\ \A k \in tickets : k.owner = o => k.expires + AuthTimeout <= t
    /\ \A p \in Player : player[p].pc = "verified" /\ At(p) = o =>
          player[p].deadline < t

\* Nothing can lead to an admission on o any more.
Nothing(o) ==
    /\ \A r \in Resolver : ~(resolve[r].pc = "sign" /\ resolve[r].owner = o)
    /\ \A k \in tickets : k.owner # o
    /\ \A p \in Player : ~(player[p].pc = "verified" /\ At(p) = o)

Empty(o) == \A p \in Player : ~(player[p].pc = "in" /\ At(p) = o)

\* The store has closed the group for an owner that says so.
Durable ==
    \A o \in Owner : closing[o] = "retain" \/ o \in ended => record.owner = o /\ record.closed

\* The life of a closed group on each owner.
ClosureOn(o) ==
    /\ o \in down => /\ group[o] = "none" /\ closing[o] = "idle"
                     /\ \A p \in Player : At(p) # o
    /\ group[o] = "kept" => o \in ended /\ Over(o, keepUntil[o])
    /\ o \in ended => /\ Empty(o)
                      /\ group[o] = "kept" \/ Nothing(o) \/ o \in down
    /\ closing[o] # "idle" =>
          /\ \A p \in Player : player[p].pc = "in" /\ At(p) = o => p \in doomed[o]
          /\ group[o] \in {"closed", "kept"} \/ (o \in ended /\ Nothing(o))
    /\ closing[o] = "retain" => doomed[o] = {}

Closure == \A o \in Owner : ClosureOn(o)

\* A tombstone is kept for longer than anything read before the closure can
\* take to become an admission.
TombstoneOutlivesTickets == MaxLag + TicketTTL + AuthTimeout <= GroupTTL

IInv == TypeOK /\ Placed /\ Durable /\ Closure

Call == [pc : {"idle", "read", "assign", "sign"}, statuses : SUBSET Owner,
         owner : Owner \cup {NoOwner}, readAt : Nat]

Admission == {New, Out} \cup [pc : {"verified", "in"}, owner : Owner, deadline : Nat]

\* Every step keeps the closure of a group closed.
LEMMA ClosureStep ==
    ASSUME TombstoneOutlivesTickets, TypeOK, Placed, Durable, Closure, [Next]_vars
    PROVE  Closure'
<1> SUFFICES ASSUME NEW x \in Owner PROVE ClosureOn(x)'
  BY DEF Closure
<1> ClosureOn(x) /\ (closing[x] = "retain" \/ x \in ended => record.owner = x /\ record.closed)
  BY DEF Closure, Durable
<1> USE PlacementAssumption DEF TypeOK, Placed, ClosureOn, Over, Nothing, Empty, storeVars,
      ownerVars, At
<1> DEFINE Natural ==
             /\ clock \in Nat
             /\ \A r \in Resolver : resolve[r].readAt \in Nat
             /\ \A k \in tickets : k.expires \in Nat
             /\ \A p \in Player : player[p].pc = "verified" => player[p].deadline \in Nat
<1>nat. Natural
  BY DEF New, Out
<1>1. ASSUME NEW r \in Resolver, Snapshot(r) PROVE ClosureOn(x)'
  BY <1>1 DEF Snapshot
<1>2. ASSUME NEW r \in Resolver, Read(r) PROVE ClosureOn(x)'
  BY SMTT(30), <1>2 DEF Read, Answered, Idle
<1>3. ASSUME NEW r \in Resolver, Select(r) PROVE ClosureOn(x)'
  BY ZenonT(30), <1>3 DEF Select, Idle
<1>4. ASSUME NEW r \in Resolver, Assign(r) PROVE ClosureOn(x)'
  <2>1. record.owner \in Owner => record' = record
    BY <1>4 DEF Assign, Assigned, NoRecord
  <2>2. \A q \in Resolver \ {r} : resolve'[q] = resolve[q]
    BY <1>4 DEF Assign, Answered
  <2>3. record'.closed => resolve'[r].pc = "idle"
    BY SMTT(30), <1>4 DEF Assign, Idle
  <2> QED
    BY SMTT(30), <1>4, <2>1, <2>2, <2>3 DEF Assign
<1>5. ASSUME NEW r \in Resolver, Sign(r) PROVE ClosureOn(x)'
  BY SMTT(30), <1>5 DEF Sign, Idle
<1>6. ASSUME NEW p \in Player, Admit(p) PROVE ClosureOn(x)'
  BY SMTT(30), <1>6 DEF Admit, MayJoin
<1>7. ASSUME NEW p \in Player, Refuse(p) PROVE ClosureOn(x)'
  BY SMTT(30), <1>7 DEF Refuse, Out
<1>8. ASSUME NEW p \in Player, Leave(p) PROVE ClosureOn(x)'
  BY SMTT(30), <1>8 DEF Leave, Out
<1>9. ASSUME NEW p \in Player, NEW t \in tickets, Verify(p, t) PROVE ClosureOn(x)'
  BY SMTT(30), <1>9 DEF Verify
<1>10. ASSUME NEW o \in Owner, MarkClosed(o) PROVE ClosureOn(x)'
  BY SMTT(30), <1>10 DEF MarkClosed, Members
<1>11. ASSUME NEW o \in Owner, Commit(o) PROVE ClosureOn(x)'
  <2>1. /\ closing'[o] \in {"retain", "idle"}
        /\ \A z \in Owner \ {o} : closing'[z] = closing[z]
    BY SMTT(30), <1>11 DEF Commit
  <2> QED
    BY <1>11, <2>1 DEF Commit
<1>12. ASSUME NEW o \in Owner, Retain(o) PROVE ClosureOn(x)'
  <2>1. CASE x # o
    BY SMTT(30), <1>12, <2>1 DEF Retain
  <2>2. CASE x = o /\ group[o] # "closed"
    BY SMTT(30), <1>12, <2>2 DEF Retain
  <2>3. CASE x = o /\ group[o] = "closed"
    <3>1. /\ group'[o] = "kept" /\ keepUntil'[o] = clock + GroupTTL
          /\ closing'[o] = "idle" /\ o \in ended' /\ o \notin down'
      BY <1>12, <2>3 DEF Retain, KeepFor
    <3>2. Empty(o)'
      BY SMTT(30), <1>12, <2>3 DEF Retain
    <3>3. Over(o, keepUntil[o])'
      BY SMTT(30), <1>12, <1>nat, <3>1 DEF Retain, TombstoneOutlivesTickets
    <3> QED
      BY <2>3, <3>1, <3>2, <3>3
  <2> QED
    BY ZenonT(30), <2>1, <2>2, <2>3
<1>13. ASSUME NEW o \in Owner, Forget(o) PROVE ClosureOn(x)'
  <2>1. CASE x # o
    BY SMTT(30), <1>13, <2>1 DEF Forget
  <2>2. CASE x = o
    <3>1. Over(o, keepUntil[o]) /\ keepUntil[o] <= clock /\ keepUntil[o] \in Nat
      BY SMTT(30), <1>13, <2>2 DEF Forget
    <3>2. Nothing(o)
      BY SMTT(30), <3>1, <1>nat
    <3> QED
      BY SMTT(30), <1>13, <2>2, <3>2 DEF Forget
  <2> QED
    BY ZenonT(30), <2>1, <2>2
<1>14. ASSUME NEW o \in Owner, NEW p \in Player, CloseMember(o, p) PROVE ClosureOn(x)'
  BY SMTT(30), <1>14 DEF CloseMember, Out
<1>15. ASSUME NEW o \in Owner, SetStatus(o) PROVE ClosureOn(x)'
  BY SMTT(30), <1>15 DEF SetStatus
<1>16. ASSUME NEW o \in Owner, Crash(o) PROVE ClosureOn(x)'
  BY SMTT(30), <1>16 DEF Crash, Out
<1>17. CASE Tick
  BY SMTT(30), <1>17 DEF Tick
<1>18. CASE UNCHANGED vars
  BY SMTT(30), <1>18 DEF vars
<1> HIDE DEF TypeOK, Placed, ClosureOn, Over, Nothing, Empty, storeVars, ownerVars, At
<1> QED
  BY Zenon, <1>1, <1>2, <1>3, <1>4, <1>5, <1>6, <1>7, <1>8, <1>9, <1>10, <1>11, <1>12,
     <1>13, <1>14, <1>15, <1>16, <1>17, <1>18 DEF Next

\* An update with a value of the right type keeps a function's type.
LEMMA UpdateTyped ==
    ASSUME NEW S, NEW T, NEW f \in [S -> T], NEW x, NEW v \in T
    PROVE  [f EXCEPT ![x] = v] \in [S -> T]
BY Zenon

\* What a Resolve call becomes, at each of its steps.
LEMMA CallSteps ==
    ASSUME NEW c \in Call
    PROVE  /\ Idle \in Call
           /\ \A S \in SUBSET Owner : [c EXCEPT !.pc = "read", !.statuses = S] \in Call
           /\ \A o \in Owner : [c EXCEPT !.pc = "assign", !.owner = o] \in Call
           /\ \A o \in Owner, n \in Nat :
                 [c EXCEPT !.pc = "sign", !.owner = o, !.readAt = n] \in Call
BY ZenonT(30) DEF Call, Idle

\* An assignment that has an owner has one of Owner, and keeps it when closed.
LEMMA RecordSteps ==
    ASSUME record \in {NoRecord} \cup [owner : Owner, closed : BOOLEAN]
    PROVE  /\ record.owner \in Owner \cup {NoOwner}
           /\ record.owner # NoOwner => record \in [owner : Owner, closed : BOOLEAN]
           /\ record.owner # NoOwner =>
                [record EXCEPT !.closed = TRUE] \in [owner : Owner, closed : BOOLEAN]
           /\ record.owner # NoOwner =>
                [record EXCEPT !.closed = TRUE].owner = record.owner
           /\ record.owner = NoOwner => record = NoRecord
<1>1. CASE record = NoRecord
  BY <1>1 DEF NoRecord
<1>2. CASE record \in [owner : Owner, closed : BOOLEAN]
  <2>1. record.owner \in Owner /\ record.owner # NoOwner
    BY Zenon, <1>2, PlacementAssumption
  <2>2. [record EXCEPT !.closed = TRUE] \in [owner : Owner, closed : BOOLEAN]
    BY Zenon, <1>2
  <2>3. [record EXCEPT !.closed = TRUE].owner = record.owner
    BY Zenon, <1>2
  <2> QED
    BY <1>2, <2>1, <2>2, <2>3
<1> QED
  BY <1>1, <1>2

\* Every action keeps the types; that a Resolve assigns an owner needs Placed.
LEMMA TypeStep ==
    ASSUME TypeOK, Placed, [Next]_vars
    PROVE  TypeOK'
<1> USE PlacementAssumption DEF TypeOK, storeVars, ownerVars
<1> clock \in Nat /\ resolve \in [Resolver -> Call]
  BY DEF Call
<1> Idle \in Call
  BY DEF Call, Idle
<1>1. ASSUME NEW r \in Resolver, Snapshot(r) PROVE TypeOK'
  <2>1. [resolve[r] EXCEPT !.pc = "read", !.statuses = healthy] \in Call
    BY Zenon, CallSteps
  <2>2. resolve' \in [Resolver -> Call]
    BY Zenon, <1>1, <2>1, UpdateTyped DEF Snapshot
  <2> QED
    BY <1>1, <2>2 DEF Snapshot, Call
<1>2. ASSUME NEW r \in Resolver, Read(r) PROVE TypeOK'
  <2>1. record.owner \in Owner
    BY <1>2, RecordSteps DEF Read
  <2>2. [resolve[r] EXCEPT !.pc = "sign", !.owner = record.owner, !.readAt = clock] \in Call
    BY Zenon, <2>1, CallSteps
  <2>3. resolve' \in [Resolver -> Call]
    <3>1. CASE resolve' = [resolve EXCEPT ![r] = Idle]
      BY Zenon, <3>1, UpdateTyped
    <3>2. CASE Answered(r, record.owner)
      BY Zenon, <2>2, <3>2, UpdateTyped DEF Answered
    <3> QED
      BY Zenon, <1>2, <3>1, <3>2 DEF Read
  <2> QED
    BY <1>2, <2>3 DEF Read, Call
<1>3. ASSUME NEW r \in Resolver, Select(r) PROVE TypeOK'
  <2>1. \A o \in Owner : [resolve[r] EXCEPT !.pc = "assign", !.owner = o] \in Call
    BY Zenon, CallSteps
  <2>2. resolve[r].statuses \subseteq Owner
    BY DEF Call
  <2>3. resolve' \in [Resolver -> Call]
    <3>1. ASSUME NEW o \in resolve[r].statuses,
                 resolve' = [resolve EXCEPT ![r] = [@ EXCEPT !.pc = "assign", !.owner = o]]
          PROVE  resolve' \in [Resolver -> Call]
      <4>1. [resolve[r] EXCEPT !.pc = "assign", !.owner = o] \in Call
        BY Zenon, <2>1, <2>2
      <4> QED
        BY Zenon, <3>1, <4>1, UpdateTyped
    <3>2. CASE resolve' = [resolve EXCEPT ![r] = Idle]
      BY Zenon, <3>2, UpdateTyped
    <3> QED
      BY Zenon, <1>3, <3>1, <3>2 DEF Select
  <2> QED
    BY ZenonT(30), <1>3, <2>3 DEF Select, Call
<1>4. ASSUME NEW r \in Resolver, Assign(r) PROVE TypeOK'
  <2>1. record' \in [owner : Owner, closed : BOOLEAN]
    <3>1. CASE record = NoRecord
      BY <1>4, <3>1 DEF Assign, Assigned, Placed
    <3>2. CASE record # NoRecord
      BY <1>4, <3>2 DEF Assign, Assigned
    <3> QED
      BY <3>1, <3>2
  <2>2. record'.owner \in Owner
    BY Zenon, <2>1
  <2>3. [resolve[r] EXCEPT !.pc = "sign", !.owner = record'.owner, !.readAt = clock] \in Call
    BY Zenon, <2>2, CallSteps
  <2>4. resolve' \in [Resolver -> Call]
    <3>1. CASE resolve' = [resolve EXCEPT ![r] = Idle]
      BY Zenon, <3>1, UpdateTyped
    <3>2. CASE Answered(r, record'.owner)
      BY Zenon, <2>3, <3>2, UpdateTyped DEF Answered
    <3> QED
      BY Zenon, <1>4, <3>1, <3>2 DEF Assign
  <2> QED
    BY <1>4, <2>1, <2>4 DEF Assign, Call
<1>5. ASSUME NEW r \in Resolver, Sign(r) PROVE TypeOK'
  BY <1>5 DEF Sign, Idle
<1>6. ASSUME NEW p \in Player, Admit(p) PROVE TypeOK'
  <2>1. player[p] \in [pc : {"verified", "in"}, owner : Owner, deadline : Nat]
    BY <1>6 DEF Admit, New, Out
  <2>2. [player[p] EXCEPT !.pc = "in", !.deadline = 0]
          \in [pc : {"verified", "in"}, owner : Owner, deadline : Nat]
    BY <2>1, Zenon
  <2>3. player' \in [Player -> Admission]
    BY <1>6, <2>2 DEF Admit, Admission
  <2> QED
    BY <1>6, <2>3, Zenon DEF Admit, Admission
<1>7. ASSUME NEW p \in Player, Refuse(p) PROVE TypeOK'
  BY <1>7 DEF Refuse, At, New, Out
<1>8. ASSUME NEW p \in Player, Leave(p) PROVE TypeOK'
  BY <1>8 DEF Leave, Out
<1>9. ASSUME NEW p \in Player, NEW t \in tickets, Verify(p, t) PROVE TypeOK'
  BY <1>9 DEF Verify
<1>10. ASSUME NEW o \in Owner, MarkClosed(o) PROVE TypeOK'
  BY <1>10 DEF MarkClosed, Members
<1>11. ASSUME NEW o \in Owner, Commit(o) PROVE TypeOK'
  <2>1. record' \in {NoRecord} \cup [owner : Owner, closed : BOOLEAN]
    <3>1. CASE MayClose(o) /\ record' = [record EXCEPT !.closed = TRUE]
      <4>1. record.owner # NoOwner
        BY <3>1 DEF MayClose
      <4> QED
        BY Zenon, <3>1, <4>1, RecordSteps
    <3>2. CASE UNCHANGED record
      BY Zenon, <3>2
    <3> QED
      BY Zenon, <1>11, <3>1, <3>2 DEF Commit
  <2>2. closing' \in [Owner -> {"idle", "sessions", "retain"}]
    BY <1>11 DEF Commit
  <2> QED
    BY <1>11, <2>1, <2>2 DEF Commit
<1>12. ASSUME NEW o \in Owner, Retain(o) PROVE TypeOK'
  BY <1>12 DEF Retain, KeepFor
<1>13. ASSUME NEW o \in Owner, Forget(o) PROVE TypeOK'
  BY <1>13 DEF Forget
<1>14. ASSUME NEW o \in Owner, NEW p \in Player, CloseMember(o, p) PROVE TypeOK'
  BY <1>14 DEF CloseMember, Out
<1>15. ASSUME NEW o \in Owner, SetStatus(o) PROVE TypeOK'
  BY <1>15 DEF SetStatus
<1>16. ASSUME NEW o \in Owner, Crash(o) PROVE TypeOK'
  BY <1>16 DEF Crash, Out, At
<1>17. CASE Tick
  BY <1>17 DEF Tick
<1>18. CASE UNCHANGED vars
  BY <1>18 DEF vars
<1> QED
  BY Zenon, <1>1, <1>2, <1>3, <1>4, <1>5, <1>6, <1>7, <1>8, <1>9, <1>10, <1>11, <1>12,
     <1>13, <1>14, <1>15, <1>16, <1>17, <1>18 DEF Next

\* Every action keeps owners and deadlines as Placed says.
LEMMA PlacedStep ==
    ASSUME TypeOK, Placed, [Next]_vars
    PROVE  Placed'
<1> USE PlacementAssumption DEF TypeOK, Placed, storeVars, ownerVars, At
<1>1. ASSUME NEW r \in Resolver, Snapshot(r) PROVE Placed'
  BY <1>1 DEF Snapshot
<1>2. ASSUME NEW r \in Resolver, Read(r) PROVE Placed'
  <2>1. CASE resolve' = [resolve EXCEPT ![r] = Idle]
    BY <1>2, <2>1 DEF Read, Idle
  <2>2. CASE Answered(r, record.owner)
    BY <1>2, <2>2, RecordSteps DEF Read, Answered
  <2> QED
    BY Zenon, <1>2, <2>1, <2>2 DEF Read
<1>3. ASSUME NEW r \in Resolver, Select(r) PROVE Placed'
  <2>1. ASSUME NEW o \in resolve[r].statuses,
               resolve' = [resolve EXCEPT ![r] = [@ EXCEPT !.pc = "assign", !.owner = o]]
        PROVE  Placed'
    <3>1. resolve'[r].pc = "assign" /\ resolve'[r].owner \in Owner
      BY <2>1
    <3>2. \A q \in Resolver \ {r} : resolve'[q] = resolve[q]
      BY <2>1
    <3> QED
      BY ZenonT(30), <1>3, <3>1, <3>2 DEF Select
  <2>2. CASE resolve' = [resolve EXCEPT ![r] = Idle]
    BY <1>3, <2>2, Zenon DEF Select, Idle
  <2> QED
    BY Zenon, <1>3, <2>1, <2>2 DEF Select
<1>4. ASSUME NEW r \in Resolver, Assign(r) PROVE Placed'
  <2>1. record'.owner \in Owner /\ (record.owner \in Owner => record' = record)
    BY <1>4, RecordSteps DEF Assign, Assigned, NoRecord
  <2>2. \A p \in Player : player[p].pc \in {"verified", "in"} => player[p].owner \in Owner
    BY DEF New, Out
  <2>3. \A t \in tickets : t.owner \in Owner
    OBVIOUS
  <2>4. \A q \in Resolver \ {r} : resolve'[q] = resolve[q]
    BY <1>4 DEF Assign, Answered
  <2>5. \/ resolve'[r].pc = "idle"
        \/ resolve'[r].pc = "sign" /\ resolve'[r].owner = record'.owner
                                  /\ resolve'[r].readAt = clock
    <3>1. CASE resolve' = [resolve EXCEPT ![r] = Idle]
      BY <3>1 DEF Idle
    <3>2. CASE Answered(r, record'.owner)
      BY <3>2 DEF Answered
    <3> QED
      BY Zenon, <1>4, <3>1, <3>2 DEF Assign
  <2> QED
    BY <1>4, <2>1, <2>2, <2>3, <2>4, <2>5 DEF Assign
<1>5. ASSUME NEW r \in Resolver, Sign(r) PROVE Placed'
  BY <1>5 DEF Sign, Idle
<1>6. ASSUME NEW p \in Player, Admit(p) PROVE Placed'
  BY <1>6 DEF Admit, New, Out
<1>7. ASSUME NEW p \in Player, Refuse(p) PROVE Placed'
  BY <1>7 DEF Refuse, New, Out
<1>8. ASSUME NEW p \in Player, Leave(p) PROVE Placed'
  BY <1>8 DEF Leave, Out
<1>9. ASSUME NEW p \in Player, NEW t \in tickets, Verify(p, t) PROVE Placed'
  BY <1>9 DEF Verify
<1>10. ASSUME NEW o \in Owner, MarkClosed(o) PROVE Placed'
  BY <1>10 DEF MarkClosed
<1>11. ASSUME NEW o \in Owner, Commit(o) PROVE Placed'
  BY <1>11 DEF Commit, MayClose, NoRecord
<1>12. ASSUME NEW o \in Owner, Retain(o) PROVE Placed'
  BY <1>12 DEF Retain
<1>13. ASSUME NEW o \in Owner, Forget(o) PROVE Placed'
  BY <1>13 DEF Forget
<1>14. ASSUME NEW o \in Owner, NEW p \in Player, CloseMember(o, p) PROVE Placed'
  BY <1>14 DEF CloseMember, Out
<1>15. ASSUME NEW o \in Owner, SetStatus(o) PROVE Placed'
  BY <1>15 DEF SetStatus
<1>16. ASSUME NEW o \in Owner, Crash(o) PROVE Placed'
  BY <1>16 DEF Crash, Out
<1>17. CASE Tick
  <2>1. \A t \in tickets' : t \in tickets /\ clock' < t.expires
    BY <1>17 DEF Tick
  <2>2. \A r \in Resolver : resolve[r].readAt \in Nat
    OBVIOUS
  <2>3. \A p \in Player : player[p].pc = "verified" => player[p].deadline \in Nat
    BY DEF New, Out
  <2>4. \A t \in tickets : t.expires \in Nat
    OBVIOUS
  <2> QED
    BY <1>17, <2>1, <2>2, <2>3, <2>4 DEF Tick
<1>18. CASE UNCHANGED vars
  BY <1>18 DEF vars
<1> QED
  BY Zenon, <1>1, <1>2, <1>3, <1>4, <1>5, <1>6, <1>7, <1>8, <1>9, <1>10, <1>11, <1>12,
     <1>13, <1>14, <1>15, <1>16, <1>17, <1>18 DEF Next

\* A CloseGroup that goes on to its tombstone, or has returned nil, has closed
\* the record, and no step opens it or gives it to another owner.
LEMMA DurableStep ==
    ASSUME TypeOK, Placed, Durable, [Next]_vars
    PROVE  Durable'
<1> USE PlacementAssumption DEF TypeOK, Durable, storeVars, ownerVars
<1>1. ASSUME NEW r \in Resolver, Snapshot(r) PROVE Durable'
  BY <1>1 DEF Snapshot
<1>2. ASSUME NEW r \in Resolver, Read(r) PROVE Durable'
  BY <1>2 DEF Read
<1>3. ASSUME NEW r \in Resolver, Select(r) PROVE Durable'
  BY ZenonT(30), <1>3 DEF Select
<1>4. ASSUME NEW r \in Resolver, Assign(r) PROVE Durable'
  BY <1>4 DEF Assign, Assigned, NoRecord
<1>5. ASSUME NEW r \in Resolver, Sign(r) PROVE Durable'
  BY <1>5 DEF Sign
<1>6. ASSUME NEW p \in Player, Admit(p) PROVE Durable'
  BY <1>6 DEF Admit
<1>7. ASSUME NEW p \in Player, Refuse(p) PROVE Durable'
  BY <1>7 DEF Refuse
<1>8. ASSUME NEW p \in Player, Leave(p) PROVE Durable'
  BY <1>8 DEF Leave
<1>9. ASSUME NEW p \in Player, NEW t \in tickets, Verify(p, t) PROVE Durable'
  BY <1>9 DEF Verify
<1>10. ASSUME NEW o \in Owner, MarkClosed(o) PROVE Durable'
  BY <1>10 DEF MarkClosed
<1>11. ASSUME NEW o \in Owner, Commit(o) PROVE Durable'
  <2>1. record'.owner = record.owner
    BY <1>11, RecordSteps DEF Commit, MayClose
  <2>2. record.closed => record'.closed
    <3>1. CASE MayClose(o) /\ record' = [record EXCEPT !.closed = TRUE]
      BY <3>1, RecordSteps DEF MayClose
    <3>2. CASE UNCHANGED record
      BY <3>2
    <3> QED
      BY Zenon, <1>11, <3>1, <3>2 DEF Commit
  <2>3. closing'[o] = "retain" => record'.owner = o /\ record'.closed
    BY <1>11, <2>1, RecordSteps DEF Commit, MayClose
  <2>4. \A z \in Owner \ {o} : closing'[z] = closing[z]
    BY <1>11 DEF Commit
  <2> QED
    BY <1>11, <2>1, <2>2, <2>3, <2>4 DEF Commit
<1>12. ASSUME NEW o \in Owner, Retain(o) PROVE Durable'
  BY <1>12 DEF Retain
<1>13. ASSUME NEW o \in Owner, Forget(o) PROVE Durable'
  BY <1>13 DEF Forget
<1>14. ASSUME NEW o \in Owner, NEW p \in Player, CloseMember(o, p) PROVE Durable'
  BY <1>14 DEF CloseMember
<1>15. ASSUME NEW o \in Owner, SetStatus(o) PROVE Durable'
  BY <1>15 DEF SetStatus
<1>16. ASSUME NEW o \in Owner, Crash(o) PROVE Durable'
  BY <1>16 DEF Crash
<1>17. CASE Tick
  BY <1>17 DEF Tick
<1>18. CASE UNCHANGED vars
  BY <1>18 DEF vars
<1> HIDE DEF TypeOK, Durable, storeVars, ownerVars
<1> QED
  BY Zenon, <1>1, <1>2, <1>3, <1>4, <1>5, <1>6, <1>7, <1>8, <1>9, <1>10, <1>11, <1>12,
     <1>13, <1>14, <1>15, <1>16, <1>17, <1>18 DEF Next

\* The inductive invariant holds before anything has been resolved.
LEMMA Initially ==
    ASSUME Init
    PROVE  IInv
BY PlacementAssumption DEF Init, IInv, TypeOK, Placed, Durable, Closure, ClosureOn, Over,
   Nothing, Empty, At, Idle, New, Out, NoRecord

\* Every variable of the placement protocol keeps its type.
THEOREM TypeCorrect == Spec => []TypeOK
<1>1. TypeOK /\ Placed /\ [Next]_vars => (TypeOK /\ Placed)'
  BY TypeStep, PlacedStep
<1>2. Init => TypeOK /\ Placed
  BY Initially DEF IInv
<1> QED
  BY <1>1, <1>2, PTL DEF Spec

\* Concurrent Resolves never split a group: every session of the group is on
\* the owner of the durable record (Store.Assign never overwrites it).
THEOREM GroupHasOneOwner == Spec => []OneOwner
<1>1. TypeOK /\ Placed /\ [Next]_vars => (TypeOK /\ Placed)'
  BY TypeStep, PlacedStep
<1>2. Init => TypeOK /\ Placed
  BY Initially DEF IInv
<1>3. Placed => OneOwner
  BY DEF Placed, OneOwner
<1> QED
  BY <1>1, <1>2, <1>3, PTL DEF Spec

\* CloseGroup returns nil on one owner only, and only for a record that is
\* closed and stays closed.
THEOREM ClosureIsDurable == Spec => []EndedIsDurable
<1>1. TypeOK /\ Placed /\ Durable /\ [Next]_vars => (TypeOK /\ Placed /\ Durable)'
  BY TypeStep, PlacedStep, DurableStep
<1>2. Init => TypeOK /\ Placed /\ Durable
  BY Initially DEF IInv
<1>3. TypeOK /\ Durable => EndedIsDurable
  BY DEF TypeOK, Durable, EndedIsDurable
<1> QED
  BY <1>1, <1>2, <1>3, PTL DEF Spec

\* If the tombstone outlives what was read before the closure, a group closed
\* by CloseGroup never has a session on its owner again, although the
\* tombstone goes away and tickets are signed until the record is closed.
THEOREM ClosedGroupsStayEmpty ==
    ASSUME TombstoneOutlivesTickets
    PROVE  Spec => []ClosedGroupEmpty
<1>1. IInv /\ [Next]_vars => IInv'
  BY TypeStep, PlacedStep, DurableStep, ClosureStep DEF IInv
<1>2. Init => IInv
  BY Initially
<1>3. IInv => ClosedGroupEmpty
  BY DEF IInv, TypeOK, Closure, ClosureOn, Empty, ClosedGroupEmpty, Members
<1> QED
  BY <1>1, <1>2, <1>3, PTL DEF Spec

-------------------------------------------------------------------------------
(* The tickets. *)

\* What is known of a ticket on its way and of the one a client holds: the
\* rounded expiry is within the lifetime and within the credential, and at most
\* a second earlier than the first of them to end.
TicketOK ==
    /\ now \in Nat /\ skew \in Int /\ until \in Nat
    /\ \A t \in reply \cup ticket :
         /\ t.kid = SignerKey
         /\ t.exp \in Int /\ t.signed \in Nat /\ t.iat \in Int
         /\ t.exp <= t.signed + Lifetime /\ t.exp <= until
         /\ t.exp > Ticket!Least(t.signed + Lifetime, until) - Second
         /\ t.iat <= t.signed /\ t.signed <= now

\* The inductive invariant.
TicketInv == TicketOK /\ Ticket!AdmittedInTime /\ Ticket!RefusedForCause

\* Rounding a claim to whole seconds makes it earlier, by less than a second.
LEMMA RoundsDown ==
    ASSUME Ticket!TicketsAssumption, NEW t \in Nat
    PROVE  Ticket!NumericDate(t) \in Int /\ Ticket!NumericDate(t) <= t /\ Ticket!NumericDate(t) > t - Second
<1>1. Second \in Nat /\ Second > 0
  BY DEF Ticket!TicketsAssumption
<1>2. (t \div Second) \in Int /\ (t % Second) \in 0..(Second - 1) /\ t = Second * (t \div Second) + (t % Second)
  BY <1>1, SMT
<1> QED
  BY <1>1, <1>2, SMT DEF Ticket!NumericDate

\* The invariant holds at the start, when there is no ticket.
LEMMA TicketInit ==
    ASSUME Ticket!TicketsAssumption, MaxTime \in Nat, Ticket!Init
    PROVE  TicketInv
<1>1. now \in Nat /\ skew \in Int /\ until \in Nat
  BY DEF Ticket!TicketsAssumption, Ticket!Init
<1> QED
  BY <1>1 DEF Ticket!Init, TicketInv, TicketOK, Ticket!AdmittedInTime, Ticket!RefusedForCause

\* A signed ticket is within the lifetime and within the credential: the lesser
\* of the two is rounded down.
LEMMA SignedInTime ==
    ASSUME Ticket!TicketsAssumption, TicketOK
    PROVE  /\ Ticket!NumericDate(Ticket!ExpiresAt) \in Int
           /\ Ticket!NumericDate(Ticket!ExpiresAt) <= now + Lifetime
           /\ Ticket!NumericDate(Ticket!ExpiresAt) <= until
           /\ Ticket!NumericDate(Ticket!ExpiresAt) > Ticket!Least(now + Lifetime, until) - Second
<1>1. Ticket!ExpiresAt \in Nat /\ Ticket!ExpiresAt <= now + Lifetime /\ Ticket!ExpiresAt <= until
  BY DEF Ticket!TicketsAssumption, TicketOK, Ticket!ExpiresAt, Ticket!Least
<1>2. /\ Ticket!NumericDate(Ticket!ExpiresAt) \in Int /\ Ticket!NumericDate(Ticket!ExpiresAt) <= Ticket!ExpiresAt
      /\ Ticket!NumericDate(Ticket!ExpiresAt) > Ticket!ExpiresAt - Second
  BY <1>1, RoundsDown
<1> QED
  BY <1>1, <1>2 DEF Ticket!TicketsAssumption, TicketOK, Ticket!ExpiresAt

\* Every step keeps the invariant.
LEMMA TicketStep ==
    ASSUME Ticket!TicketsAssumption, TicketInv, [Ticket!Next]_(Ticket!vars)
    PROVE  TicketInv'
<1> USE DEF TicketInv
<1>1. ASSUME NEW g \in Ticket!Group, Ticket!Resolve(g)
      PROVE  TicketInv'
  <2>1. \A t \in reply' : /\ t.exp = Ticket!NumericDate(Ticket!ExpiresAt) /\ t.signed = now
                            /\ t.kid = SignerKey /\ t.iat = Ticket!NumericDate(now)
    BY <1>1 DEF Ticket!Resolve
  <2>2. UNCHANGED <<now, skew, until, ticket>> /\ outcome' = {}
    BY <1>1 DEF Ticket!Resolve
  <2>3. Ticket!NumericDate(now) \in Int /\ Ticket!NumericDate(now) <= now
    BY RoundsDown DEF TicketOK
  <2>4. TicketOK'
    BY <2>1, <2>2, <2>3, SignedInTime DEF TicketOK, Ticket!Least
  <2> QED
    BY <2>2, <2>4 DEF Ticket!AdmittedInTime, Ticket!RefusedForCause
<1>2. ASSUME NEW g \in Ticket!Group, Ticket!Present(g)
      PROVE  TicketInv'
  <2>1. UNCHANGED <<now, skew, until, reply, ticket>>
    BY <1>2 DEF Ticket!Present
  <2>2. PICK t \in ticket :
          outcome' = {[ticket |-> t, group |-> g, admitted |-> Ticket!AuthorizeAdmission(t, g),
                       at |-> now, incarnation |-> incarnation, known |-> SignerKey \in keys]}
    BY <1>2 DEF Ticket!Present
  <2>3. ASSUME Ticket!AuthorizeAdmission(t, g)
        PROVE  /\ incarnation = t.incarnation /\ g = t.group
               /\ now + skew < t.signed + Lifetime /\ now + skew < until
    BY <2>3 DEF Ticket!AuthorizeAdmission, Ticket!Verify, Ticket!ValidateRegistered, Ticket!Clock, TicketOK, Ticket!TicketsAssumption
  <2>4. Ticket!AdmittedInTime'
    <3>1. SUFFICES ASSUME NEW o \in outcome', o.admitted
                   PROVE  /\ o.incarnation = o.ticket.incarnation /\ o.group = o.ticket.group
                          /\ o.at + skew < o.ticket.signed + Lifetime
                          /\ o.at + skew < until
      BY <2>1 DEF Ticket!AdmittedInTime
    <3>2. /\ o.ticket = t /\ o.group = g /\ o.at = now /\ o.incarnation = incarnation
          /\ o.admitted = Ticket!AuthorizeAdmission(t, g)
      BY <2>2
    <3> QED
      BY <2>3, <3>1, <3>2
  <2>5. ASSUME ~Ticket!AuthorizeAdmission(t, g), SignerKey \in keys, skew >= -Leeway
        PROVE  \/ incarnation # t.incarnation \/ g # t.group
               \/ now + skew > Ticket!Least(t.signed + Lifetime, until) - Second
               \/ until < t.signed + Second
    <3>1. t.iat <= now + skew + Leeway
      BY <2>5 DEF TicketOK, Ticket!TicketsAssumption
    <3>2. CASE t.exp <= now + skew
      BY <3>2 DEF TicketOK, Ticket!TicketsAssumption, Ticket!Least
    <3>3. CASE t.exp <= t.iat
      BY <3>3 DEF TicketOK, Ticket!TicketsAssumption, Ticket!Least
    <3>4. t.exp \in Int /\ now + skew \in Int /\ t.iat \in Int /\ t.kid = SignerKey
      BY DEF TicketOK
    <3> QED
      BY <2>5, <3>1, <3>2, <3>3, <3>4 DEF Ticket!AuthorizeAdmission, Ticket!Verify, Ticket!ValidateRegistered, Ticket!Clock
  <2>6. Ticket!RefusedForCause'
    <3>1. SUFFICES ASSUME NEW o \in outcome', ~o.admitted, o.known, skew >= -Leeway
                   PROVE  \/ o.incarnation # o.ticket.incarnation \/ o.group # o.ticket.group
                          \/ o.at + skew > Ticket!Least(o.ticket.signed + Lifetime, until) - Second
                          \/ until < o.ticket.signed + Second
      BY <2>1 DEF Ticket!RefusedForCause, Ticket!Least
    <3>2. /\ o.ticket = t /\ o.group = g /\ o.at = now /\ o.incarnation = incarnation
          /\ o.admitted = Ticket!AuthorizeAdmission(t, g) /\ o.known = (SignerKey \in keys)
      BY <2>2
    <3> QED
      BY <2>5, <3>1, <3>2, Zenon
  <2>7. TicketOK'
    BY <2>1 DEF TicketOK, Ticket!Least
  <2> QED
    BY <2>4, <2>6, <2>7
<1>3. ASSUME Ticket!Receive \/ Ticket!Restart \/ Ticket!Publish \/ (\E ks \in SUBSET Key : Ticket!ReplaceKeys(ks))
      PROVE  TicketInv'
  <2>1. /\ UNCHANGED <<now, skew, until>> /\ outcome' = {}
        /\ reply' \cup ticket' \subseteq reply \cup ticket
    BY <1>3, SMTT(20) DEF Ticket!Receive, Ticket!Restart, Ticket!Publish, Ticket!ReplaceKeys
  <2> QED
    BY <2>1 DEF TicketOK, Ticket!AdmittedInTime, Ticket!RefusedForCause, Ticket!Least
<1>4. ASSUME Ticket!Tick
      PROVE  TicketInv'
  <2>1. now' = now + 1 /\ UNCHANGED <<skew, until, reply, ticket>> /\ outcome' = {}
    BY <1>4 DEF Ticket!Tick
  <2> QED
    BY <2>1 DEF TicketOK, Ticket!AdmittedInTime, Ticket!RefusedForCause, Ticket!Least
<1>5. ASSUME UNCHANGED Ticket!vars
      PROVE  TicketInv'
  BY <1>5 DEF Ticket!vars, TicketOK, Ticket!AdmittedInTime, Ticket!RefusedForCause, Ticket!Least
<1> QED
  BY <1>1, <1>2, <1>3, <1>4, <1>5 DEF Ticket!Next

\* A ticket admits only to the incarnation and the group it was signed for, and
\* never beyond its lifetime or the credential it was given for, by the owner's
\* clock: whatever the skew of that clock, the keys and the restarts.
THEOREM AdmissionBound ==
    ASSUME Ticket!TicketsAssumption, MaxTime \in Nat
    PROVE  Ticket!Spec => []Ticket!AdmittedInTime
<1>1. Ticket!Init => TicketInv
  BY TicketInit
<1>2. TicketInv /\ [Ticket!Next]_(Ticket!vars) => TicketInv'
  BY TicketStep
<1>3. TicketInv => Ticket!AdmittedInTime
  BY DEF TicketInv
<1> QED
  BY <1>1, <1>2, <1>3, PTL DEF Ticket!Spec

\* A ticket is refused only for a cause: a restart, other keys or another group,
\* or less than a second left of the ticket or of the credential, as long as
\* the owner's clock is not behind by more than the leeway.
THEOREM RefusalHasCause ==
    ASSUME Ticket!TicketsAssumption, MaxTime \in Nat
    PROVE  Ticket!Spec => []Ticket!RefusedForCause
<1>1. Ticket!Init => TicketInv
  BY TicketInit
<1>2. TicketInv /\ [Ticket!Next]_(Ticket!vars) => TicketInv'
  BY TicketStep
<1>3. TicketInv => Ticket!RefusedForCause
  BY DEF TicketInv
<1> QED
  BY <1>1, <1>2, <1>3, PTL DEF Ticket!Spec

================================================================================
