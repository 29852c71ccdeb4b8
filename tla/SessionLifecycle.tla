--------------------------- MODULE SessionLifecycle ---------------------------
(***************************************************************************)
(* What a logical session promises whoever watches its State and Epoch:    *)
(* it opens once, is attached to one connection per epoch, may be          *)
(* suspended and attached again under the next epoch, and once closed      *)
(* never changes.  A connection that has owned an epoch never owns         *)
(* another one.                                                            *)
(***************************************************************************)
EXTENDS Naturals

CONSTANTS Conn, NoConn

VARIABLES
    state,   \* None, Active, Suspended or Closed
    epoch,   \* the session's epoch, 0 before it opens
    owner,   \* the connection attached under that epoch
    held     \* the epoch each connection was attached under, 0 for none

vars == <<state, epoch, owner, held>>

Init ==
    /\ state = "None"
    /\ epoch = 0
    /\ owner = NoConn
    /\ held = [c \in Conn |-> 0]

Attach(c) ==
    /\ state # "Closed"
    /\ held[c] = 0
    /\ state' = "Active"
    /\ epoch' = epoch + 1
    /\ owner' = c
    /\ held' = [held EXCEPT ![c] = epoch + 1]

Suspend ==
    /\ state = "Active"
    /\ state' = "Suspended"
    /\ UNCHANGED <<epoch, owner, held>>

Close ==
    /\ state \in {"Active", "Suspended"}
    /\ state' = "Closed"
    /\ UNCHANGED <<epoch, owner, held>>

Next == (\E c \in Conn : Attach(c)) \/ Suspend \/ Close

Spec == Init /\ [][Next]_vars
===============================================================================
