----------------------------- MODULE RebootSlots -----------------------------
(***************************************************************************)
(* What the lock-based strategy promises a fleet: a counting semaphore     *)
(* with owned slots, and no node reboots for an update without owning one, *)
(* from before the reboot is asked for until after the node is down.       *)
(***************************************************************************)
EXTENDS Integers, FiniteSets

CONSTANTS Nodes, Slots

VARIABLES owners,  \* the nodes that own a slot
          down     \* the nodes that reboot for an update

slotVars == <<owners, down>>

Init ==
  /\ owners \in {s \in SUBSET Nodes : Cardinality(s) <= Slots}
  /\ down = {}

Acquire(n) ==
  /\ Cardinality(owners) < Slots
  /\ owners' = owners \union {n}
  /\ UNCHANGED down

(* A node gives its slot back only when it is not rebooting.                *)
Release(n) ==
  /\ n \in owners \ down
  /\ owners' = owners \ {n}
  /\ UNCHANGED down

BeginReboot(n) ==
  /\ n \in owners
  /\ down' = down \union {n}
  /\ UNCHANGED owners

EndReboot(n) ==
  /\ n \in down
  /\ down' = down \ {n}
  /\ UNCHANGED owners

Next == \E n \in Nodes :
  Acquire(n) \/ Release(n) \/ BeginReboot(n) \/ EndReboot(n)

Spec == Init /\ [][Next]_slotVars
=============================================================================
