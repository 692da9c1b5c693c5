-------------------------- MODULE FleetLockProofs --------------------------
(***************************************************************************)
(* What holds of a fleet of any size, with any number of slots, exits and  *)
(* lost or late pre-reboot requests: nodes reboot only with a slot, and    *)
(* the fleet implements the semaphore with owned slots.  The hypothesis    *)
(* that no steady-state request is served late is necessary: the run       *)
(* FleetLockLate shows what such a request does.                           *)
(***************************************************************************)
EXTENDS FleetLock, FiniteSetTheorems, TLAPS

(* From the confirmation of the lock to the end of the reboot, the node     *)
(* holds a slot; and until it is down no agent of it is yet to report       *)
(* steady, which would release the slot.                                    *)
SlotInv == \A n \in Nodes :
  /\ call[n] = Answered("pre_reboot", "ok") => n \in holders
  /\ phase[n] = "Finalizing" => n \in holders
  /\ n \in rebooting => n \in holders /\ phase[n] \notin {"Initialized", "Steady"}

LateInv == \A r \in late : r.op \in LateOps

Capacity == Cardinality(holders) <= Slots

IInv == TypeOK /\ SlotInv /\ LateInv /\ Capacity

-----------------------------------------------------------------------------
USE FleetAssumption DEF NoCall, Sent, Answered, Request, Operations, Phases

(* The holders are nodes, of which there are finitely many.                 *)
LEMMA HoldersFinite == ASSUME FleetTypeOK PROVE IsFiniteSet(holders)
  BY FS_Subset DEF FleetTypeOK

(* The lock manager never grants more slots than there are.                 *)
LEMMA LockingKeepsCapacity ==
  ASSUME FleetTypeOK, Capacity, NEW n \in Nodes, MayLock(n)
  PROVE  Cardinality(holders \union {n}) <= Slots
<1>1. IsFiniteSet(holders)
  BY HoldersFinite
<1>2. CASE n \in holders
  <2>1. holders \union {n} = holders
    BY <1>2
  <2> QED
    BY <2>1 DEF Capacity
<1>3. CASE n \notin holders
  <2>1. Cardinality(holders \union {n}) = Cardinality(holders) + 1
    BY <1>1, <1>3, FS_AddElement
  <2>2. Cardinality(holders) \in Nat /\ Cardinality(holders) < Slots
    BY <1>1, <1>3, FS_CardinalityType DEF MayLock
  <2> QED
    BY <2>1, <2>2
<1> QED
  BY <1>2, <1>3

(* Serving /v1/steady-state frees a slot or leaves them as they are.        *)
LEMMA ReleasingKeepsCapacity ==
  ASSUME FleetTypeOK, Capacity, NEW n \in Nodes
  PROVE  Cardinality(holders \ {n}) <= Slots
<1>1. IsFiniteSet(holders)
  BY HoldersFinite
<1>2. /\ Cardinality(holders \ {n}) <= Cardinality(holders)
      /\ IsFiniteSet(holders \ {n})
  BY <1>1, FS_Subset
<1>3. Cardinality(holders \ {n}) \in Nat /\ Cardinality(holders) \in Nat
  BY <1>1, <1>2, FS_CardinalityType
<1> QED
  BY <1>2, <1>3 DEF Capacity

(* The fleet starts within the inductive invariant: every agent is down.    *)
LEMMA InitIInv == Init => IInv
<1> SUFFICES ASSUME Init PROVE IInv
  OBVIOUS
<1> QED
  BY DEF Init, IInv, TypeOK, FleetTypeOK, CallOK, SlotInv, LateInv, Capacity

(* Every step of an agent, a node or the lock manager keeps the types.      *)
LEMMA TypeStep == ASSUME FleetTypeOK, [Next]_vars PROVE FleetTypeOK'
<1> USE DEF FleetTypeOK
<1>1. CASE UNCHANGED vars
  BY <1>1 DEF vars
<1>2. ASSUME NEW n \in Nodes,
             \/ GrantPreReboot(n) \/ GrantSteadyState(n) \/ RefuseCall(n)
             \/ ServeLate(n) \/ ReportSteady(n) \/ SteadyConfirmed(n)
             \/ StageUpdate(n) \/ CanFinalize(n) \/ LockConfirmed(n)
             \/ PostponeReboot(n) \/ CallFailed(n)
      PROVE  FleetTypeOK'
  BY <1>2 DEF GrantPreReboot, GrantSteadyState, RefuseCall, ServeLate,
     ReportSteady, SteadyConfirmed, StageUpdate, CanFinalize, LockConfirmed,
     PostponeReboot, CallFailed
<1>3. ASSUME NEW n \in Nodes,
             \/ CallTimesOut(n) \/ FinalizeDeployment(n) \/ FinalizeFails(n)
             \/ StartAgent(n) \/ AgentExits(n) \/ Reboot(n)
      PROVE  FleetTypeOK'
  BY <1>3 DEF CallTimesOut, FinalizeDeployment, FinalizeFails, StartAgent,
     AgentExits, Reboot, Abandon
<1> QED
  BY <1>1, <1>2, <1>3 DEF Next, TickIdle

(* A call is dropped whenever its agent leaves the state that made it.      *)
LEMMA CallStep == ASSUME FleetTypeOK, CallOK, [Next]_vars PROVE CallOK'
<1> USE DEF FleetTypeOK, CallOK
<1>1. CASE UNCHANGED vars
  BY <1>1 DEF vars
<1>2. ASSUME NEW n \in Nodes,
             \/ GrantPreReboot(n) \/ GrantSteadyState(n) \/ RefuseCall(n)
             \/ ServeLate(n) \/ ReportSteady(n) \/ SteadyConfirmed(n)
             \/ StageUpdate(n) \/ CanFinalize(n) \/ LockConfirmed(n)
             \/ PostponeReboot(n) \/ CallFailed(n)
      PROVE  CallOK'
  BY <1>2 DEF GrantPreReboot, GrantSteadyState, RefuseCall, ServeLate,
     ReportSteady, SteadyConfirmed, StageUpdate, CanFinalize, LockConfirmed,
     PostponeReboot, CallFailed
<1>3. ASSUME NEW n \in Nodes,
             \/ CallTimesOut(n) \/ FinalizeDeployment(n) \/ FinalizeFails(n)
             \/ StartAgent(n) \/ AgentExits(n) \/ Reboot(n)
      PROVE  CallOK'
  BY <1>3 DEF CallTimesOut, FinalizeDeployment, FinalizeFails, StartAgent,
     AgentExits, Reboot, Abandon
<1> QED
  BY <1>1, <1>2, <1>3 DEF Next, TickIdle

(* Only requests that were abandoned are late, and only of LateOps.         *)
LEMMA LateStep == ASSUME LateInv, [Next]_vars PROVE LateInv'
<1>1. CASE UNCHANGED late
  BY <1>1 DEF LateInv
<1>2. ASSUME NEW n \in Nodes, ServeLate(n)
      PROVE  LateInv'
  BY <1>2 DEF ServeLate, LateInv
<1>3. ASSUME NEW n \in Nodes, Abandon(n)
      PROVE  LateInv'
  <2>1. late' = late \union {Request(n, op) : op \in {o \in LateOps : call[n] = Sent(o)}}
    BY <1>3 DEF Abandon
  <2>2. \A o \in LateOps : Request(n, o).op = o
    OBVIOUS
  <2> QED
    BY <2>1, <2>2 DEF LateInv
<1> QED
  BY <1>1, <1>2, <1>3
  DEF Next, vars, GrantPreReboot, GrantSteadyState, RefuseCall, ReportSteady,
      SteadyConfirmed, StageUpdate, CanFinalize, LockConfirmed, PostponeReboot,
      CallFailed, CallTimesOut, FinalizeDeployment, FinalizeFails, TickIdle,
      StartAgent, AgentExits, Reboot

(* The slots are only taken by requests that the lock manager grants.       *)
LEMMA CapacityStep == ASSUME FleetTypeOK, Capacity, [Next]_vars PROVE Capacity'
<1>1. CASE UNCHANGED holders
  BY <1>1 DEF Capacity
<1>2. ASSUME NEW n \in Nodes, GrantPreReboot(n)
      PROVE  Capacity'
  BY <1>2, LockingKeepsCapacity DEF GrantPreReboot, Capacity
<1>3. ASSUME NEW n \in Nodes, GrantSteadyState(n)
      PROVE  Capacity'
  BY <1>3, ReleasingKeepsCapacity DEF GrantSteadyState, Capacity
<1>4. ASSUME NEW n \in Nodes, ServeLate(n)
      PROVE  Capacity'
  BY <1>4, LockingKeepsCapacity, ReleasingKeepsCapacity DEF ServeLate, Capacity
<1> QED
  BY <1>1, <1>2, <1>3, <1>4
  DEF Next, vars, RefuseCall, ReportSteady, SteadyConfirmed, StageUpdate,
      CanFinalize, LockConfirmed, PostponeReboot, CallFailed, CallTimesOut,
      FinalizeDeployment, FinalizeFails, TickIdle, StartAgent, AgentExits, Reboot

(* A slot is only released by a steady-state request, and one that is not   *)
(* late is awaited by an agent that has not staged an update yet.           *)
LEMMA SlotStep ==
  ASSUME LateOps \subseteq {"pre_reboot"}, IInv, [Next]_vars
  PROVE  SlotInv'
<1> USE DEF IInv, TypeOK, FleetTypeOK, CallOK, SlotInv
<1>1. CASE UNCHANGED <<phase, call, rebooting, holders>>
  BY <1>1
<1>2. ASSUME NEW n \in Nodes, GrantPreReboot(n)
      PROVE  SlotInv'
  BY <1>2 DEF GrantPreReboot
<1>3. ASSUME NEW n \in Nodes, GrantSteadyState(n)
      PROVE  SlotInv'
  BY <1>3 DEF GrantSteadyState
<1>4. ASSUME NEW n \in Nodes, RefuseCall(n)
      PROVE  SlotInv'
  BY <1>4 DEF RefuseCall
<1>5. ASSUME NEW n \in Nodes, ServeLate(n)
      PROVE  SlotInv'
  <2>1. PICK op \in Operations :
          /\ Request(n, op) \in late
          /\ holders' = IF op = "steady_state" THEN holders \ {n}
                        ELSE IF MayLock(n) THEN holders \union {n} ELSE holders
    BY <1>5 DEF ServeLate
  <2>2. op = "pre_reboot"
    BY <2>1 DEF LateInv
  <2>3. holders \subseteq holders'
    BY <2>1, <2>2
  <2> QED
    BY <1>5, <2>3 DEF ServeLate
<1>6. ASSUME NEW n \in Nodes, ReportSteady(n)
      PROVE  SlotInv'
  BY <1>6 DEF ReportSteady
<1>7. ASSUME NEW n \in Nodes, SteadyConfirmed(n)
      PROVE  SlotInv'
  BY <1>7 DEF SteadyConfirmed
<1>8. ASSUME NEW n \in Nodes, StageUpdate(n)
      PROVE  SlotInv'
  BY <1>8 DEF StageUpdate
<1>9. ASSUME NEW n \in Nodes, CanFinalize(n)
      PROVE  SlotInv'
  BY <1>9 DEF CanFinalize
<1>10. ASSUME NEW n \in Nodes, LockConfirmed(n)
       PROVE  SlotInv'
  BY <1>10 DEF LockConfirmed
<1>11. ASSUME NEW n \in Nodes, PostponeReboot(n) \/ CallFailed(n)
       PROVE  SlotInv'
  BY <1>11 DEF PostponeReboot, CallFailed
<1>12. ASSUME NEW n \in Nodes, CallTimesOut(n)
       PROVE  SlotInv'
  BY <1>12 DEF CallTimesOut, Abandon
<1>13. ASSUME NEW n \in Nodes, FinalizeDeployment(n)
       PROVE  SlotInv'
  BY <1>13 DEF FinalizeDeployment
<1>14. ASSUME NEW n \in Nodes, FinalizeFails(n)
       PROVE  SlotInv'
  BY <1>14 DEF FinalizeFails
<1>15. ASSUME NEW n \in Nodes, StartAgent(n)
       PROVE  SlotInv'
  BY <1>15 DEF StartAgent
<1>16. ASSUME NEW n \in Nodes, AgentExits(n)
       PROVE  SlotInv'
  BY <1>16 DEF AgentExits, Abandon
<1>17. ASSUME NEW n \in Nodes, Reboot(n)
       PROVE  SlotInv'
  BY <1>17 DEF Reboot, Abandon
<1> QED
  BY <1>1, <1>2, <1>3, <1>4, <1>5, <1>6, <1>7, <1>8, <1>9, <1>10, <1>11,
     <1>12, <1>13, <1>14, <1>15, <1>16, <1>17 DEF Next, vars, TickIdle

(* The invariant is inductive, unless a steady-state request is late.       *)
LEMMA StepIInv ==
  ASSUME LateOps \subseteq {"pre_reboot"}
  PROVE  IInv /\ [Next]_vars => IInv'
  BY TypeStep, CallStep, LateStep, CapacityStep, SlotStep DEF IInv, TypeOK

(* Unless a steady-state request is served late, every behaviour of the     *)
(* fleet stays within the inductive invariant.                              *)
THEOREM Invariance ==
  ASSUME LateOps \subseteq {"pre_reboot"}
  PROVE  Spec => []IInv
  BY InitIInv, StepIInv, PTL DEF Spec

-----------------------------------------------------------------------------
(* The fleet is typed, whichever requests are late.                         *)
THEOREM TypeCorrect == Spec => []TypeOK
<1>1. Init => TypeOK
  BY InitIInv DEF IInv
<1>2. TypeOK /\ [Next]_vars => TypeOK'
  BY TypeStep, CallStep DEF TypeOK
<1> QED
  BY <1>1, <1>2, PTL DEF Spec

(* A node that reboots for an update holds a slot until it is down: the     *)
(* calls of strategy/fleet_lock.rs bracket the reboot of update_agent.      *)
THEOREM SlotHeldOverReboot ==
  ASSUME LateOps \subseteq {"pre_reboot"}
  PROVE  Spec => []RebootHoldsSlot
<1>1. IInv => RebootHoldsSlot
  BY DEF IInv, TypeOK, FleetTypeOK, SlotInv, RebootHoldsSlot
<1> QED
  BY <1>1, Invariance, PTL

(* No more nodes reboot at a time than the group has slots.                 *)
THEOREM MutualExclusion ==
  ASSUME LateOps \subseteq {"pre_reboot"}
  PROVE  Spec => []FleetStaysUp
<1>1. IInv => FleetStaysUp
  <2> SUFFICES ASSUME IInv PROVE FleetStaysUp
    OBVIOUS
  <2>1. IsFiniteSet(holders) /\ rebooting \subseteq holders
    BY HoldersFinite DEF IInv, TypeOK, FleetTypeOK, SlotInv
  <2>2. /\ IsFiniteSet(rebooting)
        /\ Cardinality(rebooting) <= Cardinality(holders)
    BY <2>1, FS_Subset
  <2>3. Cardinality(rebooting) \in Nat /\ Cardinality(holders) \in Nat
    BY <2>1, <2>2, FS_CardinalityType
  <2> QED
    BY <2>2, <2>3 DEF IInv, Capacity, FleetStaysUp
<1> QED
  BY <1>1, Invariance, PTL

-----------------------------------------------------------------------------
(* The instance has a copy of its own of the operators of FiniteSets.        *)
LEMMA SameCardinality == \A S : Abstract!Cardinality(S) = Cardinality(S)
  BY DEF Cardinality, Abstract!Cardinality

(* A fleet that starts is a semaphore that starts.                          *)
LEMMA InitRefines == Init => Abstract!Init
<1> SUFFICES ASSUME Init PROVE Abstract!Init
  OBVIOUS
<1> QED
  BY SameCardinality DEF Init, Abstract!Init

(* Each step of the fleet is a step of the semaphore, or changes nothing    *)
(* that the semaphore sees.                                                 *)
LEMMA StepRefines ==
  ASSUME LateOps \subseteq {"pre_reboot"}, IInv, [Next]_vars
  PROVE  [Abstract!Next]_(Abstract!slotVars)
<1> USE DEF IInv, TypeOK, FleetTypeOK, SlotInv, Abstract!slotVars, Abstract!Next,
            Abstract!Acquire, Abstract!Release, Abstract!BeginReboot,
            Abstract!EndReboot
<1>1. CASE UNCHANGED <<holders, rebooting>>
  BY <1>1
<1>2. ASSUME NEW n \in Nodes, UNCHANGED rebooting,
             holders' = holders \union {n}, MayLock(n)
      PROVE  [Abstract!Next]_(Abstract!slotVars)
  BY <1>1, <1>2, SameCardinality DEF MayLock
<1>3. ASSUME NEW n \in Nodes, GrantSteadyState(n)
      PROVE  [Abstract!Next]_(Abstract!slotVars)
  <2>1. n \notin rebooting
    BY <1>3 DEF GrantSteadyState, CallOK
  <2> QED
    BY <1>3, <2>1 DEF GrantSteadyState
<1>4. ASSUME NEW n \in Nodes, ServeLate(n)
      PROVE  [Abstract!Next]_(Abstract!slotVars)
  <2>1. PICK op \in Operations :
          /\ Request(n, op) \in late
          /\ holders' = IF op = "steady_state" THEN holders \ {n}
                        ELSE IF MayLock(n) THEN holders \union {n} ELSE holders
    BY <1>4 DEF ServeLate
  <2>2. op = "pre_reboot"
    BY <2>1 DEF LateInv
  <2>3. UNCHANGED rebooting
    BY <1>4 DEF ServeLate
  <2> QED
    BY <1>1, <1>2, <2>1, <2>2, <2>3
<1>5. ASSUME NEW n \in Nodes, UNCHANGED holders, phase[n] = "Finalizing",
             rebooting' = rebooting \union {n}
      PROVE  [Abstract!Next]_(Abstract!slotVars)
  BY <1>5
<1>6. ASSUME NEW n \in Nodes, Reboot(n)
      PROVE  [Abstract!Next]_(Abstract!slotVars)
  BY <1>6 DEF Reboot
<1>7. ASSUME NEW n \in Nodes, FinalizeFails(n) \/ AgentExits(n)
      PROVE  [Abstract!Next]_(Abstract!slotVars)
  BY <1>1, <1>5, <1>7 DEF FinalizeFails, AgentExits
<1>8. ASSUME NEW n \in Nodes, FinalizeDeployment(n)
      PROVE  [Abstract!Next]_(Abstract!slotVars)
  BY <1>5, <1>8 DEF FinalizeDeployment
<1>9. ASSUME NEW n \in Nodes, GrantPreReboot(n)
      PROVE  [Abstract!Next]_(Abstract!slotVars)
  BY <1>2, <1>9 DEF GrantPreReboot
<1> QED
  BY <1>1, <1>3, <1>4, <1>6, <1>7, <1>8, <1>9
  DEF Next, vars, RefuseCall, ReportSteady, SteadyConfirmed, StageUpdate,
      CanFinalize, LockConfirmed, PostponeReboot, CallFailed, CallTimesOut,
      TickIdle, StartAgent

(* The fleet implements the semaphore with owned slots (RebootSlots): the   *)
(* protocol of docs/development/fleetlock, as update_agent uses it.         *)
THEOREM Refinement ==
  ASSUME LateOps \subseteq {"pre_reboot"}
  PROVE  Spec => ImplementsRebootSlots
<1>1. IInv /\ [Next]_vars => [Abstract!Next]_(Abstract!slotVars)
  BY StepRefines
<1> QED
  BY <1>1, InitRefines, Invariance, PTL
  DEF Spec, ImplementsRebootSlots, Abstract!Spec
=============================================================================
