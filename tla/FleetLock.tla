------------------------------ MODULE FleetLock ------------------------------
(***************************************************************************)
(* A fleet of nodes whose agents use the lock-based strategy, and the lock *)
(* manager they share.  An agent calls the lock manager twice in the life  *)
(* of an update: /v1/steady-state in Initialized (release the slot held    *)
(* over the reboot) and /v1/pre-reboot in each tick of UpdateStaged.  Each *)
(* call is an HTTP request that is awaited with a timeout; an error of any *)
(* kind is taken for a refusal and the call is made again at a later tick. *)
(*                                                                         *)
(* Of the agent (UpdateAgent) this module keeps what the lock depends on.  *)
(***************************************************************************)
EXTENDS Integers, FiniteSets

CONSTANTS
  Nodes,         \* the nodes, all of one reboot group
  Slots,         \* the slots of the group
  MayDisable,    \* nodes that may be restarted with auto-updates disabled
  LateOps,       \* operations whose requests may still reach the server
                 \* after their client has given up
  MaxExits       \* bound: exits of agents in one behaviour

ASSUME FleetAssumption ==
  /\ IsFiniteSet(Nodes)
  /\ Slots \in Nat
  /\ MayDisable \subseteq Nodes
  /\ LateOps \subseteq {"pre_reboot", "steady_state"}
  /\ MaxExits \in Nat

VARIABLES
  phase,      \* per node: the state of its agent
  call,       \* per node: the call its agent waits for, and the answer to it
  rebooting,  \* the nodes whose finalization has asked for the reboot
  holders,    \* the lock manager: the nodes that hold a slot
  late,       \* requests still on their way whose client gave up
  exits       \* bound

vars == <<phase, call, rebooting, holders, late, exits>>

(* "Steady" is ReportedSteady, NoNewUpdate or UpdateAvailable, "Finalizing" *)
(* the last await of UpdateStaged, "Ended" UpdateFinalized or EndState.     *)
Phases == {"Down", "Initialized", "Steady", "Staged", "Finalizing", "Ended"}
Operations == {"pre_reboot", "steady_state"}

NoCall == [op |-> "none", answer |-> "none"]
Sent(op) == [op |-> op, answer |-> "none"]
Answered(op, answer) == [op |-> op, answer |-> answer]

Request(n, op) == [node |-> n, op |-> op]

(* The client stops waiting: the timeout of the HTTP client, a lost         *)
(* connection, or the end of the process.                                   *)
Abandon(n) ==
  /\ call' = [call EXCEPT ![n] = NoCall]
  /\ late' = late \union
       {Request(n, op) : op \in {o \in LateOps : call[n] = Sent(o)}}

Init ==
  /\ phase = [n \in Nodes |-> "Down"]
  /\ call = [n \in Nodes |-> NoCall]
  /\ rebooting = {}
  /\ holders \in {h \in SUBSET Nodes : Cardinality(h) <= Slots}
  /\ late = {}
  /\ exits = 0

-----------------------------------------------------------------------------
(* The lock manager (external): recursive locks, owned by the client.       *)

MayLock(n) == n \in holders \/ Cardinality(holders) < Slots

GrantPreReboot(n) ==
  /\ call[n] = Sent("pre_reboot")
  /\ MayLock(n)
  /\ holders' = holders \union {n}
  /\ call' = [call EXCEPT ![n] = Answered("pre_reboot", "ok")]
  /\ UNCHANGED <<phase, rebooting, late, exits>>

GrantSteadyState(n) ==
  /\ call[n] = Sent("steady_state")
  /\ holders' = holders \ {n}
  /\ call' = [call EXCEPT ![n] = Answered("steady_state", "ok")]
  /\ UNCHANGED <<phase, rebooting, late, exits>>

(* No slot is free, or the server fails: any status but a 2xx.              *)
RefuseCall(n) ==
  /\ \E op \in Operations :
       /\ call[n] = Sent(op)
       /\ call' = [call EXCEPT ![n] = Answered(op, "error")]
  /\ UNCHANGED <<phase, rebooting, holders, late, exits>>

(* Several identical late requests are one element of `late'.               *)
ServeLate(n) ==
  /\ \E op \in Operations :
       /\ Request(n, op) \in late
       /\ late' \in {late, late \ {Request(n, op)}}
       /\ holders' = IF op = "steady_state" THEN holders \ {n}
                     ELSE IF MayLock(n) THEN holders \union {n} ELSE holders
  /\ UNCHANGED <<phase, call, rebooting, exits>>

-----------------------------------------------------------------------------
(* The agents.                                                              *)

(* Mutant: the steady state is reported over and over, like a heartbeat.    *)
ReportSteadyAnytime(n) ==
  /\ phase[n] # "Down"
  /\ call[n] = NoCall
  /\ call' = [call EXCEPT ![n] = Sent("steady_state")]
  /\ UNCHANGED <<phase, rebooting, holders, late, exits>>

ReportSteady(n) ==
  /\ phase[n] = "Initialized"
  /\ call[n] = NoCall
  /\ call' = [call EXCEPT ![n] = Sent("steady_state")]
  /\ UNCHANGED <<phase, rebooting, holders, late, exits>>

SteadyConfirmed(n) ==
  /\ call[n] = Answered("steady_state", "ok")
  /\ phase' = [phase EXCEPT ![n] = "Steady"]
  /\ call' = [call EXCEPT ![n] = NoCall]
  /\ UNCHANGED <<rebooting, holders, late, exits>>

StageUpdate(n) ==
  /\ phase[n] = "Steady"
  /\ phase' = [phase EXCEPT ![n] = "Staged"]
  /\ UNCHANGED <<call, rebooting, holders, late, exits>>

CanFinalize(n) ==
  /\ phase[n] = "Staged"
  /\ call[n] = NoCall
  /\ call' = [call EXCEPT ![n] = Sent("pre_reboot")]
  /\ UNCHANGED <<phase, rebooting, holders, late, exits>>

(* The slot is held: finalize, or give logged-in users time and keep it.    *)
LockConfirmed(n) ==
  /\ call[n] = Answered("pre_reboot", "ok")
  /\ phase' = [phase EXCEPT ![n] = "Finalizing"]
  /\ call' = [call EXCEPT ![n] = NoCall]
  /\ UNCHANGED <<rebooting, holders, late, exits>>

PostponeReboot(n) ==
  /\ call[n] = Answered("pre_reboot", "ok")
  /\ call' = [call EXCEPT ![n] = NoCall]
  /\ UNCHANGED <<phase, rebooting, holders, late, exits>>

(* Mutants: an error is taken for a confirmation; or the agent gives up.    *)
CallFailsOpen(n) ==
  /\ \/ /\ call[n] = Answered("steady_state", "error")
        /\ phase' = [phase EXCEPT ![n] = "Steady"]
     \/ /\ call[n] = Answered("pre_reboot", "error")
        /\ phase' = [phase EXCEPT ![n] = "Finalizing"]
  /\ call' = [call EXCEPT ![n] = NoCall]
  /\ UNCHANGED <<rebooting, holders, late, exits>>

CallGivesUp(n) ==
  /\ \E op \in Operations : call[n] = Answered(op, "error")
  /\ phase' = [phase EXCEPT ![n] = "Ended"]
  /\ call' = [call EXCEPT ![n] = NoCall]
  /\ UNCHANGED <<rebooting, holders, late, exits>>

(* An error leaves the agent where it is, to call again at a later tick.    *)
CallFailed(n) ==
  /\ \E op \in Operations : call[n] = Answered(op, "error")
  /\ call' = [call EXCEPT ![n] = NoCall]
  /\ UNCHANGED <<phase, rebooting, holders, late, exits>>

CallTimesOut(n) ==
  /\ call[n] # NoCall
  /\ Abandon(n)
  /\ UNCHANGED <<phase, rebooting, holders, exits>>

FinalizeDeployment(n) ==
  /\ phase[n] = "Finalizing"
  /\ rebooting' = rebooting \union {n}
  /\ phase' = [phase EXCEPT ![n] = "Ended"]
  /\ UNCHANGED <<call, holders, late, exits>>

FinalizeFails(n) ==
  /\ phase[n] = "Finalizing"
  /\ rebooting' \in {rebooting, rebooting \union {n}}
  /\ phase' = [phase EXCEPT ![n] = "Staged"]
  /\ UNCHANGED <<call, holders, late, exits>>

(* EndState: the ticks do nothing.                                          *)
TickIdle(n) ==
  /\ phase[n] = "Ended"
  /\ UNCHANGED vars

-----------------------------------------------------------------------------
(* The nodes.                                                               *)

(* Mutant: the agent is restarted while the host is going down.             *)
StartAgentInShutdown(n) ==
  /\ phase[n] = "Down"
  /\ phase' = [phase EXCEPT ![n] = "Initialized"]
  /\ UNCHANGED <<call, rebooting, holders, late, exits>>

(* systemd starts no unit while it shuts down; a disabled agent ends.       *)
StartAgent(n) ==
  /\ phase[n] = "Down"
  /\ n \notin rebooting
  /\ \/ phase' = [phase EXCEPT ![n] = "Initialized"]
     \/ n \in MayDisable /\ phase' = [phase EXCEPT ![n] = "Ended"]
  /\ UNCHANGED <<call, rebooting, holders, late, exits>>

(* The agent exits (or its host goes down for another reason); a            *)
(* finalization it was waiting for may have taken effect.                   *)
AgentExits(n) ==
  /\ phase[n] # "Down"
  /\ exits < MaxExits
  /\ exits' = exits + 1
  /\ phase' = [phase EXCEPT ![n] = "Down"]
  /\ Abandon(n)
  /\ rebooting' \in {rebooting} \union
       (IF phase[n] = "Finalizing" THEN {rebooting \union {n}} ELSE {})
  /\ UNCHANGED holders

Reboot(n) ==
  /\ n \in rebooting
  /\ rebooting' = rebooting \ {n}
  /\ phase' = [phase EXCEPT ![n] = "Down"]
  /\ Abandon(n)
  /\ UNCHANGED <<holders, exits>>

Next == \E n \in Nodes :
  \/ GrantPreReboot(n) \/ GrantSteadyState(n) \/ RefuseCall(n) \/ ServeLate(n)
  \/ ReportSteady(n) \/ SteadyConfirmed(n) \/ StageUpdate(n) \/ CanFinalize(n)
  \/ LockConfirmed(n) \/ PostponeReboot(n) \/ CallFailed(n) \/ CallTimesOut(n)
  \/ FinalizeDeployment(n) \/ FinalizeFails(n) \/ TickIdle(n)
  \/ StartAgent(n) \/ AgentExits(n) \/ Reboot(n)

Spec == Init /\ [][Next]_vars

(* The agents tick and nodes reboot and restart.  The lock manager answers  *)
(* a node that keeps asking, and grants it a slot if there is one to grant  *)
(* again and again; users do log out or run out of grace; rpm-ostree does   *)
(* not fail forever.                                                        *)
Fairness == \A n \in Nodes :
  /\ WF_vars(StartAgent(n)) /\ WF_vars(Reboot(n))
  /\ WF_vars(ReportSteady(n)) /\ WF_vars(CanFinalize(n)) /\ WF_vars(CallFailed(n))
  /\ SF_vars(GrantSteadyState(n)) /\ SF_vars(GrantPreReboot(n))
  /\ SF_vars(SteadyConfirmed(n)) /\ SF_vars(LockConfirmed(n))
  /\ SF_vars(FinalizeDeployment(n))

FairSpec == Spec /\ Fairness

-----------------------------------------------------------------------------
(* Properties.                                                              *)

(* Every variable has its type, and a call is awaited in the one state of   *)
(* the agent that makes it: no answer outlives the state it was asked for.  *)
FleetTypeOK ==
  /\ phase \in [Nodes -> Phases]
  /\ call \in [Nodes -> [op : Operations \union {"none"},
                         answer : {"none", "ok", "error"}]]
  /\ rebooting \subseteq Nodes
  /\ holders \subseteq Nodes
  /\ late \subseteq [node : Nodes, op : Operations]
  /\ exits \in 0..MaxExits

CallOK == \A n \in Nodes :
  /\ call[n].op = "steady_state" => phase[n] = "Initialized"
  /\ call[n].op = "pre_reboot" => phase[n] = "Staged"

TypeOK == FleetTypeOK /\ CallOK

(* A node that reboots for an update holds a slot until it is down, whatever *)
(* answers were lost, whichever agents exited on the way, and however late  *)
(* an abandoned /v1/pre-reboot is served.  (A late /v1/steady-state would   *)
(* take the slot away.)                                                     *)
RebootHoldsSlot == rebooting \subseteq holders

(* No more nodes reboot for updates at a time than there are slots.         *)
FleetStaysUp == Cardinality(rebooting) <= Slots

(* The fleet implements the semaphore with owned slots.                     *)
Abstract == INSTANCE RebootSlots WITH owners <- holders, down <- rebooting
ImplementsRebootSlots == Abstract!Spec

(* No slot stays taken: a node that holds one gives it back, at the latest  *)
(* when its agent starts the next time.  (A late /v1/pre-reboot would take  *)
(* one that no agent knows of until the node updates again.)                *)
SlotIsReleased == \A n \in Nodes : (n \in holders) ~> (n \notin holders)

(* Some staged node of the fleet gets to reboot (or its agent exits), and   *)
(* every one does once no more updates are staged: the lock manager does    *)
(* not queue, so that a node may lose its races against nodes that keep     *)
(* updating, but no lost answer and no exit blocks a slot.                  *)
StagedNodeReboots == \A n \in Nodes :
  (phase[n] = "Staged") ~> (n \in rebooting \/ phase[n] = "Down")
FleetUpdates ==
  /\ (\E n \in Nodes : phase[n] = "Staged") ~>
       (\E n \in Nodes : n \in rebooting \/ phase[n] = "Down")
  /\ (<>[][~ \E n \in Nodes : StageUpdate(n)]_vars) => StagedNodeReboots
=============================================================================
