-------------------------- MODULE UpdateAgentProofs --------------------------
(***************************************************************************)
(* What holds of the update agent for all releases, configurations and     *)
(* limits: the invariants and the action property of UpdateAgent, from an  *)
(* inductive invariant, and that it implements Updater.                    *)
(***************************************************************************)
EXTENDS UpdateAgent, TLAPS

(* The await a tick has reached tells the state it was dispatched on.       *)
AwaitInv ==
  /\ pc \in {"query_local", "down"} => machine.state = "StartState"
  /\ pc \in {"query_pending", "cleanup"} => machine.state = "UpdateAvailable"
  /\ pc = "finalize" => machine.state = "UpdateStaged"

(* The release the agent pursues is one it may reboot into.                 *)
PursuitInv ==
  /\ Pursuing => /\ machine.release \notin denylist
                 /\ machine.release > booted \/ conf.allow_downgrade
  /\ machine.state \in {"UpdateStaged", "UpdateFinalized"} =>
       machine.release \in StreamReleases
  /\ known => deployments \subseteq denylist

(* What the host may boot is trusted.                                       *)
TrustInv ==
  /\ booted \in StreamReleases \union trusted
  /\ deployments \subseteq StreamReleases \union trusted
  /\ staged # NoDeployment /\ ~staged.locked =>
       staged.release \in StreamReleases \union trusted

(* Postponements granted and postponements left make up the grace period.   *)
GraceInv ==
  /\ waited <= MaxPostponements
  /\ machine.state = "UpdateStaged" => waited + machine.count = MaxPostponements
  /\ forced => pc = "finalize" /\ machine.count = 0

(* Once the agent has deployed its target, no deploy of an earlier agent    *)
(* can be under way.                                                        *)
SettledInv ==
  (\/ machine.state = "UpdateStaged"
   \/ pc \in {"query_pending", "cleanup"}) => transaction = NoRelease

IInv == /\ TypeOK /\ NoPanic /\ AwaitInv /\ PursuitInv /\ TrustInv /\ GraceInv
        /\ SettledInv

-----------------------------------------------------------------------------
USE ReleasesAssumption, LimitsAssumption, ConfigsAssumption, BoundsAssumption
  DEF NoRelease, NoDeployment, agentVars, hostVars, historyVars, boundVars

(* What record_failed_deploy and record_postponement leave, as records.     *)
LEMMA RecordFailedDeployValue ==
  ASSUME MachineTypeOK, machine.state = "UpdateAvailable"
  PROVE  RecordFailedDeploy(machine) =
           IF machine.count + 1 >= MaxDeployAttempts
           THEN Plain("NoNewUpdate")
           ELSE [state |-> "UpdateAvailable", release |-> machine.release,
                 count |-> machine.count + 1]
  BY DEF MachineTypeOK, RecordFailedDeploy, Asserting, ToUpdateAbandoned, Plain

(* record_postponement takes one postponement away, and stops at none.      *)
LEMMA RecordPostponementValue ==
  ASSUME MachineTypeOK, machine.state = "UpdateStaged"
  PROVE  RecordPostponement(machine) =
           [state |-> "UpdateStaged", release |-> machine.release,
            count |-> IF machine.count = 0 THEN 0 ELSE machine.count - 1]
  BY DEF MachineTypeOK, RecordPostponement, Asserting

(* The machine keeps its type and no transition panics: the await a tick   *)
(* resumes from determines the state the transition is made from.           *)
LEMMA MachineStep == ASSUME IInv, [Next]_vars PROVE MachineTypeOK' /\ NoPanic'
<1> USE DEF States, Plain, Panicked, Asserting, Ticking, IInv, TypeOK, AwaitInv, MachineTypeOK, Pursuing, NoPanic, HostTypeOK
<1>1. CASE UNCHANGED <<machine>>
  BY <1>1
<1>2. ASSUME NEW ok \in BOOLEAN, Initialize(ok)
     PROVE  MachineTypeOK' /\ NoPanic'
  BY <1>2 DEF Initialize, ToInitialized, ToEndState
<1>3. ASSUME TickReportSteady
     PROVE  MachineTypeOK' /\ NoPanic'
  BY <1>3 DEF TickReportSteady, ToReportedSteady
<1>4. ASSUME NEW offered \in SUBSET Releases, TickCheckUpdates(offered)
     PROVE  MachineTypeOK' /\ NoPanic'
  BY <1>4 DEF TickCheckUpdates, ToUpdateAvailable, ToNoNewUpdate, FindUpdate
<1>5. ASSUME DeployFails
     PROVE  MachineTypeOK' /\ NoPanic'
  BY <1>5, RecordFailedDeployValue DEF DeployFails
<1>6. ASSUME ConfirmValidStream
     PROVE  MachineTypeOK' /\ NoPanic'
  BY <1>6 DEF ConfirmValidStream, ToUpdateStaged
<1>7. ASSUME StreamUnsure
     PROVE  MachineTypeOK' /\ NoPanic'
  BY <1>7, RecordFailedDeployValue DEF StreamUnsure
<1>8. ASSUME AbandonInvalid
     PROVE  MachineTypeOK' /\ NoPanic'
  BY <1>8 DEF AbandonInvalid, ToUpdateAbandoned
<1>9. ASSUME StrategyDenies
     PROVE  MachineTypeOK' /\ NoPanic'
  BY <1>9 DEF StrategyDenies, ToUpdateStaged
<1>10. ASSUME NEW sessions \in BOOLEAN, NEW override \in BOOLEAN,
             StrategyAllows(sessions, override)
     PROVE  MachineTypeOK' /\ NoPanic'
  BY <1>10, RecordPostponementValue DEF StrategyAllows, UsersessionsCanFinalize
<1>11. ASSUME FinalizeDeployment
     PROVE  MachineTypeOK' /\ NoPanic'
  BY <1>11 DEF FinalizeDeployment, ToUpdateFinalized, FinalizeEffect, Unlocked
<1>12. ASSUME TickEnd
     PROVE  MachineTypeOK' /\ NoPanic'
  BY <1>12 DEF TickEnd, ToEndState
<1>13. ASSUME AgentExits
     PROVE  MachineTypeOK' /\ NoPanic'
  BY <1>13 DEF AgentExits, FreshProcess
<1>14. ASSUME Reboot
     PROVE  MachineTypeOK' /\ NoPanic'
  BY <1>14 DEF Reboot, BootInto, FreshProcess, NextBoot
<1>15. ASSUME AdminReboots
     PROVE  MachineTypeOK' /\ NoPanic'
  BY <1>15 DEF AdminReboots, AdminCommand, BootInto, FreshProcess, NextBoot
<1>16. ASSUME AdminRollsBack
     PROVE  MachineTypeOK' /\ NoPanic'
  <2>1. PICK r \in deployments \ {booted} : BootInto(r)
    BY <1>16 DEF AdminRollsBack
  <2> QED
    BY <1>16, <2>1 DEF AdminRollsBack, AdminCommand, BootInto, FreshProcess
<1> HIDE DEF States, Plain, Panicked, Asserting, Ticking, IInv, TypeOK, AwaitInv,
              MachineTypeOK, Pursuing, NoPanic, HostTypeOK
<1>17. CASE TickInitialize \/ SteadyRefused \/ AttemptDeploy \/ RejectStream
            \/ FinalizeFails \/ TickIdle
  <2>1. machine' = machine
    BY <1>17 DEF TickInitialize, SteadyRefused, AttemptDeploy, RejectStream,
                 FinalizeFails, TickIdle, vars, agentVars
  <2> QED
    BY <1>1, <2>1
<1>18. CASE StartAgent \/ TransactionEnds \/ AdminCleansUp
            \/ \E r \in Releases : AdminStages(r)
  <2>1. machine' = machine
    BY <1>18 DEF StartAgent, TransactionEnds, AdminCleansUp, AdminStages, agentVars
  <2> QED
    BY <1>1, <2>1
<1>19. CASE AgentNext
  BY <1>2, <1>3, <1>4, <1>5, <1>6, <1>7, <1>8, <1>9, <1>10, <1>11, <1>12, <1>17, <1>19
  DEF AgentNext
<1>20. CASE HostNext
  BY <1>13, <1>14, <1>15, <1>16, <1>18, <1>20 DEF HostNext
<1>21. CASE UNCHANGED vars
  BY <1>1, <1>21 DEF vars, agentVars
<1> QED
  BY <1>19, <1>20, <1>21 DEF Next

(* A tick ends in the state its await belongs to, or in the next state.     *)
LEMMA AwaitStep == ASSUME IInv, [Next]_vars PROVE AwaitInv'
<1> USE DEF States, Plain, Panicked, Asserting, Ticking, IInv, TypeOK, AwaitInv, MachineTypeOK, Pursuing, NoPanic
<1>1. CASE UNCHANGED <<machine, pc>>
  BY <1>1
<1>2. ASSUME TickInitialize
     PROVE  AwaitInv'
  BY <1>2 DEF TickInitialize
<1>3. ASSUME NEW ok \in BOOLEAN, Initialize(ok)
     PROVE  AwaitInv'
  BY <1>3 DEF Initialize, ToInitialized, ToEndState
<1>4. ASSUME TickReportSteady
     PROVE  AwaitInv'
  BY <1>4 DEF TickReportSteady, ToReportedSteady
<1>5. ASSUME NEW offered \in SUBSET Releases, TickCheckUpdates(offered)
     PROVE  AwaitInv'
  BY <1>5 DEF TickCheckUpdates, ToUpdateAvailable, ToNoNewUpdate, FindUpdate
<1>6. ASSUME AttemptDeploy
     PROVE  AwaitInv'
  BY <1>6 DEF AttemptDeploy, Locked
<1>7. ASSUME DeployFails
     PROVE  AwaitInv'
  BY <1>7 DEF DeployFails, StageDeploymentFails, RecordFailedDeploy, ToUpdateAbandoned, Locked
<1>8. ASSUME ConfirmValidStream
     PROVE  AwaitInv'
  BY <1>8 DEF ConfirmValidStream, ToUpdateStaged
<1>9. ASSUME RejectStream
     PROVE  AwaitInv'
  BY <1>9 DEF RejectStream
<1>10. ASSUME StreamUnsure
     PROVE  AwaitInv'
  BY <1>10 DEF StreamUnsure, RecordFailedDeploy, ToUpdateAbandoned
<1>11. ASSUME AbandonInvalid
     PROVE  AwaitInv'
  BY <1>11 DEF AbandonInvalid, ToUpdateAbandoned
<1>12. ASSUME StrategyDenies
     PROVE  AwaitInv'
  BY <1>12 DEF StrategyDenies, ToUpdateStaged
<1>13. ASSUME NEW sessions \in BOOLEAN, NEW override \in BOOLEAN,
             StrategyAllows(sessions, override)
     PROVE  AwaitInv'
  BY <1>13 DEF StrategyAllows, RecordPostponement, UsersessionsCanFinalize
<1>14. ASSUME FinalizeDeployment
     PROVE  AwaitInv'
  BY <1>14 DEF FinalizeDeployment, ToUpdateFinalized, FinalizeEffect, Unlocked
<1>15. ASSUME FinalizeFails
     PROVE  AwaitInv'
  BY <1>15 DEF FinalizeFails, FinalizeEffect, Unlocked
<1>16. ASSUME TickEnd
     PROVE  AwaitInv'
  BY <1>16 DEF TickEnd, ToEndState
<1>17. ASSUME StartAgent
     PROVE  AwaitInv'
  BY <1>17 DEF StartAgent
<1>18. ASSUME AgentExits
     PROVE  AwaitInv'
  BY <1>18 DEF AgentExits, FreshProcess
<1>19. ASSUME Reboot
     PROVE  AwaitInv'
  BY <1>19 DEF Reboot, BootInto, FreshProcess, NextBoot
<1>20. ASSUME AdminReboots
     PROVE  AwaitInv'
  BY <1>20 DEF AdminReboots, AdminCommand, BootInto, FreshProcess, NextBoot
<1>21. ASSUME AdminRollsBack
     PROVE  AwaitInv'
  BY <1>21 DEF AdminRollsBack, AdminCommand, BootInto, FreshProcess
<1> QED
  BY <1>1, <1>2, <1>3, <1>4, <1>5, <1>6, <1>7, <1>8, <1>9, <1>10, <1>11, <1>12, <1>13, <1>14, <1>15, <1>16, <1>17, <1>18, <1>19, <1>20, <1>21
  DEF Next, AgentNext, HostNext, vars, SteadyRefused, TickIdle, TransactionEnds, AdminStages, AdminCleansUp

(* The rest of the agent's memory keeps its type.                           *)
LEMMA ProcessStep == ASSUME IInv, [Next]_vars PROVE ProcessTypeOK'
<1> USE DEF States, Plain, Panicked, Asserting, Ticking, IInv, TypeOK, AwaitInv, MachineTypeOK, Pursuing, ProcessTypeOK, HostTypeOK
<1>1. CASE UNCHANGED <<denylist, pc, conf, waited, forced, known>>
  BY <1>1
<1>2. ASSUME TickInitialize
     PROVE  ProcessTypeOK'
  BY <1>2 DEF TickInitialize
<1>3. ASSUME NEW ok \in BOOLEAN, Initialize(ok)
     PROVE  ProcessTypeOK'
  BY <1>3 DEF Initialize, ToInitialized, ToEndState
<1>4. ASSUME AttemptDeploy
     PROVE  ProcessTypeOK'
  BY <1>4 DEF AttemptDeploy, Locked
<1>5. ASSUME ConfirmValidStream
     PROVE  ProcessTypeOK'
  BY <1>5 DEF ConfirmValidStream, ToUpdateStaged
<1>6. ASSUME RejectStream
     PROVE  ProcessTypeOK'
  BY <1>6 DEF RejectStream
<1>7. ASSUME StreamUnsure
     PROVE  ProcessTypeOK'
  BY <1>7 DEF StreamUnsure, RecordFailedDeploy, ToUpdateAbandoned
<1>8. ASSUME AbandonInvalid
     PROVE  ProcessTypeOK'
  BY <1>8 DEF AbandonInvalid, ToUpdateAbandoned
<1>9. ASSUME StrategyDenies
     PROVE  ProcessTypeOK'
  BY <1>9 DEF StrategyDenies, ToUpdateStaged
<1>10. ASSUME NEW sessions \in BOOLEAN, NEW override \in BOOLEAN,
             StrategyAllows(sessions, override)
     PROVE  ProcessTypeOK'
  <2>1. forced' \in BOOLEAN
    BY <1>10 DEF StrategyAllows
  <2>2. waited' \in Nat
    BY <1>10 DEF StrategyAllows
  <2> QED
    BY <1>10, <2>1, <2>2 DEF StrategyAllows
<1>11. ASSUME FinalizeDeployment
     PROVE  ProcessTypeOK'
  BY <1>11 DEF FinalizeDeployment, ToUpdateFinalized, FinalizeEffect, Unlocked
<1>12. ASSUME FinalizeFails
     PROVE  ProcessTypeOK'
  BY <1>12 DEF FinalizeFails, FinalizeEffect, Unlocked
<1>13. ASSUME StartAgent
     PROVE  ProcessTypeOK'
  BY <1>13 DEF StartAgent
<1>14. ASSUME AgentExits
     PROVE  ProcessTypeOK'
  BY <1>14 DEF AgentExits, FreshProcess
<1>15. ASSUME Reboot
     PROVE  ProcessTypeOK'
  BY <1>15 DEF Reboot, BootInto, FreshProcess, NextBoot
<1>16. ASSUME AdminReboots
     PROVE  ProcessTypeOK'
  BY <1>16 DEF AdminReboots, AdminCommand, BootInto, FreshProcess, NextBoot
<1>17. ASSUME AdminRollsBack
     PROVE  ProcessTypeOK'
  <2>1. PICK r \in deployments \ {booted} : BootInto(r)
    BY <1>17 DEF AdminRollsBack
  <2> QED
    BY <1>17, <2>1 DEF AdminRollsBack, AdminCommand, BootInto, FreshProcess
<1> QED
  BY <1>1, <1>2, <1>3, <1>4, <1>5, <1>6, <1>7, <1>8, <1>9, <1>10, <1>11, <1>12, <1>13, <1>14, <1>15, <1>16, <1>17
  DEF Next, AgentNext, HostNext, vars, TickReportSteady, SteadyRefused, TickCheckUpdates, DeployFails, TickEnd, TickIdle, TransactionEnds, AdminStages, AdminCleansUp

(* The host and the bounds keep their type.                                 *)
LEMMA HostStep == ASSUME IInv, [Next]_vars PROVE HostTypeOK'
<1> USE DEF States, Plain, Panicked, Asserting, Ticking, IInv, TypeOK, AwaitInv, MachineTypeOK, Pursuing, HostTypeOK
<1>1. CASE UNCHANGED <<booted, deployments, staged, rebooting, transaction, trusted, crashes, adminOps>>
  BY <1>1
<1>2. ASSUME AttemptDeploy
     PROVE  HostTypeOK'
  BY <1>2 DEF AttemptDeploy, Locked
<1>3. ASSUME DeployFails
     PROVE  HostTypeOK'
  <2>1. CASE staged' = staged
    BY <1>3, <2>1 DEF DeployFails, StageDeploymentFails, Locked
  <2>2. CASE staged' = Locked(machine.release)
    BY <1>3, <2>2 DEF DeployFails, StageDeploymentFails, Locked
  <2> QED
    BY <1>3, <2>1, <2>2 DEF DeployFails, StageDeploymentFails, Locked
<1>4. ASSUME AbandonInvalid
     PROVE  HostTypeOK'
  <2>1. CASE staged' = staged
    BY <1>4, <2>1 DEF AbandonInvalid
  <2>2. CASE staged' = NoDeployment
    BY <1>4, <2>2 DEF AbandonInvalid
  <2> QED
    BY <1>4, <2>1, <2>2 DEF AbandonInvalid
<1>5. ASSUME FinalizeDeployment
     PROVE  HostTypeOK'
  BY <1>5 DEF FinalizeDeployment, ToUpdateFinalized, FinalizeEffect, Unlocked
<1>6. ASSUME FinalizeFails
     PROVE  HostTypeOK'
  <2>1. CASE FinalizeEffect(machine.release)
    BY <1>6, <2>1 DEF FinalizeFails, FinalizeEffect, Unlocked
  <2>2. CASE UNCHANGED <<staged, rebooting>>
    BY <1>6, <2>2 DEF FinalizeFails, FinalizeEffect, Unlocked
  <2> QED
    BY <1>6, <2>1, <2>2 DEF FinalizeFails, FinalizeEffect, Unlocked
<1>7. ASSUME AgentExits
     PROVE  HostTypeOK'
  BY <1>7 DEF AgentExits, FreshProcess
<1>8. ASSUME Reboot
     PROVE  HostTypeOK'
  <2>1. BootInto(NextBoot)
    BY <1>8 DEF Reboot
  <2>2. NextBoot \in Releases
    BY <2>1 DEF NextBoot
  <2>3. /\ booted' \in Releases /\ deployments' \subseteq Releases
        /\ staged' = NoDeployment /\ rebooting' = FALSE /\ trusted' = trusted
        /\ transaction' = NoRelease
    BY <2>1, <2>2 DEF BootInto
  <2>4. crashes' \in 0..MaxCrashes /\ adminOps' \in 0..MaxAdminOps
    BY <1>8 DEF Reboot, AdminCommand
  <2> QED
    BY <2>3, <2>4
<1>9. ASSUME NEW r \in Releases, AdminStages(r)
     PROVE  HostTypeOK'
  BY <1>9 DEF AdminStages, AdminCommand, Unlocked
<1>10. ASSUME AdminCleansUp
     PROVE  HostTypeOK'
  BY <1>10 DEF AdminCleansUp, AdminCommand
<1>11. ASSUME AdminReboots
     PROVE  HostTypeOK'
  <2>1. BootInto(NextBoot)
    BY <1>11 DEF AdminReboots
  <2>2. NextBoot \in Releases
    BY <2>1 DEF NextBoot
  <2>3. /\ booted' \in Releases /\ deployments' \subseteq Releases
        /\ staged' = NoDeployment /\ rebooting' = FALSE /\ trusted' = trusted
        /\ transaction' = NoRelease
    BY <2>1, <2>2 DEF BootInto
  <2>4. crashes' \in 0..MaxCrashes /\ adminOps' \in 0..MaxAdminOps
    BY <1>11 DEF AdminReboots, AdminCommand
  <2> QED
    BY <2>3, <2>4
<1>12. ASSUME AdminRollsBack
     PROVE  HostTypeOK'
  <2>1. PICK r \in deployments \ {booted} : BootInto(r)
    BY <1>12 DEF AdminRollsBack
  <2>2. r \in Releases
    BY <2>1
  <2>3. /\ booted' \in Releases /\ deployments' \subseteq Releases
        /\ staged' = NoDeployment /\ rebooting' = FALSE /\ trusted' = trusted
        /\ transaction' = NoRelease
    BY <2>1, <2>2 DEF BootInto
  <2>4. crashes' \in 0..MaxCrashes /\ adminOps' \in 0..MaxAdminOps
    BY <1>12 DEF AdminRollsBack, AdminCommand
  <2> QED
    BY <2>3, <2>4
<1>13. ASSUME TransactionEnds
     PROVE  HostTypeOK'
  <2>1. CASE staged' = staged
    BY <1>13, <2>1 DEF TransactionEnds
  <2>2. CASE staged' = Locked(transaction)
    BY <1>13, <2>2 DEF TransactionEnds, Locked
  <2> QED
    BY <1>13, <2>1, <2>2 DEF TransactionEnds
<1> QED
  BY <1>1, <1>2, <1>3, <1>4, <1>5, <1>6, <1>7, <1>8, <1>9, <1>10, <1>11, <1>12, <1>13
  DEF Next, AgentNext, HostNext, vars, TickInitialize, Initialize, TickReportSteady, SteadyRefused, TickCheckUpdates, ConfirmValidStream, RejectStream, StreamUnsure, StrategyDenies, StrategyAllows, TickEnd, TickIdle, StartAgent

(* A release is pursued only after find_update let it through; it is staged *)
(* only on the right stream; the denylist only grows while it is pursued.   *)
LEMMA PursuitStep == ASSUME IInv, [Next]_vars PROVE PursuitInv'
<1> USE DEF States, Plain, Panicked, Asserting, Ticking, IInv, TypeOK, AwaitInv, MachineTypeOK, Pursuing, HostTypeOK, ProcessTypeOK, PursuitInv, NoPanic
<1>1. CASE UNCHANGED <<machine, denylist, booted, conf, deployments, known>>
  BY <1>1
<1>2. ASSUME NEW ok \in BOOLEAN, Initialize(ok)
     PROVE  PursuitInv'
  BY <1>2 DEF Initialize, ToInitialized, ToEndState
<1>3. ASSUME TickReportSteady
     PROVE  PursuitInv'
  BY <1>3 DEF TickReportSteady, ToReportedSteady
<1>4. ASSUME NEW offered \in SUBSET Releases, TickCheckUpdates(offered)
     PROVE  PursuitInv'
  BY <1>4 DEF TickCheckUpdates, ToUpdateAvailable, ToNoNewUpdate, FindUpdate
<1>5. ASSUME DeployFails
     PROVE  PursuitInv'
  BY <1>5 DEF DeployFails, StageDeploymentFails, RecordFailedDeploy, ToUpdateAbandoned, Locked
<1>6. ASSUME ConfirmValidStream
     PROVE  PursuitInv'
  BY <1>6 DEF ConfirmValidStream, PendingIsTarget, OnCorrectStream, ToUpdateStaged
<1>7. ASSUME StreamUnsure
     PROVE  PursuitInv'
  BY <1>7 DEF StreamUnsure, RecordFailedDeploy, ToUpdateAbandoned
<1>8. ASSUME AbandonInvalid
     PROVE  PursuitInv'
  BY <1>8 DEF AbandonInvalid, ToUpdateAbandoned
<1>9. ASSUME StrategyDenies
     PROVE  PursuitInv'
  BY <1>9 DEF StrategyDenies, ToUpdateStaged
<1>10. ASSUME NEW sessions \in BOOLEAN, NEW override \in BOOLEAN,
             StrategyAllows(sessions, override)
     PROVE  PursuitInv'
  BY <1>10 DEF StrategyAllows, RecordPostponement, UsersessionsCanFinalize
<1>11. ASSUME FinalizeDeployment
     PROVE  PursuitInv'
  BY <1>11 DEF FinalizeDeployment, ToUpdateFinalized, FinalizeEffect, Unlocked
<1>12. ASSUME TickEnd
     PROVE  PursuitInv'
  BY <1>12 DEF TickEnd, ToEndState
<1>13. ASSUME StartAgent
     PROVE  PursuitInv'
  BY <1>13 DEF StartAgent
<1>14. ASSUME AgentExits
     PROVE  PursuitInv'
  BY <1>14 DEF AgentExits, FreshProcess
<1>15. ASSUME Reboot
     PROVE  PursuitInv'
  BY <1>15 DEF Reboot, BootInto, FreshProcess, NextBoot
<1>16. ASSUME AdminReboots
     PROVE  PursuitInv'
  BY <1>16 DEF AdminReboots, AdminCommand, BootInto, FreshProcess, NextBoot
<1>17. ASSUME AdminRollsBack
     PROVE  PursuitInv'
  BY <1>17 DEF AdminRollsBack, AdminCommand, BootInto, FreshProcess
<1> QED
  BY <1>1, <1>2, <1>3, <1>4, <1>5, <1>6, <1>7, <1>8, <1>9, <1>10, <1>11, <1>12, <1>13, <1>14, <1>15, <1>16, <1>17
  DEF Next, AgentNext, HostNext, vars, TickInitialize, SteadyRefused, AttemptDeploy, RejectStream, FinalizeFails, TickIdle, TransactionEnds, AdminStages, AdminCleansUp

(* What the host boots next is trusted or on the stream.                    *)
LEMMA NextBootTrusted ==
  ASSUME TrustInv
  PROVE  NextBoot \in StreamReleases \union trusted
  BY DEF TrustInv, NextBoot

(* A host that boots such a release is left with such releases only.        *)
LEMMA TrustInto ==
  ASSUME TrustInv, NEW r \in StreamReleases \union trusted, BootInto(r)
  PROVE  TrustInv'
<1>1. booted' = r /\ trusted' = trusted /\ staged' = NoDeployment
  BY DEF BootInto
<1>2. deployments' \subseteq deployments \union {booted, r}
  BY DEF BootInto
<1> QED
  BY <1>1, <1>2 DEF TrustInv

(* What the agent deploys is locked until it is finalized, by which time    *)
(* its stream was confirmed; what an administrator stages is trusted.       *)
LEMMA TrustStep == ASSUME IInv, [Next]_vars PROVE TrustInv'
<1> USE DEF States, Plain, Panicked, Asserting, Ticking, IInv, TypeOK, AwaitInv, MachineTypeOK, Pursuing, HostTypeOK, PursuitInv, TrustInv, NoPanic
<1>1. CASE UNCHANGED <<booted, deployments, staged, trusted>>
  BY <1>1
<1>2. ASSUME AttemptDeploy
     PROVE  TrustInv'
  BY <1>2 DEF AttemptDeploy, Locked
<1>3. ASSUME DeployFails
     PROVE  TrustInv'
  BY <1>3 DEF DeployFails, StageDeploymentFails, RecordFailedDeploy, ToUpdateAbandoned, Locked
<1>4. ASSUME AbandonInvalid
     PROVE  TrustInv'
  BY <1>4 DEF AbandonInvalid, ToUpdateAbandoned
<1>5. ASSUME FinalizeDeployment
     PROVE  TrustInv'
  BY <1>5 DEF FinalizeDeployment, ToUpdateFinalized, FinalizeEffect, Unlocked
<1>6. ASSUME FinalizeFails
     PROVE  TrustInv'
  BY <1>6 DEF FinalizeFails, FinalizeEffect, Unlocked
<1>7. ASSUME Reboot
     PROVE  TrustInv'
  <2>1. BootInto(NextBoot)
    BY <1>7 DEF Reboot
  <2> QED
    BY <2>1, NextBootTrusted, TrustInto
<1>8. ASSUME NEW r \in Releases, AdminStages(r)
     PROVE  TrustInv'
  BY <1>8 DEF AdminStages, AdminCommand, Unlocked
<1>9. ASSUME AdminCleansUp
     PROVE  TrustInv'
  BY <1>9 DEF AdminCleansUp, AdminCommand
<1>10. ASSUME AdminReboots
     PROVE  TrustInv'
  <2>1. BootInto(NextBoot)
    BY <1>10 DEF AdminReboots
  <2> QED
    BY <2>1, NextBootTrusted, TrustInto
<1>11. ASSUME AdminRollsBack
     PROVE  TrustInv'
  <2>1. PICK r \in deployments \ {booted} : BootInto(r)
    BY <1>11 DEF AdminRollsBack
  <2> QED
    BY <2>1, TrustInto
<1>12. ASSUME TransactionEnds
     PROVE  TrustInv'
  BY <1>12 DEF TransactionEnds, Locked
<1> QED
  BY <1>1, <1>2, <1>3, <1>4, <1>5, <1>6, <1>7, <1>8, <1>9, <1>10, <1>11, <1>12
  DEF Next, AgentNext, HostNext, vars, TickInitialize, Initialize, TickReportSteady, SteadyRefused, TickCheckUpdates, ConfirmValidStream, RejectStream, StreamUnsure, StrategyDenies, StrategyAllows, TickEnd, TickIdle, StartAgent, AgentExits

(* A postponement moves one unit of the grace period from what is left to   *)
(* what was granted; staging and denials give all of it back.               *)
LEMMA GraceStep == ASSUME IInv, [Next]_vars PROVE GraceInv'
<1> USE DEF States, Plain, Panicked, Asserting, Ticking, IInv, TypeOK, AwaitInv, MachineTypeOK, Pursuing, NoPanic, ProcessTypeOK, GraceInv
<1>1. CASE UNCHANGED <<machine, pc, waited, forced>>
  BY <1>1
<1>2. ASSUME TickInitialize
     PROVE  GraceInv'
  BY <1>2 DEF TickInitialize
<1>3. ASSUME NEW ok \in BOOLEAN, Initialize(ok)
     PROVE  GraceInv'
  BY <1>3 DEF Initialize, ToInitialized, ToEndState
<1>4. ASSUME TickReportSteady
     PROVE  GraceInv'
  BY <1>4 DEF TickReportSteady, ToReportedSteady
<1>5. ASSUME NEW offered \in SUBSET Releases, TickCheckUpdates(offered)
     PROVE  GraceInv'
  BY <1>5 DEF TickCheckUpdates, ToUpdateAvailable, ToNoNewUpdate, FindUpdate
<1>6. ASSUME AttemptDeploy
     PROVE  GraceInv'
  BY <1>6 DEF AttemptDeploy, Locked
<1>7. ASSUME DeployFails
     PROVE  GraceInv'
  BY <1>7 DEF DeployFails, StageDeploymentFails, RecordFailedDeploy, ToUpdateAbandoned, Locked
<1>8. ASSUME ConfirmValidStream
     PROVE  GraceInv'
  BY <1>8 DEF ConfirmValidStream, ToUpdateStaged
<1>9. ASSUME RejectStream
     PROVE  GraceInv'
  BY <1>9 DEF RejectStream
<1>10. ASSUME StreamUnsure
     PROVE  GraceInv'
  BY <1>10 DEF StreamUnsure, RecordFailedDeploy, ToUpdateAbandoned
<1>11. ASSUME AbandonInvalid
     PROVE  GraceInv'
  BY <1>11 DEF AbandonInvalid, ToUpdateAbandoned
<1>12. ASSUME StrategyDenies
     PROVE  GraceInv'
  BY <1>12 DEF StrategyDenies, ToUpdateStaged
<1>13. ASSUME NEW sessions \in BOOLEAN, NEW override \in BOOLEAN,
             StrategyAllows(sessions, override)
     PROVE  GraceInv'
  BY <1>13 DEF StrategyAllows, RecordPostponement, UsersessionsCanFinalize
<1>14. ASSUME FinalizeDeployment
     PROVE  GraceInv'
  BY <1>14 DEF FinalizeDeployment, ToUpdateFinalized, FinalizeEffect, Unlocked
<1>15. ASSUME FinalizeFails
     PROVE  GraceInv'
  BY <1>15 DEF FinalizeFails, FinalizeEffect, Unlocked
<1>16. ASSUME TickEnd
     PROVE  GraceInv'
  BY <1>16 DEF TickEnd, ToEndState
<1>17. ASSUME StartAgent
     PROVE  GraceInv'
  BY <1>17 DEF StartAgent
<1>18. ASSUME AgentExits
     PROVE  GraceInv'
  BY <1>18 DEF AgentExits, FreshProcess
<1>19. ASSUME Reboot
     PROVE  GraceInv'
  BY <1>19 DEF Reboot, BootInto, FreshProcess, NextBoot
<1>20. ASSUME AdminReboots
     PROVE  GraceInv'
  BY <1>20 DEF AdminReboots, AdminCommand, BootInto, FreshProcess, NextBoot
<1>21. ASSUME AdminRollsBack
     PROVE  GraceInv'
  BY <1>21 DEF AdminRollsBack, AdminCommand, BootInto, FreshProcess
<1> QED
  BY <1>1, <1>2, <1>3, <1>4, <1>5, <1>6, <1>7, <1>8, <1>9, <1>10, <1>11, <1>12, <1>13, <1>14, <1>15, <1>16, <1>17, <1>18, <1>19, <1>20, <1>21
  DEF Next, AgentNext, HostNext, vars, SteadyRefused, TickIdle, TransactionEnds, AdminStages, AdminCleansUp

(* A deploy begins only when none is under way, and an agent that exits in  *)
(* the middle of one leaves the state with it.                              *)
LEMMA SettledStep == ASSUME IInv, [Next]_vars PROVE SettledInv'
<1> USE DEF States, Plain, Panicked, Asserting, Ticking, IInv, TypeOK, AwaitInv, MachineTypeOK, NoPanic, SettledInv
<1>1. CASE UNCHANGED <<machine, pc, transaction>>
  BY <1>1
<1>2. CASE transaction' = NoRelease
  BY <1>2
<1>3. ASSUME TickInitialize
     PROVE  SettledInv'
  BY <1>3 DEF TickInitialize
<1>4. ASSUME NEW ok \in BOOLEAN, Initialize(ok)
     PROVE  SettledInv'
  BY <1>4 DEF Initialize, ToInitialized, ToEndState
<1>5. ASSUME TickReportSteady
     PROVE  SettledInv'
  BY <1>5 DEF TickReportSteady, ToReportedSteady
<1>6. ASSUME NEW offered \in SUBSET Releases, TickCheckUpdates(offered)
     PROVE  SettledInv'
  BY <1>6 DEF TickCheckUpdates, ToUpdateAvailable, ToNoNewUpdate, FindUpdate
<1>7. ASSUME AttemptDeploy
     PROVE  SettledInv'
  BY <1>7 DEF AttemptDeploy
<1>8. ASSUME DeployFails
     PROVE  SettledInv'
  BY <1>8, RecordFailedDeployValue DEF DeployFails
<1>9. ASSUME ConfirmValidStream
     PROVE  SettledInv'
  BY <1>9 DEF ConfirmValidStream
<1>10. ASSUME RejectStream
     PROVE  SettledInv'
  BY <1>10 DEF RejectStream
<1>11. ASSUME StreamUnsure
     PROVE  SettledInv'
  BY <1>11, RecordFailedDeployValue DEF StreamUnsure
<1>12. ASSUME AbandonInvalid
     PROVE  SettledInv'
  BY <1>12 DEF AbandonInvalid, ToUpdateAbandoned
<1>13. ASSUME StrategyDenies
     PROVE  SettledInv'
  BY <1>13 DEF StrategyDenies
<1>14. ASSUME NEW sessions \in BOOLEAN, NEW override \in BOOLEAN,
             StrategyAllows(sessions, override)
     PROVE  SettledInv'
  BY <1>14 DEF StrategyAllows
<1>15. ASSUME FinalizeDeployment
     PROVE  SettledInv'
  BY <1>15 DEF FinalizeDeployment, ToUpdateFinalized
<1>16. ASSUME FinalizeFails
     PROVE  SettledInv'
  BY <1>16 DEF FinalizeFails
<1>17. ASSUME TickEnd
     PROVE  SettledInv'
  BY <1>17 DEF TickEnd, ToEndState
<1>18. ASSUME StartAgent
     PROVE  SettledInv'
  BY <1>18 DEF StartAgent
<1>19. ASSUME AgentExits
     PROVE  SettledInv'
  BY <1>19 DEF AgentExits, FreshProcess
<1> QED
  BY <1>1, <1>2, <1>3, <1>4, <1>5, <1>6, <1>7, <1>8, <1>9, <1>10, <1>11, <1>12, <1>13, <1>14, <1>15, <1>16, <1>17, <1>18, <1>19
  DEF Next, AgentNext, HostNext, vars, SteadyRefused, TickIdle, TransactionEnds, Reboot, BootInto, AdminStages, AdminCleansUp, AdminReboots, AdminRollsBack

-----------------------------------------------------------------------------
(* The agent starts within the inductive invariant.                         *)
LEMMA InitIInv == Init => IInv
<1> SUFFICES ASSUME Init PROVE IInv
  OBVIOUS
<1> USE DEF Init, Plain
<1>1. MachineTypeOK /\ NoPanic /\ AwaitInv /\ GraceInv
  BY DEF MachineTypeOK, NoPanic, AwaitInv, GraceInv, Pursuing, States
<1>2. ProcessTypeOK
  BY DEF ProcessTypeOK
<1>3. HostTypeOK
  <2>1. PICK other \in Releases : deployments = {booted, other}
    OBVIOUS
  <2>2. /\ booted \in Releases /\ deployments \subseteq Releases
        /\ trusted \subseteq Releases
    BY <2>1
  <2>3. /\ staged = NoDeployment /\ rebooting = FALSE
        /\ transaction = NoRelease
        /\ crashes \in 0..MaxCrashes /\ adminOps \in 0..MaxAdminOps
    OBVIOUS
  <2> HIDE DEF Init
  <2> QED
    BY <2>2, <2>3 DEF HostTypeOK
<1>4. PursuitInv /\ TrustInv /\ SettledInv
  BY DEF PursuitInv, TrustInv, Pursuing, SettledInv
<1> QED
  BY <1>1, <1>2, <1>3, <1>4 DEF IInv, TypeOK

(* The invariant is inductive: one lemma above for each of its parts.       *)
LEMMA StepIInv == IInv /\ [Next]_vars => IInv'
  BY MachineStep, AwaitStep, ProcessStep, HostStep, PursuitStep, TrustStep,
     GraceStep, SettledStep DEF IInv, TypeOK

(* Every behaviour of the agent stays within the inductive invariant.       *)
THEOREM Invariance == Spec => []IInv
  BY InitIInv, StepIInv, PTL DEF Spec

-----------------------------------------------------------------------------
(* The state machine, the process and the host are typed, for every set of  *)
(* releases, configurations and limits.                                     *)
THEOREM TypeCorrect == Spec => []TypeOK
  BY Invariance, PTL DEF IInv

(* No tick of update_agent/actor.rs reaches a failing assert! or an         *)
(* unreachable! of update_agent/mod.rs.                                     *)
THEOREM NeverPanics == Spec => []NoPanic
  BY Invariance, PTL DEF IInv

(* No deploy of an earlier agent is under way once an update is staged.     *)
THEOREM SettledOnceStaged == Spec => []StagedIsSettled
<1>1. IInv => StagedIsSettled
  BY DEF IInv, SettledInv, StagedIsSettled
<1> QED
  BY <1>1, Invariance, PTL

(* Logged-in users are only disregarded after the whole grace period.       *)
THEOREM GracePeriodGranted == Spec => []GracePeriod
<1>1. IInv => GracePeriod
  BY DEF IInv, AwaitInv, GraceInv, GracePeriod, TypeOK, ProcessTypeOK, MachineTypeOK
<1> QED
  BY <1>1, Invariance, PTL

(* The node never boots a deployment of the agent that was not validated.   *)
THEOREM TrustedBoot == Spec => []BootedIsTrusted
<1>1. IInv => BootedIsTrusted
  BY DEF IInv, TrustInv, BootedIsTrusted
<1> QED
  BY <1>1, Invariance, PTL

(* What a finalization reboots into: the release that the agent holds as    *)
(* staged, whatever happened to the host since it was validated.            *)
LEMMA FinalizationTarget ==
  ASSUME IInv, [Next]_vars, ~rebooting, rebooting'
  PROVE  /\ machine.state = "UpdateStaged"
         /\ NextBoot' = machine.release
         /\ UNCHANGED <<denylist, conf, booted, deployments, known>>
<1>1. CASE FinalizeDeployment
  BY <1>1 DEF FinalizeDeployment, FinalizeEffect, Unlocked, NextBoot, IInv,
     AwaitInv, TypeOK, MachineTypeOK, Pursuing
<1>2. CASE FinalizeFails
  <2>1. FinalizeEffect(machine.release)
    BY <1>2 DEF FinalizeFails
  <2>2. machine.state = "UpdateStaged" /\ machine.release # NoRelease
    BY <1>2 DEF FinalizeFails, IInv, AwaitInv, TypeOK, MachineTypeOK, Pursuing
  <2> QED
    BY <1>2, <2>1, <2>2 DEF FinalizeFails, FinalizeEffect, Unlocked, NextBoot
<1>3. CASE UNCHANGED rebooting
  BY <1>3
<1>4. CASE rebooting' = FALSE
  BY <1>4
<1> QED
  BY <1>1, <1>2, <1>3, <1>4
  DEF Next, AgentNext, HostNext, vars, TickInitialize, Initialize,
      TickReportSteady, SteadyRefused, TickCheckUpdates, AttemptDeploy,
      DeployFails, ConfirmValidStream, RejectStream, StreamUnsure,
      AbandonInvalid, StrategyDenies, StrategyAllows, TickEnd, TickIdle,
      StartAgent, AgentExits, TransactionEnds, Reboot, AdminStages, AdminCleansUp, AdminReboots,
      AdminRollsBack, BootInto

(* A finalization reboots into a validated, undenied release that is no     *)
(* unwanted downgrade and no former deployment of the node.                 *)
THEOREM SafeFinalization == Spec => FinalizesSafely
<1>1. IInv /\ [Next]_vars =>
        [(~rebooting /\ rebooting') =>
           LET r == NextBoot' IN
             /\ r \in StreamReleases
             /\ r \notin denylist
             /\ r > booted \/ conf.allow_downgrade
             /\ known => r \notin deployments]_vars
  BY FinalizationTarget DEF IInv, PursuitInv, Pursuing
<1> QED
  BY <1>1, Invariance, PTL DEF Spec, FinalizesSafely

-----------------------------------------------------------------------------
(* The agent as an updater.                                                 *)

(* Once the reboot is asked for, the agent is past anything that stages, or *)
(* gone; and no deploy of an earlier agent is under way.                    *)
HaltInv ==
  rebooting => /\ transaction = NoRelease
               /\ machine.state \in {"StartState", "UpdateStaged", "UpdateFinalized", "EndState"}
               /\ machine.state = "StartState" => pc = "down"

(* An agent that starts has asked for no reboot.                            *)
LEMMA InitHaltInv == Init => HaltInv
  BY DEF Init, HaltInv

(* Nothing that runs once the reboot is asked for stages a deployment or    *)
(* starts an agent.                                                         *)
LEMMA HaltStep == ASSUME IInv, HaltInv, [Next]_vars PROVE HaltInv'
<1> USE DEF HaltInv
<1>1. CASE UNCHANGED <<machine, pc, rebooting, transaction>>
  BY <1>1
<1>2. CASE rebooting' = FALSE
  BY <1>2
<1>3. ASSUME ~rebooting, UNCHANGED rebooting
      PROVE  HaltInv'
  BY <1>3
<1>4. CASE FinalizeDeployment \/ FinalizeFails
  <2>1. machine.state = "UpdateStaged" /\ transaction = NoRelease /\ UNCHANGED transaction
    BY <1>4 DEF FinalizeDeployment, FinalizeFails, IInv, AwaitInv, SettledInv
  <2>2. machine'.state \in {"UpdateStaged", "UpdateFinalized"}
    BY <1>4, <2>1 DEF FinalizeDeployment, FinalizeFails, ToUpdateFinalized
  <2> QED
    BY <2>1, <2>2
<1>5. ASSUME rebooting, NEW sessions \in BOOLEAN, NEW override \in BOOLEAN,
             StrategyDenies \/ StrategyAllows(sessions, override)
      PROVE  HaltInv'
  <2>1. /\ MachineTypeOK /\ machine.state = "UpdateStaged"
        /\ UNCHANGED <<rebooting, transaction>>
    BY <1>5 DEF StrategyDenies, StrategyAllows, Ticking, IInv, TypeOK
  <2>2. machine'.state = "UpdateStaged"
    BY <1>5, <2>1, RecordPostponementValue
    DEF StrategyDenies, StrategyAllows, ToUpdateStaged
  <2> QED
    BY <1>5, <2>1, <2>2
<1>6. CASE TickEnd
  BY <1>6 DEF TickEnd, ToEndState, Plain
<1>7. CASE AgentExits
  BY <1>7 DEF AgentExits, FreshProcess, Plain, Ticking
<1>8. ASSUME rebooting, AgentNext,
             ~(FinalizeDeployment \/ FinalizeFails), ~TickEnd, ~StrategyDenies,
             \A sessions, override \in BOOLEAN : ~StrategyAllows(sessions, override)
      PROVE  HaltInv'
  BY <1>1, <1>8 DEF AgentNext, TickInitialize, Initialize, TickReportSteady, SteadyRefused,
     TickCheckUpdates, AttemptDeploy, DeployFails, ConfirmValidStream, RejectStream,
     StreamUnsure, AbandonInvalid, TickIdle, Ticking, IInv, AwaitInv, vars
<1>9. CASE AgentNext
  <2>1. CASE rebooting
    BY <1>4, <1>5, <1>6, <1>8, <1>9, <2>1
  <2>2. CASE ~rebooting
    <3>1. ~(FinalizeDeployment \/ FinalizeFails) => UNCHANGED rebooting
      BY <1>9 DEF AgentNext, TickInitialize, Initialize, TickReportSteady, SteadyRefused,
         TickCheckUpdates, AttemptDeploy, DeployFails, ConfirmValidStream, RejectStream,
         StreamUnsure, AbandonInvalid, StrategyDenies, StrategyAllows, TickEnd, TickIdle, vars
    <3> QED
      BY <1>3, <1>4, <2>2, <3>1
  <2>3. rebooting \in BOOLEAN
    BY DEF IInv, TypeOK, HostTypeOK
  <2> QED
    BY <2>1, <2>2, <2>3
<1>10. CASE HostNext
  <2>1. CASE StartAgent \/ TransactionEnds
    BY <2>1 DEF StartAgent, TransactionEnds
  <2> QED
    BY <1>1, <1>2, <1>7, <1>10, <2>1
    DEF HostNext, Reboot, BootInto, AdminStages, AdminCleansUp, AdminReboots, AdminRollsBack
<1> QED
  BY <1>1, <1>9, <1>10 DEF Next, vars

(* The inductive invariant of the refinement.                               *)
LEMMA Halting == Spec => [](IInv /\ HaltInv)
  BY InitIInv, InitHaltInv, StepIInv, HaltStep, PTL DEF Spec

(* An agent that starts is an updater that starts.                          *)
LEMMA InitRefines == Init => Abstract!Init
  BY DEF Init, Abstract!Init, Plain, Phase, NextBoot

(* Each step of the agent, of its host and of others is a step of the       *)
(* updater, or changes nothing that the updater shows.                      *)
LEMMA StepRefines ==
  ASSUME IInv, HaltInv, [Next]_vars
  PROVE  [Abstract!Next]_(Abstract!updaterVars)
<1> DEFINE Goal == [Abstract!Next]_(Abstract!updaterVars)
<1> USE DEF Abstract!updaterVars, Abstract!Next, Abstract!HostUnchanged
<1>1. /\ MachineTypeOK /\ ProcessTypeOK /\ HostTypeOK /\ NoPanic
      /\ AwaitInv /\ PursuitInv /\ SettledInv
  BY DEF IInv, TypeOK
<1>2. ASSUME UNCHANGED <<booted, rebooting, staged, machine, denylist, conf, adminOps>>
      PROVE  Goal
  BY <1>2 DEF NextBoot
<1>3. CASE TickInitialize \/ SteadyRefused \/ RejectStream \/ TickIdle
  BY <1>2, <1>3 DEF TickInitialize, SteadyRefused, RejectStream, TickIdle, vars
<1>4. ASSUME NEW ok \in BOOLEAN, Initialize(ok)
      PROVE  Goal
  <2>1. /\ machine.state = "StartState" /\ machine'.state \in {"Initialized", "EndState"}
        /\ denylist' \in SUBSET Releases
        /\ UNCHANGED <<booted, rebooting, staged, conf, adminOps>>
    BY <1>1, <1>4 DEF Initialize, AwaitInv, ToInitialized, ToEndState, Asserting, Plain,
       ProcessTypeOK, HostTypeOK
  <2>2. Abstract!Starts
    BY <2>1 DEF Abstract!Starts, Phase, NextBoot
  <2> QED
    BY <2>2
<1>5. CASE TickReportSteady
  <2>1. /\ machine.state = "Initialized" /\ machine'.state = "ReportedSteady"
        /\ UNCHANGED <<denylist, booted, rebooting, staged, conf, adminOps>>
    BY <1>5 DEF TickReportSteady, Ticking, ToReportedSteady, Asserting, Plain
  <2> QED
    BY <2>1 DEF Phase, NextBoot
<1>6. ASSUME NEW offered \in SUBSET Releases, TickCheckUpdates(offered)
      PROVE  Goal
  <2>1. /\ machine.state \in {"ReportedSteady", "NoNewUpdate"}
        /\ UNCHANGED <<denylist, booted, rebooting, staged, conf, adminOps>>
    BY <1>6 DEF TickCheckUpdates, Ticking
  <2>2. CASE machine' = ToNoNewUpdate(machine)
    BY <2>1, <2>2 DEF ToNoNewUpdate, Asserting, Plain, Phase, NextBoot
  <2>3. ASSUME NEW r \in FindUpdate(offered), machine' = ToUpdateAvailable(machine, r)
        PROVE  Goal
    <3>1. /\ machine'.state = "UpdateAvailable" /\ machine'.release = r
          /\ r \in Releases /\ r \notin denylist
          /\ r > booted \/ conf.allow_downgrade
      BY <2>1, <2>3 DEF ToUpdateAvailable, Asserting, FindUpdate
    <3>2. Abstract!Pursues(r)
      BY <2>1, <3>1 DEF Abstract!Pursues, Phase, NextBoot
    <3> QED
      BY <3>1, <3>2
  <2> QED
    BY <1>6, <2>2, <2>3 DEF TickCheckUpdates
(* A deployment that is staged locked displaces the one that was.           *)
<1>7. ASSUME machine.state = "UpdateAvailable", ~rebooting, NEW r, staged' = Locked(r),
             UNCHANGED <<booted, rebooting, machine, denylist, conf, adminOps>>
      PROVE  Goal
  <2>1. NextBoot' = booted
    BY <1>7 DEF NextBoot, Locked
  <2>2. Abstract!Displaces
    BY <1>7, <2>1 DEF Abstract!Displaces, Phase
  <2> QED
    BY <2>2
<1>8. machine.state = "UpdateAvailable" => ~rebooting
  BY DEF HaltInv
<1>9. CASE AttemptDeploy
  BY <1>7, <1>8, <1>9 DEF AttemptDeploy, Ticking
<1>10. ASSUME machine.state = "UpdateAvailable", machine'.state = "NoNewUpdate",
              NextBoot' \in {NextBoot, booted},
              denylist' \in {denylist, denylist \union {machine.release}},
              UNCHANGED <<booted, rebooting, conf, adminOps>>
       PROVE  Goal
  <2>1. Abstract!GivesUp
    BY <1>8, <1>10 DEF Abstract!GivesUp, Phase
  <2> QED
    BY <2>1
(* An attempt that failed is made again, or is the last one.                *)
<1>11. ASSUME machine.state = "UpdateAvailable", machine' = RecordFailedDeploy(machine),
              UNCHANGED staged \/ \E r \in Releases : staged' = Locked(r),
              UNCHANGED <<denylist, booted, rebooting, conf, adminOps>>
       PROVE  Goal
  <2>1. NextBoot' \in {NextBoot, booted}
    BY <1>11 DEF NextBoot, Locked
  <2>2. \/ machine'.state = "NoNewUpdate"
        \/ machine'.state = "UpdateAvailable" /\ machine'.release = machine.release
    BY <1>1, <1>11, RecordFailedDeployValue DEF Plain
  <2>3. CASE machine'.state = "UpdateAvailable" /\ machine'.release = machine.release
    <3>1. CASE NextBoot' = NextBoot
      BY <1>11, <2>3, <3>1
    <3>2. CASE NextBoot' = booted
      <4>1. Abstract!Displaces
        BY <1>8, <1>11, <2>3, <3>2 DEF Abstract!Displaces, Phase
      <4> QED
        BY <4>1
    <3> QED
      BY <2>1, <3>1, <3>2
  <2> QED
    BY <1>10, <1>11, <2>1, <2>2, <2>3
<1>12. CASE DeployFails
  <2>1. machine.state = "UpdateAvailable" /\ machine.release \in Releases
    BY <1>1, <1>12 DEF DeployFails, Ticking, MachineTypeOK, Pursuing
  <2> QED
    BY <1>11, <1>12, <2>1 DEF DeployFails, StageDeploymentFails
<1>13. CASE StreamUnsure
  BY <1>1, <1>11, <1>13 DEF StreamUnsure, AwaitInv
<1>14. CASE AbandonInvalid
  <2>1. machine.state = "UpdateAvailable" /\ machine'.state = "NoNewUpdate"
    BY <1>1, <1>14 DEF AbandonInvalid, AwaitInv, ToUpdateAbandoned, Plain
  <2>2. NextBoot' \in {NextBoot, booted}
    BY <1>14 DEF AbandonInvalid, NextBoot
  <2> QED
    BY <1>10, <1>14, <2>1, <2>2 DEF AbandonInvalid
<1>15. CASE ConfirmValidStream
  <2>1. /\ machine.state = "UpdateAvailable" /\ machine.release \in StreamReleases
        /\ machine'.state = "UpdateStaged" /\ machine'.release = machine.release
        /\ UNCHANGED <<denylist, booted, rebooting, staged, conf, adminOps>>
    BY <1>1, <1>15 DEF ConfirmValidStream, AwaitInv, PendingIsTarget, OnCorrectStream,
       ToUpdateStaged
  <2>2. Abstract!Accepts
    BY <2>1 DEF Abstract!Accepts, Phase, NextBoot
  <2> QED
    BY <2>2
<1>16. ASSUME NEW sessions \in BOOLEAN, NEW override \in BOOLEAN,
              StrategyDenies \/ StrategyAllows(sessions, override)
       PROVE  Goal
  <2>1. /\ machine.state = "UpdateStaged"
        /\ UNCHANGED <<denylist, booted, rebooting, staged, conf, adminOps>>
    BY <1>16 DEF StrategyDenies, StrategyAllows, Ticking
  <2>2. machine'.state = "UpdateStaged" /\ machine'.release = machine.release
    BY <1>1, <1>16, <2>1, RecordPostponementValue
    DEF StrategyDenies, StrategyAllows, ToUpdateStaged
  <2> QED
    BY <2>1, <2>2 DEF NextBoot
<1>17. ASSUME machine.state = "UpdateStaged", FinalizeEffect(machine.release),
              \/ UNCHANGED machine
              \/ machine'.state = "UpdateFinalized",
              UNCHANGED <<denylist, booted, conf, adminOps>>
       PROVE  Goal
  <2>1. machine.release # NoRelease
    BY <1>1, <1>17 DEF MachineTypeOK, Pursuing
  <2>2. NextBoot' = machine.release /\ rebooting' = TRUE
    BY <1>17, <2>1 DEF FinalizeEffect, Unlocked, NextBoot
  <2>3. Abstract!Finalizes
    BY <1>17, <2>2 DEF Abstract!Finalizes, Phase
  <2> QED
    BY <2>3
<1>18. CASE FinalizeDeployment
  BY <1>1, <1>17, <1>18 DEF FinalizeDeployment, AwaitInv, ToUpdateFinalized
<1>19. CASE FinalizeFails
  BY <1>1, <1>2, <1>17, <1>19 DEF FinalizeFails, AwaitInv
<1>20. CASE TickEnd
  <2>1. /\ machine.state = "UpdateFinalized" /\ machine'.state = "EndState"
        /\ UNCHANGED <<denylist, booted, rebooting, staged, conf, adminOps>>
    BY <1>20 DEF TickEnd, Ticking, ToEndState, Plain
  <2> QED
    BY <2>1 DEF Phase, NextBoot
<1>21. CASE AgentNext
  BY <1>3, <1>4, <1>5, <1>6, <1>9, <1>12, <1>13, <1>14, <1>15, <1>16, <1>18, <1>19, <1>20,
     <1>21 DEF AgentNext
<1>22. CASE StartAgent
  <2>1. /\ machine.state = "StartState" /\ ~rebooting
        /\ conf'.allow_downgrade \in BOOLEAN
        /\ UNCHANGED <<machine, denylist, booted, rebooting, staged, adminOps>>
    BY <1>1, <1>22 DEF StartAgent, AwaitInv
  <2>2. Abstract!Reconfigured
    BY <2>1 DEF Abstract!Reconfigured, Phase, NextBoot
  <2> QED
    BY <2>2
<1>23. CASE AgentExits
  <2>1. /\ machine'.state = "StartState" /\ denylist' = {}
        /\ UNCHANGED <<booted, rebooting, staged, conf, adminOps>>
    BY <1>23 DEF AgentExits, FreshProcess, Plain
  <2>2. Abstract!Exits
    BY <2>1 DEF Abstract!Exits, Abstract!Forgets, Phase, NextBoot
  <2> QED
    BY <2>2
<1>24. CASE TransactionEnds
  <2>1. /\ ~rebooting /\ machine.state # "UpdateStaged"
        /\ UNCHANGED <<machine, denylist, booted, rebooting, conf, adminOps>>
    BY <1>1, <1>24 DEF TransactionEnds, HaltInv, SettledInv
  <2>2. CASE UNCHANGED staged
    BY <1>2, <2>1, <2>2
  <2>3. CASE staged' = Locked(transaction)
    <3>1. NextBoot' = booted
      BY <2>1, <2>3 DEF NextBoot, Locked
    <3>2. Phase[machine.state] # "ready"
      BY <1>1, <2>1 DEF MachineTypeOK, NoPanic, States, Phase
    <3>3. Abstract!Displaces
      BY <2>1, <3>1, <3>2 DEF Abstract!Displaces
    <3> QED
      BY <3>3
  <2> QED
    BY <1>24, <2>2, <2>3 DEF TransactionEnds
<1>25. ASSUME NEW r \in Releases, BootInto(r)
       PROVE  Abstract!Boots(r)
  <2>1. machine'.state = "StartState" /\ denylist' = {}
    BY <1>25 DEF BootInto, FreshProcess, Plain
  <2>2. booted' = r /\ rebooting' = FALSE /\ staged' = NoDeployment /\ UNCHANGED conf
    BY <1>25 DEF BootInto, FreshProcess
  <2>3. NextBoot' = r
    BY <2>2 DEF NextBoot
  <2> QED
    BY <2>1, <2>2, <2>3 DEF Abstract!Boots, Abstract!Forgets, Phase
<1>26. NextBoot \in Releases
  BY <1>1 DEF HostTypeOK, NextBoot
<1>27. CASE Reboot
  <2>1. rebooting /\ BootInto(NextBoot) /\ UNCHANGED adminOps
    BY <1>27 DEF Reboot
  <2>2. Abstract!Reboots
    BY <1>25, <1>26, <2>1 DEF Abstract!Reboots
  <2> QED
    BY <2>2
(* Others put another release in place, or reboot.                          *)
<1>28. ASSUME NextBoot' \in Releases, adminOps' = adminOps + 1,
              UNCHANGED <<booted, rebooting, machine, denylist, conf>>
       PROVE  Goal
  <2>1. Abstract!Intervenes(NextBoot')
    BY <1>28 DEF Abstract!Intervenes
  <2> QED
    BY <1>28, <2>1
<1>29. ASSUME NEW r \in Releases, BootInto(r), adminOps' = adminOps + 1
       PROVE  Goal
  <2>1. Abstract!Intervenes(r)
    BY <1>25, <1>29 DEF Abstract!Intervenes
  <2> QED
    BY <2>1
<1>30. ASSUME NEW r \in Releases, AdminStages(r)
       PROVE  Goal
  <2>1. NextBoot' = r
    BY <1>30 DEF AdminStages, Unlocked, NextBoot
  <2> QED
    BY <1>28, <1>30, <2>1 DEF AdminStages, AdminCommand
<1>31. CASE AdminCleansUp
  <2>1. NextBoot' = booted /\ booted \in Releases
    BY <1>1, <1>31 DEF AdminCleansUp, NextBoot, HostTypeOK
  <2> QED
    BY <1>28, <1>31, <2>1 DEF AdminCleansUp, AdminCommand
<1>32. CASE AdminReboots \/ AdminRollsBack
  <2>1. PICK r \in Releases : BootInto(r)
    BY <1>1, <1>26, <1>32 DEF AdminReboots, AdminRollsBack, HostTypeOK
  <2>2. adminOps' = adminOps + 1
    BY <1>32 DEF AdminReboots, AdminRollsBack, AdminCommand
  <2> QED
    BY <1>29, <2>1, <2>2
<1>33. CASE HostNext
  BY <1>22, <1>23, <1>24, <1>27, <1>30, <1>31, <1>32, <1>33 DEF HostNext
<1>34. CASE UNCHANGED vars
  BY <1>2, <1>34 DEF vars
<1> QED
  BY <1>21, <1>33, <1>34 DEF Next

(* The agent implements the updater: what its host comes up with is never   *)
(* its doing but by the finalization of a target that was validated.        *)
THEOREM Refinement == Spec => ImplementsUpdater
<1>1. (IInv /\ HaltInv) /\ [Next]_vars => [Abstract!Next]_(Abstract!updaterVars)
  BY StepRefines
<1> QED
  BY <1>1, InitRefines, Halting, PTL DEF Spec, ImplementsUpdater, Abstract!Spec
=============================================================================
