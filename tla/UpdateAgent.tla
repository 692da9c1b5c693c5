---------------------------- MODULE UpdateAgent ----------------------------
(***************************************************************************)
(* The update agent of one node: the state machine of update_agent/mod.rs, *)
(* the tick handlers of update_agent/actor.rs that drive it, and the host  *)
(* they act on through rpm-ostree, with the crashes of the agent and the   *)
(* administrators of the host that act while a tick waits.                 *)
(*                                                                         *)
(* A tick holds the write lock of the agent's state from its first line to *)
(* the end of its last await, so that no other tick, and no other handler, *)
(* changes that state in between: `pc' says which await a tick has reached *)
(* ("idle": no tick runs; "down": no agent process runs).  A command and   *)
(* its reply are one step here, because the agent neither reads nor writes *)
(* anything between them.  A lost reply is the failure of a command that   *)
(* took effect.                                                            *)
(***************************************************************************)
EXTENDS Integers, FiniteSets

CONSTANTS
  Releases,          \* every release there is, as its position in the order
                     \* of releases (age index, then version, then payload)
  StreamReleases,    \* those whose deployment carries the stream of the node
  MaxDeployAttempts, \* MAX_DEPLOY_ATTEMPTS (12)
  MaxPostponements,  \* MAX_FINALIZE_POSTPONEMENTS (10)
  Configs,           \* configurations the agent may be (re)started with
  MaxCrashes,        \* bound: exits of the agent in one behaviour
  MaxAdminOps        \* bound: administrator commands in one behaviour

ASSUME ReleasesAssumption ==
  /\ Releases \subseteq Nat \ {0}
  /\ StreamReleases \subseteq Releases
ASSUME LimitsAssumption ==
  /\ MaxDeployAttempts \in 1..255       \* both counters are u8
  /\ MaxPostponements \in 0..255
ASSUME ConfigsAssumption ==
  Configs \subseteq [enabled : BOOLEAN, allow_downgrade : BOOLEAN]
ASSUME BoundsAssumption == MaxCrashes \in Nat /\ MaxAdminOps \in Nat

NoRelease == 0

VARIABLES
  (* The agent process. *)
  machine,      \* UpdateAgentMachineState
  denylist,     \* releases never to update to
  pc,           \* the await the current tick has reached
  conf,         \* the configuration the process was started with
  (* The host, as rpm-ostree manages it. *)
  booted,       \* the booted release
  deployments,  \* the deployments on disk, the booted one among them
  staged,       \* the staged deployment, if any
  rebooting,    \* a finalization has asked for the reboot
  transaction,  \* the release that rpm-ostree still deploys for an agent
                \* that has exited meanwhile, if any
  (* History: what the properties speak of; no guard reads it. *)
  waited,       \* postponements since the update was staged or last denied
                \* (not counted beyond one too many)
  forced,       \* the finalization under way disregards logged-in users
  known,        \* the local deployments were read when the agent started
  trusted,      \* releases that somebody other than the agent installed
  (* Bounds. *)
  crashes, adminOps

agentVars == <<machine, denylist, pc, conf>>
hostVars == <<booted, deployments, staged, rebooting, transaction>>
historyVars == <<waited, forced, known, trusted>>
boundVars == <<crashes, adminOps>>
vars == <<agentVars, hostVars, historyVars, boundVars>>

-----------------------------------------------------------------------------
(* The state machine. A transition whose assert! or unreachable! fails      *)
(* panics.                                                                  *)

States == {"StartState", "Initialized", "ReportedSteady", "NoNewUpdate",
           "UpdateAvailable", "UpdateStaged", "UpdateFinalized", "EndState"}

Plain(s) == [state |-> s, release |-> NoRelease, count |-> 0]
Panicked == Plain("Panicked")
Asserting(m, allowed, target) == IF m.state \in allowed THEN target ELSE Panicked

ToInitialized(m) == Asserting(m, {"StartState"}, Plain("Initialized"))
ToReportedSteady(m) == Asserting(m, {"Initialized"}, Plain("ReportedSteady"))
\* Mutant: the second of two checks without an update is forgotten.
ToNoNewUpdateOnce(m) == Asserting(m, {"ReportedSteady"}, Plain("NoNewUpdate"))

ToNoNewUpdate(m) ==
  Asserting(m, {"ReportedSteady", "NoNewUpdate"}, Plain("NoNewUpdate"))
ToUpdateAvailable(m, r) ==
  Asserting(m, {"ReportedSteady", "NoNewUpdate"},
            [state |-> "UpdateAvailable", release |-> r, count |-> 0])
ToUpdateAbandoned == Plain("NoNewUpdate")
ToUpdateStaged(r) ==
  [state |-> "UpdateStaged", release |-> r, count |-> MaxPostponements]
ToUpdateFinalized(r) ==
  [state |-> "UpdateFinalized", release |-> r, count |-> 0]
ToEndState == Plain("EndState")

(* count: failed deploy attempts in UpdateAvailable, postponements that     *)
(* remain in UpdateStaged.                                                  *)
(* Mutants: one attempt too many; failures that are not counted.            *)
RecordFailedDeployLate(m) ==
  Asserting(m, {"UpdateAvailable"},
            IF m.count + 1 > MaxDeployAttempts
            THEN ToUpdateAbandoned
            ELSE [m EXCEPT !.count = @ + 1])

RecordFailedDeployNever(m) == Asserting(m, {"UpdateAvailable"}, m)

RecordFailedDeploy(m) ==
  Asserting(m, {"UpdateAvailable"},
            IF m.count + 1 >= MaxDeployAttempts
            THEN ToUpdateAbandoned
            ELSE [m EXCEPT !.count = @ + 1])

\* Mutant: the last postponement starts the grace period over.
RecordPostponementStartsOver(m) ==
  Asserting(m, {"UpdateStaged"},
            [m EXCEPT !.count = IF @ <= 1 THEN MaxPostponements ELSE @ - 1])

RecordPostponement(m) ==
  Asserting(m, {"UpdateStaged"},
            [m EXCEPT !.count = IF @ = 0 THEN 0 ELSE @ - 1])

(* The grace period of logged-in users; a failure to list the sessions      *)
(* counts as no session.                                                    *)
\* Mutant: off by one.
UsersessionsCanFinalizeEarly(m, sessions, override) ==
  ~sessions \/ override \/ m.count <= 1

UsersessionsCanFinalize(m, sessions, override) ==
  ~sessions \/ override \/ m.count = 0

-----------------------------------------------------------------------------
(* The host.                                                                *)

NoDeployment == [release |-> NoRelease, locked |-> FALSE]
\* Mutant: deploy without --lock-finalization.
DeployedUnlocked(r) == [release |-> r, locked |-> FALSE]
Locked(r) == [release |-> r, locked |-> TRUE]
Unlocked(r) == [release |-> r, locked |-> FALSE]

(* Target of an update check, as a set of at most one release: the newest   *)
(* of the offered releases that are not denied, unless it is a downgrade.   *)
FindUpdate(offered) ==
  {r \in offered \ denylist :
     /\ \A o \in offered \ denylist : o <= r
     /\ r > booted \/ conf.allow_downgrade}

FreshProcess ==
  /\ machine' = Plain("StartState")
  /\ denylist' = {}
  /\ pc' = "down"
  /\ waited' = 0
  /\ forced' = FALSE
  /\ known' = FALSE
  /\ UNCHANGED conf

(* The host comes up again on release r. /run is gone, and with it what was *)
(* staged: r was written to disk while the host went down.                  *)
BootInto(r) ==
  /\ booted' = r
  /\ deployments' = IF r \in deployments THEN deployments ELSE {booted, r}
  /\ staged' = NoDeployment
  /\ rebooting' = FALSE
  /\ transaction' = NoRelease
  /\ FreshProcess
  /\ UNCHANGED trusted

(* A staged deployment is applied on the way down, unless it is locked.     *)
NextBoot ==
  IF staged = NoDeployment \/ staged.locked THEN booted ELSE staged.release

-----------------------------------------------------------------------------
Init ==
  /\ machine = Plain("StartState")
  /\ denylist = {}
  /\ pc = "idle"
  /\ conf \in Configs
  /\ booted \in Releases
  /\ \E other \in Releases : deployments = {booted, other}
  /\ staged = NoDeployment
  /\ rebooting = FALSE
  /\ transaction = NoRelease
  /\ waited = 0
  /\ forced = FALSE
  /\ known = FALSE
  /\ trusted = deployments
  /\ crashes = 0
  /\ adminOps = 0

Ticking(s) == pc = "idle" /\ machine.state = s

(* StartState: register as the update driver (retried until it succeeds;    *)
(* only if enabled), then ask for the local deployments.                    *)
TickInitialize ==
  /\ Ticking("StartState")
  /\ pc' = "query_local"
  /\ UNCHANGED <<machine, denylist, conf, hostVars, historyVars, boundVars>>

Initialize(ok) ==
  /\ pc = "query_local"
  /\ denylist' = IF ok THEN deployments ELSE denylist
  /\ known' = ok
  /\ machine' = IF conf.enabled THEN ToInitialized(machine) ELSE ToEndState
  /\ pc' = "idle"
  /\ UNCHANGED <<conf, hostVars, waited, forced, trusted, boundVars>>

(* Initialized: stay there until the strategy confirms the steady state.    *)
TickReportSteady ==
  /\ Ticking("Initialized")
  /\ machine' = ToReportedSteady(machine)
  /\ UNCHANGED <<denylist, pc, conf, hostVars, historyVars, boundVars>>

SteadyRefused ==
  /\ Ticking("Initialized")
  /\ UNCHANGED vars

(* ReportedSteady, NoNewUpdate: a failed check is a check with no offer.    *)
TickCheckUpdates(offered) ==
  /\ Ticking("ReportedSteady") \/ Ticking("NoNewUpdate")
  /\ \/ \E r \in FindUpdate(offered) : machine' = ToUpdateAvailable(machine, r)
     \/ FindUpdate(offered) = {} /\ machine' = ToNoNewUpdate(machine)
  /\ UNCHANGED <<denylist, pc, conf, hostVars, historyVars, boundVars>>

(* UpdateAvailable: deploy the release, finalization locked. rpm-ostree      *)
(* refuses while it still works on the deploy of an earlier agent.          *)
AttemptDeploy ==
  /\ Ticking("UpdateAvailable")
  /\ transaction = NoRelease
  /\ staged' = Locked(machine.release)
  /\ pc' = "query_pending"
  /\ UNCHANGED <<machine, denylist, conf, booted, deployments, rebooting,
                 transaction, historyVars, boundVars>>

(* The request may fail before or after rpm-ostree has staged the release.  *)
StageDeploymentFails ==
  staged' \in {staged} \union
    (IF transaction = NoRelease THEN {Locked(machine.release)} ELSE {})

(* Mutant: the deployment that is staged counts, also if the deploy failed. *)
DeployFailsUnnoticed ==
  /\ Ticking("UpdateAvailable")
  /\ StageDeploymentFails
  /\ pc' = "query_pending"
  /\ UNCHANGED <<machine, denylist, conf, booted, deployments, rebooting,
                 transaction, historyVars, boundVars>>

DeployFails ==
  /\ Ticking("UpdateAvailable")
  /\ StageDeploymentFails
  /\ machine' = RecordFailedDeploy(machine)
  /\ UNCHANGED <<denylist, pc, conf, booted, deployments, rebooting,
                 transaction, historyVars, boundVars>>

(* ... then look at what is staged now: the release, on the right stream?   *)
PendingIsTarget == staged.release = machine.release
OnCorrectStream == staged.release \in StreamReleases

ConfirmValidStream ==
  /\ pc = "query_pending"
  /\ PendingIsTarget
  /\ OnCorrectStream
  /\ machine' = ToUpdateStaged(machine.release)
  /\ waited' = 0
  /\ pc' = "idle"
  /\ UNCHANGED <<denylist, conf, hostVars, forced, known, trusted, boundVars>>

RejectStream ==
  /\ pc = "query_pending"
  /\ PendingIsTarget
  /\ ~OnCorrectStream
  /\ pc' = "cleanup"
  /\ UNCHANGED <<machine, denylist, conf, hostVars, historyVars, boundVars>>

(* Nothing staged, another release staged, or a query that failed.          *)
StreamUnsure ==
  /\ pc = "query_pending"
  /\ machine' = RecordFailedDeploy(machine)
  /\ pc' = "idle"
  /\ UNCHANGED <<denylist, conf, hostVars, historyVars, boundVars>>

(* Mutant: the invalid release is abandoned but not denied.                 *)
AbandonInvalidUndenied ==
  /\ pc = "cleanup"
  /\ staged' \in {staged, NoDeployment}
  /\ machine' = ToUpdateAbandoned
  /\ pc' = "idle"
  /\ UNCHANGED <<denylist, conf, booted, deployments, rebooting, transaction,
                 historyVars, boundVars>>

(* The cleanup drops whatever is staged; when it fails it is only logged.   *)
AbandonInvalid ==
  /\ pc = "cleanup"
  /\ staged' \in {staged, NoDeployment}
  /\ denylist' = denylist \union {machine.release}
  /\ machine' = ToUpdateAbandoned
  /\ pc' = "idle"
  /\ UNCHANGED <<conf, booted, deployments, rebooting, transaction,
                 historyVars, boundVars>>

(* UpdateStaged: the strategy decides, then the users, then rpm-ostree.     *)
StrategyDenies ==
  /\ Ticking("UpdateStaged")
  /\ machine' = ToUpdateStaged(machine.release)
  /\ waited' = 0
  /\ UNCHANGED <<denylist, pc, conf, hostVars, forced, known, trusted, boundVars>>

StrategyAllows(sessions, override) ==
  /\ Ticking("UpdateStaged")
  /\ \/ /\ UsersessionsCanFinalize(machine, sessions, override)
        /\ pc' = "finalize"
        /\ forced' = (sessions /\ ~override)
        /\ UNCHANGED <<machine, waited>>
     \/ /\ ~UsersessionsCanFinalize(machine, sessions, override)
        /\ machine' = RecordPostponement(machine)
        /\ waited' = IF waited > MaxPostponements THEN waited ELSE waited + 1
        /\ UNCHANGED <<pc, forced>>
  /\ UNCHANGED <<denylist, conf, hostVars, known, trusted, boundVars>>

\* Mutant: finalize whatever is staged, without naming the checksum.
FinalizeAnything(r) ==
  /\ staged # NoDeployment
  /\ staged' = Unlocked(staged.release)
  /\ rebooting' = TRUE

(* `rpm-ostree finalize-deployment <checksum>' unlocks the staged           *)
(* deployment if it is the one with that checksum, and reboots.             *)
FinalizeEffect(r) ==
  /\ staged.release = r
  /\ staged' = Unlocked(r)
  /\ rebooting' = TRUE

FinalizeDeployment ==
  /\ pc = "finalize"
  /\ FinalizeEffect(machine.release)
  /\ machine' = ToUpdateFinalized(machine.release)
  /\ pc' = "idle"
  /\ forced' = FALSE
  /\ UNCHANGED <<denylist, conf, booted, deployments, transaction, waited,
                 known, trusted, boundVars>>

(* Mutant: a finalization that failed is given up, though the reboot that   *)
(* it asked for may be under way.                                           *)
FinalizeFailsGivesUp ==
  /\ pc = "finalize"
  /\ FinalizeEffect(machine.release) \/ UNCHANGED <<staged, rebooting>>
  /\ machine' = ToUpdateAbandoned
  /\ pc' = "idle"
  /\ forced' = FALSE
  /\ UNCHANGED <<denylist, conf, booted, deployments, transaction, waited,
                 known, trusted, boundVars>>

FinalizeFails ==
  /\ pc = "finalize"
  /\ FinalizeEffect(machine.release) \/ UNCHANGED <<staged, rebooting>>
  /\ pc' = "idle"
  /\ forced' = FALSE
  /\ UNCHANGED <<machine, denylist, conf, booted, deployments, transaction,
                 waited, known, trusted, boundVars>>

(* UpdateFinalized: the job is done.  EndState: ticks do nothing.           *)
TickEnd ==
  /\ Ticking("UpdateFinalized")
  /\ machine' = ToEndState
  /\ UNCHANGED <<denylist, pc, conf, hostVars, historyVars, boundVars>>

TickIdle ==
  /\ Ticking("EndState")
  /\ UNCHANGED vars

-----------------------------------------------------------------------------
(* The process and its host.                                                *)

(* systemd restarts the agent, but starts no unit while it shuts down.      *)
StartAgent ==
  /\ pc = "down"
  /\ ~rebooting
  /\ pc' = "idle"
  /\ conf' \in Configs
  /\ UNCHANGED <<machine, denylist, hostVars, historyVars, boundVars>>

(* A failure or a restart: the handler of SIGTERM exits at any instant. (An *)
(* agent that is stopped stays down until somebody starts it: fairness of   *)
(* StartAgent is for the others, Restart=on-failure.)  A deploy it waits    *)
(* for goes on in the rpm-ostree daemon.                                    *)
AgentExits ==
  /\ pc # "down"
  /\ crashes < MaxCrashes
  /\ crashes' = crashes + 1
  /\ transaction' \in {transaction} \union
       (IF Ticking("UpdateAvailable") /\ transaction = NoRelease
        THEN {machine.release} ELSE {})
  /\ FreshProcess
  /\ UNCHANGED <<booted, deployments, staged, rebooting, trusted, adminOps>>

(* ... and stages its release, or fails, when nobody waits for it any more. *)
TransactionEnds ==
  /\ transaction # NoRelease
  /\ staged' \in {staged, Locked(transaction)}
  /\ transaction' = NoRelease
  /\ UNCHANGED <<agentVars, booted, deployments, rebooting, historyVars, boundVars>>

Reboot ==
  /\ rebooting
  /\ BootInto(NextBoot)
  /\ UNCHANGED boundVars

AdminCommand ==
  /\ adminOps < MaxAdminOps
  /\ adminOps' = adminOps + 1
  /\ UNCHANGED crashes

AdminStages(r) ==
  /\ AdminCommand
  /\ r # booted
  /\ transaction = NoRelease
  /\ staged' = Unlocked(r)
  /\ trusted' = trusted \union {r}
  /\ UNCHANGED <<agentVars, booted, deployments, rebooting, transaction, waited,
                 forced, known>>

AdminCleansUp ==
  /\ AdminCommand
  /\ staged # NoDeployment
  /\ transaction = NoRelease
  /\ staged' = NoDeployment
  /\ UNCHANGED <<agentVars, booted, deployments, rebooting, transaction,
                 historyVars>>

AdminReboots == AdminCommand /\ BootInto(NextBoot)

AdminRollsBack == AdminCommand /\ \E r \in deployments \ {booted} : BootInto(r)

-----------------------------------------------------------------------------
AgentNext ==
  \/ TickInitialize
  \/ \E ok \in BOOLEAN : Initialize(ok)
  \/ TickReportSteady \/ SteadyRefused
  \/ \E offered \in SUBSET Releases : TickCheckUpdates(offered)
  \/ AttemptDeploy \/ DeployFails
  \/ ConfirmValidStream \/ RejectStream \/ StreamUnsure \/ AbandonInvalid
  \/ StrategyDenies
  \/ \E sessions, override \in BOOLEAN : StrategyAllows(sessions, override)
  \/ FinalizeDeployment \/ FinalizeFails
  \/ TickEnd \/ TickIdle

HostNext ==
  \/ StartAgent \/ AgentExits \/ TransactionEnds \/ Reboot
  \/ \E r \in Releases : AdminStages(r)
  \/ AdminCleansUp \/ AdminReboots \/ AdminRollsBack

Next == AgentNext \/ HostNext

Spec == Init /\ [][Next]_vars

(* The next tick is always scheduled, systemd restarts the agent, a         *)
(* requested reboot happens and a deploy ends.                              *)
FairSpec ==
  /\ Spec
  /\ WF_vars(AgentNext)
  /\ WF_vars(StartAgent)
  /\ WF_vars(Reboot)
  /\ WF_vars(TransactionEnds)

(* What may fail (the lock manager, the update server, rpm-ostree) succeeds *)
(* again and again if it is asked again and again: not a part of the        *)
(* specification, but what some of its properties have to assume.           *)
EnvironmentFairness ==
  /\ SF_vars(TickReportSteady)
  /\ SF_vars(TickCheckUpdates(Releases))
  /\ SF_vars(AttemptDeploy)
  /\ SF_vars(ConfirmValidStream \/ RejectStream)
  /\ SF_vars(\E sessions, override \in BOOLEAN :
                StrategyAllows(sessions, override))
  /\ SF_vars(FinalizeDeployment)

-----------------------------------------------------------------------------
(* Properties.                                                              *)

Pursuing ==
  machine.state \in {"UpdateAvailable", "UpdateStaged", "UpdateFinalized"}

(* Every variable has its type; the failure counter stays below the limit   *)
(* at which record_failed_deploy abandons, the postponements below theirs.  *)
MachineTypeOK ==
  /\ machine \in [state : States \union {"Panicked"},
                  release : Releases \union {NoRelease}, count : 0..255]
  /\ Pursuing <=> machine.release # NoRelease
  /\ machine.state = "UpdateAvailable" => machine.count < MaxDeployAttempts
  /\ machine.state = "UpdateStaged" => machine.count <= MaxPostponements

ProcessTypeOK ==
  /\ denylist \subseteq Releases
  /\ pc \in {"idle", "down", "query_local", "query_pending", "cleanup", "finalize"}
  /\ conf \in Configs
  /\ waited \in Nat /\ forced \in BOOLEAN /\ known \in BOOLEAN

HostTypeOK ==
  /\ booted \in Releases
  /\ deployments \subseteq Releases
  /\ staged \in [release : Releases \union {NoRelease}, locked : BOOLEAN]
  /\ staged.release = NoRelease => ~staged.locked
  /\ rebooting \in BOOLEAN
  /\ transaction \in Releases \union {NoRelease}
  /\ trusted \subseteq Releases
  /\ crashes \in 0..MaxCrashes /\ adminOps \in 0..MaxAdminOps

TypeOK == MachineTypeOK /\ ProcessTypeOK /\ HostTypeOK

(* No tick ever runs into an assert! or unreachable! of the state machine:  *)
(* whatever awaits fail, the state it finds at its end is one it may leave. *)
NoPanic == machine.state # "Panicked"

(* By the time an update counts as staged, no deploy that an earlier agent  *)
(* left running can end and replace what was validated.                     *)
StagedIsSettled == machine.state = "UpdateStaged" => transaction = NoRelease

(* Logged-in users are disregarded only once they were granted the whole    *)
(* grace period, every postponement of it since the update was staged or    *)
(* the strategy last said no; and never granted more than that.             *)
GracePeriod ==
  /\ forced => waited = MaxPostponements
  /\ waited <= MaxPostponements

(* Whatever the node is booted into was put there by somebody else, or was  *)
(* deployed by the agent and found to be on the node's stream: a deployment *)
(* that was never validated, or was rejected and could not be cleaned up,   *)
(* is not applied by a reboot that somebody else asks for.                  *)
BootedIsTrusted == booted \in StreamReleases \union trusted

(* The release a finalization reboots into is on the node's stream, is not  *)
(* denied, is no downgrade unless those are allowed, and is no deployment   *)
(* the node has had on disk (the one it was rolled back from, say) unless   *)
(* the agent failed to read them.  It was validated when it was staged; by  *)
(* now somebody else may have staged anything in its place.                 *)
FinalizesSafely ==
  [][(~rebooting /\ rebooting') =>
       LET r == NextBoot' IN
         /\ r \in StreamReleases
         /\ r \notin denylist
         /\ r > booted \/ conf.allow_downgrade
         /\ known => r \notin deployments]_vars

(* Seen from the host, the agent is an updater: it only ever changes what   *)
(* the host comes up with by a finalization of its validated target, which  *)
(* it keeps once it is staged, whatever fails, exits or outlives it (and    *)
(* what others stage in its place they answer for).                         *)
Phase ==
  [StartState |-> "starting", Initialized |-> "searching",
   ReportedSteady |-> "searching", NoNewUpdate |-> "searching",
   UpdateAvailable |-> "pursuing", UpdateStaged |-> "ready",
   UpdateFinalized |-> "done", EndState |-> "done", Panicked |-> "panicked"]

Abstract == INSTANCE Updater WITH
  Acceptable <- StreamReleases,
  next <- NextBoot,
  phase <- Phase[machine.state],
  target <- IF machine.state \in {"UpdateAvailable", "UpdateStaged"}
            THEN machine.release ELSE NoRelease,
  refused <- denylist,
  downgrades <- conf.allow_downgrade,
  interventions <- adminOps
ImplementsUpdater == Abstract!Spec

(* A target that cannot be deployed does not hold the agent forever: after  *)
(* a bounded number of attempts it polls again, whatever fails.             *)
TargetIsResolved ==
  (machine.state = "UpdateAvailable") ~> (machine.state # "UpdateAvailable")

(* A staged update is, in the end, finalized (or its process is gone), also *)
(* with users that never log out.                                           *)
StagedIsResolved ==
  (machine.state = "UpdateStaged") ~> (machine.state # "UpdateStaged")

(* The same, if services answer again and again, and the strategy only      *)
(* denies finitely often (a denial gives users their grace period back).    *)
StagedIsResolvedOnceAllowed ==
  EnvironmentFairness /\ <>[][~StrategyDenies]_vars => StagedIsResolved

(* ... and nobody else touches the deployments of the node.                 *)
Undisturbed == adminOps = 0
StagedIsResolvedUndisturbed == []Undisturbed => StagedIsResolvedOnceAllowed

(* If the server keeps offering all releases, a node not yet on the newest  *)
(* release of its stream, and that has never had it, gets to boot it:       *)
(* through failed deployments, crashes, deploys that outlive their agent,   *)
(* and newer releases of other streams that it has to reject first.  (With  *)
(* downgrades an offer of an older release may send it to and fro.)         *)
UpdateIsApplied ==
  \A r \in StreamReleases :
    (\A s \in StreamReleases : s <= r) =>
      ((/\ EnvironmentFairness
        /\ <>[][~StrategyDenies]_vars
        /\ [](Undisturbed /\ conf.enabled /\ ~conf.allow_downgrade)) =>
         ((r > booted /\ r \notin deployments) ~> (booted = r)))
=============================================================================
