# Zincati in TLA+

A verification project for Zincati, the auto-update agent of Fedora CoreOS:
TLA+ models of the agent, of its client of rpm-ostree, of the fleet lock its
nodes share, of its walk of the update graph, of its reboot windows, and of how
its process starts and gets its settings; TLC runs that check them on small
instances; and theorems about them, for every size, with proofs checked by TLAPS.

Paths are those of the repository (`src/update_agent/actor.rs`, `docs/...`).
`PROJECT.json` maps each definition to the lines it models.

## 1. The system

| part | state it keeps | operations | modelled by |
|---|---|---|---|
| update agent, state machine (`update_agent/mod.rs`) | machine state with its counters, deny list | the transitions, with their `assert!`s | `UpdateAgent` |
| tick handlers (`update_agent/actor.rs`) | the write lock over the state, the next tick | `tick_initialize` ... `tick_end` | `UpdateAgent` |
| rpm-ostree client (`rpm_ostree/`) | status cache | register, query the local deployments and the pending one, stage, clean up, finalize | `RpmOstreeClient`; as steps of a tick in `UpdateAgent` |
| releases (`rpm_ostree/mod.rs`) | none | order, parsing of graph nodes | `Cincinnati` |
| Cincinnati (`cincinnati/`) | `DEADEND_STATE` | fetch the graph, find the update, refresh the dead-end record | `Cincinnati` |
| MOTD helper (`cli/deadend.rs`) | a file under /run | set, unset | `Cincinnati` |
| strategies (`strategy/`) | configuration | `can_finalize`, `report_steady` | `UpdateAgent` (any answer), `FleetLock`, `PeriodicStrategy` |
| FleetLock client (`fleet_lock/mod.rs`) | none | `pre_reboot`, `steady_state` | `FleetLock` |
| weekly calendar (`weekly/`) | windows | parse, contains, next window, remaining, length | `WeeklyCalendar`, `PeriodicStrategy` |
| configuration, identity (`config/`, `identity/`) | read once | scan, read, merge, validate | `Settings`, `AgentProcess` |
| process (`main.rs`, `cli/agent.rs`, `dist/`) | the metrics socket | start, SIGTERM handler, `zincati-update-now` | `AgentProcess`; `StartAgent` and `AgentExits` of the others |
| metrics, systemd notifications | none | bind the socket, READY; the rest is output | `AgentProcess` |
| D-Bus | none | reads | not modelled |

How they interact. One actor (`UpdateAgent`) runs one *tick* at a time. A tick
takes the write lock of the state, dispatches on the machine state, awaits
answers (of the rpm-ostree actor on its one thread, of the Cincinnati server, of
the lock manager), makes transitions, and schedules the next tick. All state is
in memory; what survives a restart of the agent is on the host (deployments, the
staged deployment, the MOTD until the reboot) and on the lock manager (the slot).

What is hard here is not parallelism inside the process, which the lock rules
out, but everything that happens *between and during* awaits: administrators
who use rpm-ostree, an agent that exits or reboots at any instant, commands that
take effect and whose answer is lost, servers that answer late or change their
mind. The hazards are listed, each at its line, in `PROJECT.json`.

What makes each part correct:
- agent: no transition panics; it only reboots into a release that was
  validated, that is not denied and no unwanted downgrade; it gives users their
  whole grace period; a release it cannot deploy does not hold it for ever; a
  good update is eventually booted.
- fleet: a node that reboots holds a slot until it is down; no slot is lost.
- rpm-ostree client: a target becomes a command that can be carried out, and
  ends up staged under its name and on the node's stream; no answer is stale;
  every request is answered.
- process: it runs with what the files say, it obeys `zincati-update-now`, and
  it gets ready again whatever made it fail.
- graph walk: the newest acceptable target, no return to a release that was
  left; dead-end record, MOTD and graph agree.
- reboot windows: what the calendar contains and reports is what was declared,
  around the end of the week and over overlaps; an update is only finalized
  within a window, and a window that is long enough is used.

## 2. The modules

### UpdateAgent and Updater
One node. `machine` is `UpdateAgentMachineState` as a record (the failed
attempts or the remaining postponements in `count`), `denylist` the deny list,
`pc` the await the running tick has reached, `conf` the two settings that change
what the agent does. The host is `booted`, `deployments` (the finalized ones),
`staged` (with its finalization lock), `rebooting`, and `transaction`: the deploy
that the rpm-ostree daemon still works on for an agent that has exited. Releases
are numbers in the order of `Release::cmp`.

Each transition of `update_agent/mod.rs` is an operator (`ToNoNewUpdate`,
`RecordFailedDeploy`, ...) that gives `Panicked` when the `assert!` or
`unreachable!` of the code fails. Each tick handler is split at its awaits,
because administrators, crashes and reboots come in between:

| handler | actions |
|---|---|
| `tick_initialize` | `TickInitialize` (registration), `Initialize(ok)` (query of the local deployments) |
| `tick_report_steady` | `TickReportSteady`, `SteadyRefused` |
| `tick_check_updates` | `TickCheckUpdates(offered)`: any offer; a failure is an empty offer |
| `tick_stage_update`, `confirm_valid_stream` | `AttemptDeploy`, `DeployFails`, then `ConfirmValidStream`, `RejectStream`, `StreamUnsure`, then `AbandonInvalid` |
| `tick_finalize_update` | `StrategyDenies`, `StrategyAllows(sessions, override)`, then `FinalizeDeployment`, `FinalizeFails` |
| `tick_end`, ticks in `EndState` | `TickEnd`, `TickIdle` |

A command and its answer are one step; a lost answer is the failing action with
the effect of the command (`StageDeploymentFails`, `FinalizeFails`). An agent
that exits during a deploy may leave its transaction running (`AgentExits`);
until `TransactionEnds`, which stages the release or not, other deploys are
refused. External: the host (`Reboot`, `BootInto`), and an administrator who
stages, cleans up, reboots, rolls back. Of the commands of rpm-ostree, the model
takes that finalization names a checksum (`cli_finalize.rs`), that a locked
deployment is not applied by a reboot, and that there is one staged deployment
at most.

`waited`, `forced`, `known`, `trusted` are history: only properties read them.

`Updater` is the abstract specification: the agent as its host sees it. `next` is
the release the host would come up with if it went down now (`NextBoot`). It is the
booted one, or what somebody else put there (`Intervenes`), until `Finalizes` makes
it the target, in one step with asking for the reboot. What the agent stages,
locked, can only displace what was staged before (`Displaces`), and not when a
target is ready or the reboot asked for. A target that is ready is kept until it is
finalized. `UpdateAgent` implements it with `ImplementsUpdater`; attempts,
postponements, awaits and transactions are not visible there.

### RpmOstreeClient
The actor of `rpm_ostree/actor.rs` and the host as rpm-ostree manages it.
`request` is the request the one thread of the actor works on and how far it is;
between two steps of a request other users of rpm-ostree may act. The actor is
modelled as the component it is and serves any request at any time, though the
agent asks for its local deployments once.

| request | actions |
|---|---|
| `RegisterAsDriver` | `RegisterSucceeds`, `RegisterFails`, `Wake` (the pause doubles up to a cap) |
| `QueryLocalDeployments` | `ReadMtime`, then `AnswerFromCache` or `AnswerFromStatus` |
| `StageDeployment` | `DecideStage` (a deploy, or a rebase and to which tag), then `DeploySucceeds`, `DeployFails` |
| `QueryPendingDeploymentStream`, `CleanupPendingDeployment`, `FinalizeDeployment` | `AnswerPending`, `CleanupSucceeds`, `FinalizeSucceeds` |
| any | `RequestFails` |

A payload is a checksum or the digest of an image in a repository, and the
origin of a deployment the tagged image it follows. The status override file of
the migration to OCI is fixed for a boot, and writing it does not change the
modification time that `get_status` compares. Of rpm-ostree the model takes that
it starts from the staged deployment if there is one, that it refuses a rebase to
the same origin and a deploy out of the repository (`Accepts`); what
`--disallow-downgrade` refuses is one of the ways `DeployFails`.
`slept`, `foreign`, `strayed` and `mine` are history.

### Settings and AgentProcess
`Settings` has no state: the scan of the directories (`Paths`), the merge of the
fragments (`MergeFragments`), their validation (`IsValid`), and what a valid
configuration becomes (`Validate`). A fragment is what its TOML sets.

`AgentProcess` is the process under systemd: `ScanDirs`, one `ReadNext` for each
file, `Assemble`, `BindSocket`, `NotifyReady`, with the way each fails;
`StartTimesOut`, `AutoRestarts`, `JobTerminates`, `JobEnds` as the unit
configures them; `zincati-update-now` in the three steps in which others may see
it (the fragment emptied, the fragment written, and, taken together, the file
that overrides the check for users and the restart). Files change between any
two steps, so that an agent may read a file that is gone, empty or of a later
generation. SIGTERM from anybody ends in the handler that exits with 0, which
systemd does not restart. A crash is possible once actors run. The exit code of
`SystemInoperable` is left out, since nothing constructs that error; so is
systemd's limit of starts, which `RestartSec=10s` keeps out of reach.

### FleetLock and RebootSlots
Any number of nodes, the lock manager (`holders`), and the calls between them.
`phase` keeps of each agent what the lock depends on. `call` is the request an
agent awaits. A call fails by an error answer (`RefuseCall`, `CallFailed`) or by
the client's timeout, a lost connection or the end of the process
(`CallTimesOut`, `AgentExits`); then the request may still be on its way and be
served later, possibly several times (`late`, `ServeLate`), for the operations in
`LateOps`. Locks are recursive: the manager grants a slot again to its holder.
`RebootSlots` is the abstract specification, a counting semaphore with owned
slots; `FleetLock` implements it with `owners <- holders, down <- rebooting`.

### Cincinnati
One node that polls: `find_update` (`FindUpdate` and the operators it is made
of) over a graph whose nodes may lack the metadata that
`Release::from_cincinnati` requires; a check in three steps, since the graph
that was fetched and the server's graph differ after the first (`FetchGraph`,
refresh of the dead-end record, `SelectUpdate`); `DEADEND_STATE` (lost when the
process ends), the MOTD (lost when the host reboots) and the helper, which may
fail to start or, if `HelperMayRefuse`, exit with an error. What `UpdateAgent`
does with the hint is reduced to three outcomes: booted, abandoned, abandoned
and denied. `past` holds the releases that were left since the last update with
downgrades allowed. The order of releases with equal age index is by payload:
versions, which are unique in a graph, come with it.

### WeeklyCalendar and PeriodicStrategy
`WeeklyCalendar` has no state: a window is a range of minutes of the week (its
end excluded, one more than the closing minute, as `range_weekly_minutes` has
it), and `ParseTimespan`, `ContainsMinute`, `NextWindowMinuteInWeek`,
`RemainingTo` and `LengthMinutes` are the functions of `weekly/mod.rs`. The week
has `7 * DayMinutes` minutes. Two facts the model makes plain: a window contains
its closing minute (so that it lasts a minute more than declared, except at the
end of the week), and `length_minutes` counts the one minute that two windows
leave between them. `CalendarIsRight` allows for both. `LengthMinutes` folds over
the windows in the order of their starts; which of two that start together comes
first is left open (`LatestStart`), and makes no difference.

`PeriodicStrategy` composes it with a clock and with the part of the agent that
asks `can_finalize`: `Start` and `StartFails` build the strategy from the
configuration, the four outcomes of `tick_finalize_update` are
`FinalizationDenied` (all postponements back, the long pause),
`FinalizationPostponed` (one used, a pause of one minute),
`FinalizationSucceeds` and `FinalizationFails`. `MinutePasses` waits for a tick
that is due; `ClockShifts` is the jump of the wall clock in the time zone, which
moves no timer. `held` is history. The other states of the agent are in
`UpdateAgent`, where the strategy may give any answer at any tick.

### MC modules
`MCUpdateAgent`, `MCRpmOstreeClient`, `MCAgentProcess`, `MCFleetLock`,
`MCCincinnati`, `MCPeriodicStrategy` only define values of constants.

## 3. The runs

| run | checks | instance |
|---|---|---|
| `UpdateAgent` | `TypeOK` `NoPanic` `GracePeriod` `BootedIsTrusted` `StagedIsSettled` `FinalizesSafely` `ImplementsUpdater` `TargetIsResolved` `StagedIsResolvedUndisturbed` `UpdateIsApplied` | 3 releases, 2 on the stream; limits 2; any configuration, changed by restarts; 1 exit, 2 administrator commands |
| `UpdateAgentStuckStaged` | `StagedIsResolvedOnceAllowed`, violated | 1 command, no exit |
| `RpmOstreeClient` | `TypeOK` `BackoffIsBounded` `DeployIsPossible` `StagedIsTarget` `AnswerIsFresh` `RequestIsAnswered` | 3 digests, one of another stream; 2 repositories; nodes that follow a commit, a stream or a version, with and without the migration; pauses capped at 3; a clock of 2 ticks; 1 exit or reboot, 1 command of somebody else |
| `AgentProcess` | `TypeOK` `SettingsFollowFiles` `UpdateNowIsObeyed` `AgentGetsReady` | 3 file names, the fragment of the script in the middle; 3 fragments and that of the distribution, masked and broken files; 2 interventions |
| `SettingsDocumentedOrder` | `DocumentedOrder`, violated | the same |
| `FleetLockSafety` | `TypeOK` `RebootHoldsSlot` `FleetStaysUp` `ImplementsRebootSlots` | 3 nodes, 2 slots, any node may be disabled, late pre-reboot requests, 2 exits |
| `FleetLockLiveness` | `SlotIsReleased` `FleetUpdates` | 2 nodes, 1 slot, 1 exit |
| `FleetLockLate` | `RebootHoldsSlot`, violated | late steady-state requests |
| `Cincinnati` | `TypeOK` `NeverReturns` `RecordIsShown` `CheckIsRight` `MotdFollowsGraph` | a stream of 3 releases, two with the same age, dead-ends and malformed nodes, edges back and out of range; the graph changes once, 1 exit, downgrades allowed or not |
| `CincinnatiHelperRefuses` | `MotdFollowsGraph`, violated | a helper that exits with an error |
| `PeriodicStrategy` | `TypeOK` `HeldBound` `CalendarIsRight` `FinalizesInWindow` `WindowIsUsed` | days of 2 minutes; 7 valid windows, alone and in pairs, and 6 configurations that are refused; pauses of 2 or 3 minutes, 2 postponements; 1 jump, 1 failure, 1 exit |
| `PeriodicTuesday` | `DocumentedConfigStarts`, violated | one window for each documented name of a day |

Deadlock is checked but in the runs of `AgentProcess`, where an administrator may
stop the service for good.

### Bounds, and why they are enough
- Three releases are the least with an old one, a good one and a newer one of
  the wrong stream: a rollback, a rejection and an update fit in one behaviour.
- `MaxDeployAttempts` (12 in the code) and `MaxPostponements` (10) are 2, so that
  the first, an intermediate and the last count all differ. The theorems hold
  for all values up to 255, the `u8` of the counters.
- One exit and two commands at any instant: each of the hazards listed for the
  agent needs no more than an exit at the wrong moment (which may leave a deploy
  running), or commands that stage something and then reboot, or undo it. The
  theorems hold for any number.
- In `RpmOstreeClient` two digests of the stream let an update be staged over
  another, a third leads it astray; two repositories tell a rebase from a deploy; a
  cap of 3 is passed by doubling (1, 2, 4); two ticks of the clock are a change
  within the tick of an answer and one after it.
- In `AgentProcess` three names are one before, one at and one after the script's;
  three fragments set the same directives, disjoint ones, and one that is not
  valid alone; two interventions break the configuration and repair it, or edit it
  before and after a read.
- In `Cincinnati` one change of the graph is enough for a check whose graph is
  no longer the server's and for a dead-end that comes or goes; the theorems are
  about any graph.
- Three nodes for two slots, two nodes for one: somebody always has to wait. The
  theorems hold for any number.
- `NodeSymmetry` is only used in the run without liveness; the fleet's actions
  and properties do not name a node.
- `late` is a set: a request may be served any number of times, so that several
  copies are no more than one.
- A day of two minutes gives a week of 14: windows that start within a day, end
  with the week, pass its end, last all of it, overlap, touch, or leave one
  minute between them, and runs of windows both shorter and longer than the 5
  minutes that `WindowIsUsed` asks for (with the constants of the code, 16: 6 of
  pause and 10 of grace). One minute less and TLC finds `WindowIsUsed` violated.

### Fairness
In `UpdateAgent`, `FairSpec`: the next tick is always scheduled (`RefreshTick`
ends in `tick_now` or `tick_later` on every path), systemd restarts a failed
agent (`Restart=on-failure` in `dist/systemd/system/zincati.service`), a reboot
that was asked for happens, and a transaction of rpm-ostree ends.
`TargetIsResolved` needs no more. The other two assume `EnvironmentFairness`: a
service that is asked again and again answers again and again (strong fairness
of each success); it does not say that it never fails.

`RpmOstreeClient`: the thread of the actor goes on with the request it has, and
of registrations that are asked for again and again one is accepted; nothing
makes a request of the agent. `AgentProcess`: the process and systemd take their
steps; reading rpm-ostree, binding the socket and the first tick may fail or take
too long, but not for ever (strong fairness of `Assemble`, `BindSocket` and
`NotifyReady`: the unit has `Restart=on-failure`, so that they are tried again);
nothing is assumed of the administrator, nor of when the script's next step is.

In `FleetLock` the grants are strongly fair: the lock manager has no queue, and
that a given node is never granted a slot is not excluded by anything in the
code, which is why `FleetUpdates` only promises progress of some node while
others keep updating. `SlotIsReleased` and `FleetUpdates` are about fleets whose
agents stay enabled (a disabled agent does not report steady and so keeps the
slot it held, `actor.rs:290`), and in which no *late* request is served: a late
pre-reboot takes a slot that its node gives back at its next steady-state
report.

In `PeriodicStrategy` minutes pass and a tick that is due happens; nothing is
assumed of users, who may be logged in at every tick. In `Cincinnati` the agent
polls, and a server and a helper that are asked again and again answer and start
again and again.

### What the violations show
- `UpdateAgentStuckStaged`: `UpdateStaged` has no way out but finalization.
  After `rpm-ostree cleanup -p` (or a deploy of something else) each attempt
  fails, is logged, and is made again (`actor.rs:400`), while the agent polls for
  no newer release. With fleet lock, the node holds a slot meanwhile.
- `FleetLockLate`: `/v1/steady-state` carries no token, so that one that its
  client gave up can be served after the node has locked its slot again. It needs
  a server that works on a request for longer than the client's timeout.
- `SettingsDocumentedOrder`: `docs/usage/configuration.md` lists the directories
  as /usr/lib, /etc, /run, the last one winning; `config/mod.rs:47` scans /run
  before /etc. `SettingsFollowFiles` holds for the order of the code.
- `CincinnatiHelperRefuses`: the exit status of the helper is not looked at.
- `PeriodicTuesday`: `weekday_from_string` has "tuesady"; a window on "Tuesday"
  stops the agent from starting, one on "Tue" does not.

## 4. The proofs

`UpdateAgentProofs`, `RpmOstreeClientProofs`, `RpmOstreeDeployProofs`, `CincinnatiProofs`,
`FleetLockProofs`, `WeeklyCalendarProofs`, `PeriodicStrategyProofs` and
`AgentProcessProofs`; tlapm checks every leaf. Every invariant that a run checks is
the property of a theorem there. They assume the `ASSUME`s of the modules:
releases are positive numbers, both limits fit in a `u8` and at least one attempt
is made, payloads are ordered, nodes and names of files are finitely many, the
names that stand for nothing are no names, a day has minutes, the longest pause is
no shorter than the shortest, and what the distribution installs under /usr/lib is,
for each name, absent, masked or a file that parses.

**UpdateAgent.** No invariant of interest is inductive alone. `IInv` adds
- `AwaitInv`: the await a tick resumes from tells its machine state. `NoPanic`
  needs it: the transitions after an await assert a state read before it.
- `PursuitInv`: the release pursued is not denied and no unwanted downgrade, is
  on the stream from `UpdateStaged` on, and the deployments known at the start
  are denied.
- `TrustInv`: an unlocked staged deployment is trusted or on the stream.
- `GraceInv`: postponements granted plus postponements left are the limit.
- `SettledInv`: from its own deploy on, an agent has no transaction of an earlier
  one beside it. `StagedIsSettled` alone does not hold over the awaits between
  the deploy and the validation.

One lemma per part shows that each step preserves it (`MachineStep`,
`AwaitStep`, `ProcessStep`, `HostStep`, `PursuitStep`, `TrustStep`, `GraceStep`,
`SettledStep`). From `Spec => []IInv` follow `TypeCorrect`, `NeverPanics`,
`GracePeriodGranted`, `TrustedBoot`, `SettledOnceStaged` and, with
`FinalizationTarget` (a step that sets `rebooting` is a finalization, which
names the checksum), the action property `SafeFinalization`. `Refinement` (each step
is a step of `Updater` or a stutter) needs one invariant more, `HaltInv`: once the
reboot is asked for, the agent is in a state that stages nothing, or down and not
started again, and no transaction is left.

**RpmOstreeClient.** `IInv` adds `IdentityInv` (the identity is that of a booted
deployment of the status, which no step but a reboot changes), `CacheInv` (what
is cached was read no earlier than the time it is cached under, and is the status
of now unless something has changed since or within the tick it was read in) and
`ActiveInv`. `AnswersAreFresh` is about a step; `CacheInv` is what a hit of the
cache needs. `BackoffBounded` takes that the pause doubles only below its cap.

`RpmOstreeDeployProofs` strengthens it further to `DInv`, for the deploys.
`DeployIsPossible` speaks of one request, but what makes it hold is what earlier
requests left on the host: `StagedInv` (a staged deployment is a container if and
only if the base, booted or pretended, is one, and on its stream unless the node
was led astray), `BaseInv` (the identity is that of the base; the override is only
there on a node that follows no container), `TargetInv`, and `CommandInv`, which
carries the decision over to the command. `StartingPoint` and `MergeOrigin` compare
the deployment that the client starts from with the one that rpm-ostree does;
`CommitIsPossible` and `ImageIsPossible` are the two kinds of targets. `MineInv` is
`StagedIsTarget` in terms of the base, which an exit of the process does not lose.
The proof needs that no tag for a version is the name of a stream.

**Cincinnati.** `TypeOK` is inductive, and so is, without a helper that refuses,
`RecordIsShown` (`RecordShown`). `CheckRight` rests on `FindUpdateRight`, for
every graph: the order of releases is total (`BeforeIsOrder`), so that a finite
set of positions has a newest one (`NewestExists`: the one with the fewest newer
than it, without induction), and the answer is that one. `NoReturn` has the
hypothesis that the graphs give a release the age it has (`AgesAgree(Age)`); its
invariant `ForwardInv(Age)` says that a hint is newer than the booted release
and the releases that were left are older.

**FleetLock.** `IInv` adds `SlotInv`: from the confirmation of the lock to the
end of the reboot the node holds a slot, and its agent is past the state that
reports steady; and `Capacity`: the slots suffice for the holders (from
`FiniteSetTheorems`). `SlotHeldOverReboot`, `MutualExclusion` and `Refinement`
(each step is a step of `RebootSlots` or a stutter) have the hypothesis that no
steady-state request is late; `FleetLockLate` shows that they need it.
`TypeCorrect` has none.

**WeeklyCalendar.** `LengthMinutes` is a fold, and what is said of one has to be
proved by induction over the windows. It is, without an induction theorem: of the
sets of windows for which it failed, one would have the fewest (`LeastNatural`, from
which `AllNaturals`), and the fold over it is a step from the set without its latest
window (`CoalescedIsFold`). What the induction carries is `CoalescedMeasures`:
the pending range spans from its start to the last end of all windows, and with
what was measured before accounts for the minutes they last (at least) and contain
(at most). `MeasuredLength` is the result. `NearestWindow` says that
`RemainingTo` and `NextWindowMinuteInWeek` find the nearest contained minute, over
the end of the week too. Both are about any set of windows of the week, finite
for the first, and not about those of a configuration only.

**PeriodicStrategy.** `IInv` adds `ScheduleInv` (a running agent has the schedule
of an accepted configuration) and `PaceInv`: minutes held plus minutes to the next
tick are at most the longest pause plus the postponements used up. `HeldBound`
alone says nothing of the tick to come. `WithinDeclared` rests on two lemmas about
`ParseTimespan`: its ranges end within the week, and each minute they contain
comes from the timespan, directly or from one week later. `CalendarRight` adds that
each declared minute is one that its range lasts (`TimespanLasts`), so that the two
theorems about the calendar are about the windows that were declared.

**AgentProcess.** `IInv` adds `ReadInv` (while no file changes, the fragments read and
the paths left are those of the files: `HasRead`), `LoadedInv` (the settings of a
process whose files have not changed are what these become) and `CommandInv` (after
`zincati-update-now` its fragment and override are there, and the process that its
restart leads to has looked for its files since). One lemma per kind of step
shows that it is kept, with `EndKeepsIInv`, `ChangeKeepsIInv` and `StartKeepsIInv` for
the three things many steps do: end the process, change a file, start one.

What the settings are is then a question about the scan and the merge.
`FoundIsVisits` unfolds the fold over the three directories; `FoundIsCounting`
says that it finds a name in the last directory that does not leave it alone;
`AscendingEnumerates` that the paths are all the names found, each once and in order;
`LastOfIsSays` that a directive has the value of the last file that sets it;
`WindowsAreOnDisk` that windows accumulate. `FilesAreFollowed` puts them together,
for any files. `ScriptIsObeyed` needs that nothing after the script's fragment
sets what it sets (`ScriptDecides`) and that the settings are those of files read
since (`CommandInv`).

**Only model-checked**: liveness (`TargetIsResolved`, `StagedIsResolvedUndisturbed`,
`UpdateIsApplied`, `RequestIsAnswered`, `AgentGetsReady`, `SlotIsReleased`,
`FleetUpdates`, `MotdFollowsGraph`, `WindowIsUsed`), since fairness and ENABLED are
beyond the prover. The induction theorems of its library cannot be instantiated
either; the two folds are reasoned about without them, as above. No module declares
a RECURSIVE operator.

## 5. Not modelled
Metrics, logging, status texts, D-Bus and command-line plumbing: no decision
reads them. The decoding of JSON and TOML, and of OCI references; a reference in
the graph that is not pinned to a digest, which panics the thread of the
rpm-ostree actor (`cli_deploy.rs:122`). Time, outside `PeriodicStrategy`:
elsewhere ticks only go on. The lookup of time zones, which are known or not. The
reading of basearch, platform and machine id from the host.

Hazards without a property are listed in `PROJECT.json` with the reason.

## 6. Plan
Done: `UpdateAgent`, `Updater`, `RpmOstreeClient`, `RebootSlots`, `FleetLock`, `Cincinnati`,
`WeeklyCalendar`, `PeriodicStrategy`, `Settings`, `AgentProcess`; proofs of every
invariant that the runs check. What is left, in order of importance:
1. The other delays of `refresh_delay` (steady polling, its jitter and the
   immediate ticks) and what they promise of the pace of checks.
2. The composition of `Updater` with `RebootSlots`: a fleet of hosts that only
   come up with something else while they own a slot.
