---------------------------- MODULE AgentProcess ----------------------------
(***************************************************************************)
(* The life of the agent's process (main.rs, cli/agent.rs) under the       *)
(* service manager: it reads the fragments of configuration one by one     *)
(* while others edit them, validates them, sets up its sockets and actors, *)
(* and tells the service manager when it is ready.  Failures, crashes,     *)
(* terminations, a start that takes too long, reboots, and the script      *)
(* zincati-update-now, which writes a fragment and restarts the service.   *)
(*                                                                         *)
(* The process is what reads its settings; what it then does with them is  *)
(* in UpdateAgent and the modules of the strategies.                       *)
(***************************************************************************)
EXTENDS Settings

CONSTANTS
  Fragments,       \* what the administrator's fragments may say
  UpdateNowName,   \* the name of the fragment zincati-update-now writes
  DistConfig,      \* what the OS has in /usr/lib: an entry for each name
  MaxInterventions \* bound: edits of the configuration, commands to the
                   \* service and reboots by the administrator

ASSUME DistAssumption ==
  /\ UpdateNowName \in FileNames
  /\ DistConfig = [n \in FileNames |-> DistConfig[n]]
  /\ \A n \in FileNames :
       DistConfig[n] \in {Absent, Masked} \/ DistConfig[n] = File(DistConfig[n].fragment)
ASSUME InterventionsAssumption == MaxInterventions \in Nat

VARIABLES
  disk,       \* the entry of each name in each directory of configuration
  socket,     \* the file of the metrics socket exists
  override,   \* the file that overrides the check for logged-in users exists
  (* The process. *)
  pc,         \* what it does; "none": there is no process
  paths,      \* the files it has found and not yet read
  fragments,  \* the fragments it has read
  settings,   \* its settings, once it has validated them
  (* The service manager. *)
  unit,       \* the state of the service: "dead", "active", "auto-restart"
  job,        \* what it was told to do: "none", "restart" or "stop"
  script,     \* the last step zincati-update-now has taken
  (* History. *)
  wanted,     \* nobody has stopped the service
  fresh,      \* no file has changed since the process looked for them
  commanded,  \* zincati-update-now has run to its end, and no file has
              \* changed since
  (* Bounds. *)
  interventions

fileVars == <<disk, socket, override>>
processVars == <<pc, paths, fragments, settings>>
vars == <<fileVars, processVars, unit, job, script, wanted, fresh, commanded,
          interventions>>

NoSettings == [loaded |-> FALSE]
Empty == Fragment(<<>>, {})
UpdateNow ==
  Fragment([d \in {"rollout_wariness", "strategy"} |->
              IF d = "strategy" THEN "immediate" ELSE {0}], {})

AdminEntries == {Absent, Masked, Broken} \union {File(f) : f \in Fragments}
DistEntries == Range(DistConfig)
Entries == AdminEntries \union DistEntries \union {File(Empty), File(UpdateNow)}

Phases == {"none", "started", "reading", "binding", "initializing", "ready"}
Loaded == {"binding", "initializing", "ready"}

-----------------------------------------------------------------------------
NoProcess ==
  /\ pc' = "none" /\ paths' = <<>> /\ fragments' = <<>> /\ settings' = NoSettings

(* How a process ends, as the service manager sees it: Restart=on-failure.  *)
ExitsFailure ==
  /\ NoProcess
  /\ unit' = "auto-restart"

ExitsSuccess ==
  /\ NoProcess
  /\ unit' = "dead"

StartsProcess ==
  /\ pc' = "started"
  /\ unit' = "active"
  /\ UNCHANGED <<paths, fragments, settings>>

Init ==
  /\ disk = [d \in Dirs |-> IF d = "/usr/lib" THEN DistConfig
                             ELSE [n \in FileNames |-> Absent]]
  /\ socket = FALSE /\ override = FALSE
  /\ pc = "none" /\ paths = <<>> /\ fragments = <<>> /\ settings = NoSettings
  /\ unit = "dead" /\ job = "restart" /\ script = "idle"
  /\ wanted = TRUE /\ fresh = FALSE /\ commanded = FALSE
  /\ interventions = 0

Unsupervised == UNCHANGED <<fileVars, job, script, wanted, commanded, interventions>>

(* The files are listed once, and read one after the other.                 *)
ScanDirs ==
  /\ pc = "started"
  /\ pc' = "reading"
  /\ paths' = Paths(disk)
  /\ fresh' = TRUE
  /\ UNCHANGED <<fragments, settings, unit>>
  /\ Unsupervised

ReadNext ==
  /\ pc = "reading" /\ paths # <<>>
  /\ LET entry == disk[Head(paths).dir][Head(paths).name]
     IN \/ /\ entry.kind = "file"
           /\ fragments' = Append(fragments, entry.fragment)
           /\ paths' = Tail(paths)
           /\ UNCHANGED <<pc, settings, unit>>
        \/ (* What is now a link to /dev/null reads as an empty file. *)
           /\ entry.kind = "masked"
           /\ fragments' = Append(fragments, Empty)
           /\ paths' = Tail(paths)
           /\ UNCHANGED <<pc, settings, unit>>
        \/ (* It is gone, or does not parse. *)
           /\ entry.kind \in {"absent", "broken"}
           /\ ExitsFailure
  /\ UNCHANGED fresh
  /\ Unsupervised

(* Validation asks rpm-ostree for the booted deployment, which may fail.    *)
AssembleFails ==
  /\ pc = "reading" /\ paths = <<>>
  /\ ExitsFailure
  /\ UNCHANGED fresh
  /\ Unsupervised

Assemble ==
  /\ pc = "reading" /\ paths = <<>>
  /\ LET cfg == MergeFragments(fragments)
     IN IF IsValid(cfg)
        THEN /\ settings' = Validate(cfg)
             /\ fragments' = <<>>
             /\ pc' = "binding"
             /\ UNCHANGED <<paths, unit>>
        ELSE ExitsFailure
  /\ UNCHANGED fresh
  /\ Unsupervised

(* Mutant: the socket that an earlier agent left behind is in the way.      *)
BindSocketOnce ==
  /\ pc = "binding"
  /\ IF socket
     THEN ExitsFailure /\ UNCHANGED socket
     ELSE /\ socket' = TRUE
          /\ pc' = "initializing"
          /\ UNCHANGED <<paths, fragments, settings, unit>>
  /\ UNCHANGED <<disk, override, job, script, wanted, fresh, commanded, interventions>>

(* The metrics socket, in place of one that an earlier agent left behind;   *)
(* then the actors start.                                                   *)
BindSocket ==
  /\ pc = "binding"
  /\ socket' = TRUE
  /\ pc' = "initializing"
  /\ UNCHANGED <<disk, override, paths, fragments, settings, unit, job, script,
                 wanted, fresh, commanded, interventions>>

BindSocketFails ==
  /\ pc = "binding"
  /\ socket' \in {socket, FALSE}
  /\ ExitsFailure
  /\ UNCHANGED <<disk, override, job, script, wanted, fresh, commanded, interventions>>

(* The end of the first tick, which has registered the agent as the update  *)
(* driver if it is enabled, and listed the local deployments.               *)
NotifyReady ==
  /\ pc = "initializing"
  /\ pc' = "ready"
  /\ UNCHANGED <<paths, fragments, settings, unit, fresh>>
  /\ Unsupervised

(* The actors are at work. Nothing that runs before them panics.            *)
Crashes ==
  /\ pc \in {"initializing", "ready"}
  /\ ExitsFailure
  /\ UNCHANGED fresh
  /\ Unsupervised

-----------------------------------------------------------------------------
(* The service manager.                                                     *)

(* A start that asks rpm-ostree for too long is terminated; however the     *)
(* process exits then, that is a failure.                                   *)
StartTimesOut ==
  /\ pc = "initializing" \/ (pc = "reading" /\ paths = <<>>)
  /\ ExitsFailure
  /\ UNCHANGED fresh
  /\ Unsupervised

AutoRestarts ==
  /\ unit = "auto-restart" /\ job = "none"
  /\ StartsProcess
  /\ UNCHANGED fresh
  /\ Unsupervised

(* Mutant: the handler says that the agent stops, and leaves it running.    *)
JobTerminatesInName ==
  /\ job # "none" /\ unit # "dead"
  /\ unit' = "dead"
  /\ UNCHANGED <<fileVars, processVars, job, script, wanted, fresh, commanded,
                 interventions>>

(* A job to stop, or to restart: SIGTERM, and the handler exits with 0.     *)
JobTerminates ==
  /\ job # "none" /\ unit # "dead"
  /\ ExitsSuccess
  /\ UNCHANGED <<fileVars, job, script, wanted, fresh, commanded, interventions>>

JobEnds ==
  /\ job # "none" /\ unit = "dead"
  /\ job' = "none"
  /\ IF job = "restart" THEN StartsProcess ELSE UNCHANGED <<processVars, unit>>
  /\ UNCHANGED <<fileVars, script, wanted, fresh, commanded, interventions>>

Enqueues(command) ==
  /\ job' = command
  /\ wanted' = (command = "restart")

-----------------------------------------------------------------------------
(* The administrator and the script.                                        *)

Intervenes ==
  /\ interventions < MaxInterventions
  /\ interventions' = interventions + 1

Writes(dir, name, entry) ==
  /\ disk' = [disk EXCEPT ![dir][name] = entry]
  /\ fresh' = FALSE
  /\ commanded' = FALSE

AdminEdits(dir, name, entry) ==
  /\ Intervenes
  /\ disk[dir][name] # entry
  /\ Writes(dir, name, entry)
  /\ UNCHANGED <<socket, override, processVars, unit, job, script, wanted>>

AdminCommands(command) ==
  /\ Intervenes
  /\ Enqueues(command)
  /\ UNCHANGED <<fileVars, processVars, unit, script, fresh, commanded>>

(* SIGTERM from somebody else: to the service manager, a clean exit.        *)
Killed ==
  /\ pc # "none" /\ job = "none"
  /\ Intervenes
  /\ ExitsSuccess
  /\ wanted' = FALSE
  /\ UNCHANGED <<fileVars, job, script, fresh, commanded>>

(* zincati-update-now. The fragment is opened, and so emptied, before it is *)
(* written; then the check for users is overridden and the service          *)
(* restarted.                                                               *)
UpdateNowOpens ==
  /\ script = "idle"
  /\ script' = "opened"
  /\ Writes("/run", UpdateNowName, File(Empty))
  /\ UNCHANGED <<socket, override, processVars, unit, job, wanted, interventions>>

UpdateNowWrites ==
  /\ script = "opened"
  /\ script' = "written"
  /\ Writes("/run", UpdateNowName, File(UpdateNow))
  /\ UNCHANGED <<socket, override, processVars, unit, job, wanted, interventions>>

\* Mutant: the service is started if it does not run, and left alone if it does.
UpdateNowStarts ==
  /\ script = "written"
  /\ script' = "done"
  /\ override' = TRUE
  /\ IF unit = "dead" THEN Enqueues("restart") ELSE UNCHANGED <<job, wanted>>
  /\ commanded' = (disk["/run"][UpdateNowName] = File(UpdateNow))
  /\ UNCHANGED <<disk, socket, processVars, unit, fresh, interventions>>

UpdateNowRestarts ==
  /\ script = "written"
  /\ script' = "done"
  /\ override' = TRUE
  /\ Enqueues("restart")
  /\ commanded' = (disk["/run"][UpdateNowName] = File(UpdateNow))
  /\ UNCHANGED <<disk, socket, processVars, unit, fresh, interventions>>

(* /run is gone after a reboot; /etc and /usr/lib are not.                  *)
Reboots ==
  /\ Intervenes
  /\ disk' = [disk EXCEPT !["/run"] = [n \in FileNames |-> Absent]]
  /\ socket' = FALSE /\ override' = FALSE
  /\ NoProcess
  /\ unit' = "dead" /\ job' = "restart" /\ script' = "idle"
  /\ wanted' = TRUE /\ fresh' = FALSE /\ commanded' = FALSE

-----------------------------------------------------------------------------
ProcessStep ==
  \/ ScanDirs \/ ReadNext \/ AssembleFails \/ Assemble
  \/ BindSocket \/ BindSocketFails \/ NotifyReady \/ Crashes

ManagerStep == StartTimesOut \/ AutoRestarts \/ JobTerminates \/ JobEnds

ScriptStep == UpdateNowOpens \/ UpdateNowWrites \/ UpdateNowRestarts

AdminStep ==
  \/ \E dir \in {"/run", "/etc"}, n \in FileNames, entry \in AdminEntries :
       AdminEdits(dir, n, entry)
  \/ \E command \in {"restart", "stop"} : AdminCommands(command)
  \/ Killed
  \/ Reboots

Next == ProcessStep \/ ManagerStep \/ ScriptStep \/ AdminStep

Spec == Init /\ [][Next]_vars

(* The process runs and the service manager does its jobs. What may fail,   *)
(* or take too long, succeeds if it is tried again and again.               *)
FairSpec ==
  /\ Spec
  /\ WF_vars(ScanDirs \/ ReadNext)
  /\ SF_vars(Assemble) /\ SF_vars(BindSocket) /\ SF_vars(NotifyReady)
  /\ WF_vars(AutoRestarts \/ JobTerminates \/ JobEnds)

-----------------------------------------------------------------------------
(* Properties.                                                              *)

(* Every variable has its type, and a process exists exactly while the      *)
(* service is active.                                                       *)
TypeOK ==
  /\ disk \in [Dirs -> [FileNames -> Entries]]
  /\ socket \in BOOLEAN /\ override \in BOOLEAN
  /\ pc \in Phases
  /\ paths \in Seq([dir : Dirs, name : FileNames])
  /\ \A i \in DOMAIN fragments : File(fragments[i]) \in Entries
  /\ settings = NoSettings <=> pc \notin Loaded
  /\ unit \in {"dead", "active", "auto-restart"}
  /\ unit = "active" <=> pc # "none"
  /\ job \in {"none", "restart", "stop"}
  /\ script \in {"idle", "opened", "written", "done"}
  /\ wanted \in BOOLEAN /\ fresh \in BOOLEAN /\ commanded \in BOOLEAN
  /\ interventions \in 0 .. MaxInterventions

(* What the documentation says of the files, for a given priority of the    *)
(* directories: of the entries with the same name the last one counts, and  *)
(* of the files whose entry counts the last name decides on a directive.    *)
Counting(priority, n) ==
  LET dirs == {i \in DOMAIN priority : disk[priority[i]][n].kind # "absent"}
  IN IF dirs = {} THEN Absent ELSE disk[priority[Max(dirs)]][n]

Says(priority, directive, default) ==
  LET setters == {n \in FileNames :
                    LET entry == Counting(priority, n)
                    IN entry.kind = "file" /\ directive \in DOMAIN entry.fragment.directives}
  IN IF setters = {} THEN default
     ELSE Counting(priority, Max(setters)).fragment.directives[directive]

WindowsOnDisk(priority) ==
  UNION {LET entry == Counting(priority, n)
         IN IF entry.kind = "file" THEN entry.fragment.windows ELSE {} : n \in FileNames}

Follows(priority) ==
  LET Default(value, default) == IF value = "" THEN default ELSE value
  IN /\ settings.enabled = Says(priority, "enabled", TRUE)
     /\ settings.allow_downgrade = Says(priority, "allow_downgrade", FALSE)
     /\ settings.identity.group = Default(Says(priority, "group", ""), "default")
     /\ settings.identity.rollout_wariness = Says(priority, "rollout_wariness", {})
     /\ settings.strategy.label = Default(Says(priority, "strategy", ""), "immediate")
     /\ settings.cincinnati.host = Says(priority, "cincinnati.base_url", NoUrl).host
     /\ settings.strategy.label = "periodic" =>
          {<<i.start_day, i.start_time>> : i \in settings.strategy.windows}
            = UNION {{<<d, w.start_time>> : d \in w.days} : w \in WindowsOnDisk(priority)}

(* An agent whose files did not change while it read them runs with what    *)
(* they say: for every directive the last file that sets it, in the last    *)
(* directory that has a file of its name unless that is a link to           *)
(* /dev/null, and the windows of all of them. Nothing of a file that was    *)
(* overridden is left.                                                      *)
SettingsFollowFiles ==
  pc \in Loaded /\ fresh => Follows(BaseDirs)

(* The order in which the documentation lists the directories of the        *)
(* configuration, "in order": files of the same name are overridden by      *)
(* those in /run.                                                           *)
DocumentedOrder ==
  pc \in Loaded /\ fresh => Follows(<<"/usr/lib", "/etc", "/run">>)

(* A fragment of another file takes precedence over the script's: a later   *)
(* name that sets the same, or the same name in /etc.                       *)
Overruled ==
  \/ disk["/etc"][UpdateNowName].kind # "absent"
  \/ \E n \in FileNames :
       /\ n > UpdateNowName
       /\ LET entry == Counting(BaseDirs, n)
          IN entry.kind = "file"
               /\ {"rollout_wariness", "strategy"} \intersect
                    DOMAIN entry.fragment.directives # {}

(* Once zincati-update-now has run and its restart is done, the agent that  *)
(* runs is bold, finalizes at once and disregards logged-in users, unless a *)
(* fragment overrules the script's: no agent that has read the files before *)
(* the script, or in the middle of it, is left.                             *)
UpdateNowIsObeyed ==
  commanded /\ job = "none" /\ pc \in Loaded /\ ~Overruled =>
    /\ settings.strategy.label = "immediate"
    /\ settings.identity.rollout_wariness = {0}
    /\ override

(* What an agent that starts now would read.                                *)
OnDisk ==
  LET found == Paths(disk)
  IN [i \in DOMAIN found |-> disk[found[i].dir][found[i].name]]

Startable ==
  /\ \A i \in DOMAIN OnDisk : OnDisk[i].kind = "file"
  /\ IsValid(MergeFragments([i \in DOMAIN OnDisk |-> OnDisk[i].fragment]))

(* While nobody stops the service and the files stay valid, an agent gets   *)
(* ready again and again, whatever made earlier ones fail: a configuration  *)
(* that has been repaired is picked up without another command, and what a  *)
(* crashed agent left behind does not keep the next one from starting.      *)
AgentGetsReady ==
  []<>(~wanted \/ ~Startable \/ pc = "ready")
=============================================================================
