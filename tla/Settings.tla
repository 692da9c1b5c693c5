------------------------------ MODULE Settings ------------------------------
(***************************************************************************)
(* How the agent gets its settings (config/, identity/, and the            *)
(* constructors of the strategies and of the Cincinnati client): the       *)
(* fragments of configuration that are found on disk, what they say once   *)
(* merged, and what a valid configuration becomes.                         *)
(*                                                                         *)
(* A fragment is what its TOML says: the directives it sets, as a function *)
(* from their names to their values, and its windows.  A base URL is a     *)
(* template: a host (0: the empty URL) and the variables of the node it    *)
(* mentions.  A wariness is in hundredths.                                 *)
(***************************************************************************)
EXTENDS WeeklyCalendar

CONSTANTS
  FileNames,    \* names of files, as positions in their lexicographic order
  ValidGroups,  \* the labels that match the expression for group labels
  ValidUuids,   \* what parses as a 128-bit identifier
  KnownZones,   \* the names of time zones the host knows
  Node          \* what does not depend on the configuration: the basearch,
                \* platform and stream of the node, and its own identifier

ASSUME FileNamesAssumption == FileNames \subseteq Nat /\ IsFiniteSet(FileNames)
ASSUME ValidGroupsAssumption == "default" \in ValidGroups /\ "" \notin ValidGroups

-----------------------------------------------------------------------------
(* Files.                                                                   *)

Absent == [kind |-> "absent"]
Masked == [kind |-> "masked"]      \* a symbolic link to /dev/null
Broken == [kind |-> "broken"]      \* a file whose content does not parse
File(fragment) == [kind |-> "file", fragment |-> fragment]

Fragment(directives, windows) == [directives |-> directives, windows |-> windows]

BaseDirs == <<"/usr/lib", "/run", "/etc">>
Dirs == Range(BaseDirs)
NoDir == "nowhere"

(* Mutant: a link to /dev/null is skipped like any file that is not regular. *)
VisitUnmasked(disk, found, dir) ==
  [n \in FileNames |->
     IF disk[dir][n].kind \in {"absent", "masked"} THEN found[n] ELSE dir]

(* One directory of the scan: its files replace those of the same name that *)
(* were found before, and its links to /dev/null remove them.               *)
Visit(disk, found, dir) ==
  [n \in FileNames |->
     CASE disk[dir][n].kind = "absent" -> found[n]
       [] disk[dir][n].kind = "masked" -> NoDir
       [] OTHER -> dir]

(* Where each file of the scan is found.                                    *)
Found(disk) ==
  FoldLeft(LAMBDA found, dir : Visit(disk, found, dir),
           [n \in FileNames |-> NoDir], BaseDirs)

Ascending(names) ==
  [i \in 1 .. Cardinality(names) |->
     CHOOSE n \in names : Cardinality({m \in names : m < n}) = i - 1]

(* The paths of the scan, by the names of the files.                        *)
Paths(disk) ==
  LET names == Ascending({n \in FileNames : Found(disk)[n] # NoDir})
  IN [i \in DOMAIN names |-> [dir |-> Found(disk)[names[i]], name |-> names[i]]]

-----------------------------------------------------------------------------
(* The inputs: the fragments merged, in the order they were read.           *)

NoUrl == [host |-> 0, variables |-> {}]

LastOf(fragments, directive, default) ==
  LET setters == {i \in DOMAIN fragments : directive \in DOMAIN fragments[i].directives}
  IN IF setters = {} THEN default ELSE fragments[Max(setters)].directives[directive]

AgentInput(fragments) ==
  [steady_interval_secs |-> LastOf(fragments, "steady_interval_secs", 300)]

CincinnatiInput(fragments) ==
  [base_url |-> LastOf(fragments, "cincinnati.base_url", NoUrl)]

(* rollout_wariness: at most one value.                                     *)
IdentityInput(fragments) ==
  [group |-> LastOf(fragments, "group", ""),
   node_uuid |-> LastOf(fragments, "node_uuid", ""),
   rollout_wariness |-> LastOf(fragments, "rollout_wariness", {})]

(* Unlike directives, the windows of all fragments accumulate, one interval *)
(* for each day of each window.                                             *)
Intervals(fragments) ==
  UNION {{[start_day |-> d, start_time |-> w.start_time,
           length_minutes |-> w.length_minutes] : d \in w.days} :
         w \in UNION {f.windows : f \in Range(fragments)}}

UpdateInput(fragments) ==
  [allow_downgrade |-> LastOf(fragments, "allow_downgrade", FALSE),
   enabled |-> LastOf(fragments, "enabled", TRUE),
   strategy |-> LastOf(fragments, "strategy", ""),
   fleet_lock |-> LastOf(fragments, "fleet_lock.base_url", NoUrl),
   time_zone |-> LastOf(fragments, "time_zone", "UTC"),
   intervals |-> Intervals(fragments)]

MergeFragments(fragments) ==
  [agent |-> AgentInput(fragments), cincinnati |-> CincinnatiInput(fragments),
   updates |-> UpdateInput(fragments), identity |-> IdentityInput(fragments)]

-----------------------------------------------------------------------------
(* Validation: which inputs are refused, and what the others become.        *)

IdentityIsValid(cfg) ==
  /\ cfg.group \in ValidGroups \union {""}
  /\ cfg.node_uuid \in ValidUuids \union {""}
  /\ cfg.rollout_wariness \subseteq 0 .. 100

Identity(cfg) ==
  [basearch |-> Node.basearch, platform |-> Node.platform, stream |-> Node.stream,
   group |-> IF cfg.group = "" THEN "default" ELSE cfg.group,
   node_uuid |-> IF cfg.node_uuid = "" THEN Node.uuid ELSE cfg.node_uuid,
   rollout_wariness |-> cfg.rollout_wariness]

UrlVariables == {"basearch", "group", "platform", "stream"}

(* A templated URL with the values of this node.                            *)
Substitute(url, identity) ==
  [host |-> url.host,
   values |-> [v \in url.variables \intersect UrlVariables |-> identity[v]]]

FleetLockIsValid(cfg) == cfg.fleet_lock.host # 0

PeriodicIsValid(cfg) ==
  /\ cfg.time_zone \in KnownZones
  /\ cfg.intervals # {}
  /\ \A i \in cfg.intervals :
       /\ i.start_day \in DOMAIN WeekdayFromString
       /\ CheckTime(i.start_time)
       /\ CheckDuration(i.length_minutes)

(* "" is the default strategy, an immediate one.                            *)
StrategyIsValid(cfg) ==
  \/ cfg.strategy \in {"immediate", ""}
  \/ cfg.strategy = "fleet_lock" /\ FleetLockIsValid(cfg)
  \/ cfg.strategy = "periodic" /\ PeriodicIsValid(cfg)

Strategy(cfg, identity) ==
  [label |-> IF cfg.strategy = "" THEN "immediate" ELSE cfg.strategy,
   manager |-> IF cfg.strategy = "fleet_lock"
               THEN Substitute(cfg.fleet_lock, identity) ELSE Substitute(NoUrl, identity),
   windows |-> IF cfg.strategy = "periodic" THEN cfg.intervals ELSE {},
   time_zone |-> IF cfg.strategy = "periodic" THEN cfg.time_zone ELSE ""]

CincinnatiIsValid(cfg) == cfg.base_url.host # 0

IsValid(cfg) ==
  /\ IdentityIsValid(cfg.identity)
  /\ StrategyIsValid(cfg.updates)
  /\ CincinnatiIsValid(cfg.cincinnati)

Validate(cfg) ==
  LET identity == Identity(cfg.identity)
  IN [allow_downgrade |-> cfg.updates.allow_downgrade,
      enabled |-> cfg.updates.enabled,
      steady_interval_secs |-> cfg.agent.steady_interval_secs,
      identity |-> identity,
      strategy |-> Strategy(cfg.updates, identity),
      cincinnati |-> Substitute(cfg.cincinnati.base_url, identity)]
=============================================================================
