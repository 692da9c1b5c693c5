------------------------------- MODULE Updater -------------------------------
(***************************************************************************)
(* What the update agent promises the host it runs on: while it searches,  *)
(* pursues and stages updates, the release the host comes up with next is  *)
(* the one it is booted into, or what somebody else has put there.  The    *)
(* agent makes it another release in a single step, which asks for the     *)
(* reboot, and only for a target that it has accepted.  From then on, and  *)
(* from the time a target is ready, it touches nothing.                    *)
(***************************************************************************)
EXTENDS Integers

CONSTANTS Releases,    \* in the order of releases
          Acceptable,  \* those that pass the validation
          NoRelease    \* no release

VARIABLES
  booted,        \* the release the host runs
  next,          \* the release it comes up with when it goes down now
  rebooting,     \* the agent has asked for the reboot
  phase,         \* what the agent does
  target,        \* the release it pursues, if any
  refused,       \* the releases it does not pursue, as long as it runs
  downgrades,    \* it may pursue a release that is older than the booted one
  interventions  \* what somebody else did to the host, counted

updaterVars ==
  <<booted, next, rebooting, phase, target, refused, downgrades, interventions>>

Init ==
  /\ booted \in Releases
  /\ next = booted
  /\ rebooting = FALSE
  /\ phase = "starting"
  /\ target = NoRelease
  /\ refused = {}
  /\ downgrades \in BOOLEAN
  /\ interventions = 0

HostUnchanged == UNCHANGED <<booted, rebooting, interventions>>

Starts ==
  /\ phase = "starting"
  /\ phase' \in {"searching", "done"}
  /\ refused' \in SUBSET Releases
  /\ UNCHANGED <<next, target, downgrades>>
  /\ HostUnchanged

Pursues(r) ==
  /\ phase = "searching"
  /\ r \notin refused
  /\ r > booted \/ downgrades
  /\ phase' = "pursuing"
  /\ target' = r
  /\ UNCHANGED <<next, refused, downgrades>>
  /\ HostUnchanged

(* What the agent stages, locked, takes the place of what was staged.       *)
Displaces ==
  /\ phase # "ready"
  /\ ~rebooting
  /\ next' = booted
  /\ UNCHANGED <<phase, target, refused, downgrades>>
  /\ HostUnchanged

GivesUp ==
  /\ phase = "pursuing"
  /\ ~rebooting
  /\ next' \in {next, booted}
  /\ phase' = "searching"
  /\ target' = NoRelease
  /\ refused' \in {refused, refused \union {target}}
  /\ UNCHANGED downgrades
  /\ HostUnchanged

Accepts ==
  /\ phase = "pursuing"
  /\ target \in Acceptable
  /\ phase' = "ready"
  /\ UNCHANGED <<next, target, refused, downgrades>>
  /\ HostUnchanged

(* The only way out of a target that is ready.  The agent may not learn     *)
(* that the reboot it asked for is under way, and ask again.                *)
Finalizes ==
  /\ phase = "ready"
  /\ next' = target
  /\ rebooting' = TRUE
  /\ \/ UNCHANGED <<phase, target>>
     \/ phase' = "done" /\ target' = NoRelease
  /\ UNCHANGED <<booted, refused, downgrades, interventions>>

Forgets ==
  /\ phase' = "starting"
  /\ target' = NoRelease
  /\ refused' = {}

Exits ==
  /\ Forgets
  /\ UNCHANGED <<next, downgrades>>
  /\ HostUnchanged

(* A process starts with a configuration of its own.                        *)
Reconfigured ==
  /\ phase = "starting"
  /\ ~rebooting
  /\ downgrades' \in BOOLEAN
  /\ UNCHANGED <<next, phase, target, refused>>
  /\ HostUnchanged

Boots(r) ==
  /\ Forgets
  /\ booted' = r
  /\ next' = r
  /\ rebooting' = FALSE
  /\ UNCHANGED downgrades

(* The reboot that the agent has asked for.                                 *)
Reboots == rebooting /\ Boots(next) /\ UNCHANGED interventions

(* Somebody else stages or cleans up, reboots the host or rolls it back.    *)
Intervenes(r) ==
  /\ interventions' = interventions + 1
  /\ \/ Boots(r)
     \/ next' = r /\ UNCHANGED <<booted, rebooting, phase, target, refused, downgrades>>

Next ==
  \/ Starts \/ Displaces \/ GivesUp \/ Accepts \/ Finalizes
  \/ Exits \/ Reconfigured \/ Reboots
  \/ \E r \in Releases : Pursues(r) \/ Intervenes(r)

Spec == Init /\ [][Next]_updaterVars
=============================================================================
