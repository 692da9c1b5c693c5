--------------------------- MODULE MCAgentProcess ---------------------------
(* Constants of the model-checking runs of AgentProcess.                    *)
EXTENDS AgentProcess

MCNode == [basearch |-> "x86_64", platform |-> "qemu", stream |-> "stable", uuid |-> "u0"]

MCWindow(day) == [days |-> {day}, start_time |-> 0, length_minutes |-> 1]

(* The defaults of the distribution; a periodic strategy with its window;   *)
(* more windows, the URL of a lock manager and no updates; and a fleet_lock *)
(* strategy that is not valid without that URL.                             *)
MCDist ==
  Fragment([d \in {"cincinnati.base_url", "strategy", "enabled"} |->
              CASE d = "cincinnati.base_url" -> [host |-> 1, variables |-> {"group"}]
                [] d = "strategy" -> ""
                [] OTHER -> TRUE],
           {})
MCPeriodic ==
  Fragment([d \in {"strategy", "rollout_wariness"} |->
              IF d = "strategy" THEN "periodic" ELSE {50}], {MCWindow("mon")})
MCMoreWindows ==
  Fragment([d \in {"enabled", "fleet_lock.base_url"} |->
              IF d = "enabled" THEN FALSE ELSE [host |-> 2, variables |-> {"group"}]],
           {MCWindow("tue")})
MCFleetLock ==
  Fragment([d \in {"strategy", "group"} |->
              IF d = "strategy" THEN "fleet_lock" ELSE "workers"], {})

MCFragments == {MCPeriodic, MCMoreWindows, MCFleetLock}

MCDistConfig == [n \in FileNames |-> IF n = 1 THEN File(MCDist) ELSE Absent]
=============================================================================
