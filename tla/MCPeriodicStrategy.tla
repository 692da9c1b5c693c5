------------------------- MODULE MCPeriodicStrategy -------------------------
(* Constants of the model-checking runs of PeriodicStrategy.                *)
EXTENDS PeriodicStrategy

MCWindow(days, start, length) ==
  [days |-> days, start_time |-> start, length_minutes |-> length]

(* With days of two minutes: windows that overlap, touch, leave a minute    *)
(* between them, end with the week, pass its end, or last all of it; Friday's *)
(* is just long enough for WindowIsUsed, Monday's a minute too short.       *)
MCValidWindows ==
  {MCWindow({"sat", "sun"}, 1, 1), MCWindow({"friday"}, 1, 4),
   MCWindow({"mon"}, 1, 3),
   MCWindow({"wednesday"}, 0, 1), MCWindow({"tue", "thu"}, 0, 2),
   MCWindow({"sun"}, 0, 6), MCWindow({"wed"}, 1, 14)}

(* A day nobody knows, a time that is none, a duration out of bounds.       *)
MCInvalidWindows ==
  {MCWindow({"mon", "day"}, 0, 1), MCWindow({"mon"}, 2, 1),
   MCWindow({"mon"}, 0, 0), MCWindow({"mon"}, 0, 15)}

MCConfig(known, windows) == [zone_known |-> known, windows |-> windows]

AnyConfig ==
  {MCConfig(TRUE, {v, w}) : v \in MCValidWindows, w \in MCValidWindows}
    \union {MCConfig(TRUE, {w}) : w \in MCInvalidWindows}
    \union {MCConfig(TRUE, {}), MCConfig(FALSE, {MCWindow({"mon"}, 0, 1)})}

(* Every name of a day that the documentation promises, one window each.    *)
DocumentedConfig ==
  {MCConfig(TRUE, {MCWindow({d}, 0, 1)}) : d \in DocumentedDays}

DaylightSaving == {-2, 2}
=============================================================================
