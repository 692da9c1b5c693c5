-------------------------- MODULE PeriodicStrategy --------------------------
(***************************************************************************)
(* The periodic strategy (strategy/periodic.rs) and the pace at which the  *)
(* update agent asks it: an agent that has staged an update finalizes it   *)
(* within a reboot window, and the ticks that look for the window are      *)
(* minutes apart.                                                          *)
(*                                                                         *)
(* Time is the minute of the week on the wall clock of the configured time *)
(* zone.  A tick happens in the minute it is due, and the clock waits for  *)
(* it; whether windows allow a reboot, and the command that asks for it,   *)
(* belong to the same minute.  Of the update agent only the life of a      *)
(* staged update is kept (its other states are in UpdateAgent).            *)
(***************************************************************************)
EXTENDS WeeklyCalendar

CONSTANTS
  MinDelay, MaxDelay, \* minutes from a tick that postponed nothing to the
                      \* next: 300 seconds and up to 10% of jitter (5 and 6)
  MaxPostponements,   \* MAX_FINALIZE_POSTPONEMENTS (10)
  Configs,            \* what an administrator may write in updates.periodic
  Shifts,             \* jumps of the wall clock (daylight saving), in minutes
  MaxShifts,          \* bound: jumps of the wall clock
  MaxFailures,        \* bound: finalizations that fail
  MaxExits            \* bound: exits of the agent

ASSUME PaceAssumption ==
  /\ MinDelay \in Nat \ {0} /\ MaxDelay \in Nat /\ MinDelay <= MaxDelay
  /\ MaxPostponements \in 0..255   \* u8
ASSUME PeriodicConfigsAssumption ==
  \A c \in Configs :
    /\ c.zone_known \in BOOLEAN
    /\ \A w \in c.windows : w.start_time \in Nat /\ w.length_minutes \in Nat
ASSUME PeriodicBoundsAssumption ==
  /\ Shifts \subseteq Int
  /\ MaxShifts \in Nat /\ MaxFailures \in Nat /\ MaxExits \in Nat

VARIABLES
  config,     \* updates.periodic, as the agent last read it
  schedule,   \* the calendar of the strategy
  phase,      \* "down", "failed", "steady", "staged" or "finalized"
  count,      \* postponements left
  due,        \* minutes until the next tick
  now,        \* minute of the week
  held,       \* history: minutes of a window gone by since an update was
              \* staged, or since the last attempt to finalize it
  shifts, failures, exits   \* bounds

agentVars == <<config, schedule, phase, count, due>>
boundVars == <<shifts, failures, exits>>
vars == <<agentVars, now, held, boundVars>>

Phases == {"down", "failed", "steady", "staged", "finalized"}

-----------------------------------------------------------------------------
(* The strategy.                                                            *)

(* One interval for each day of each window of the configuration.           *)
Intervals(c) ==
  UNION {{[start_day |-> d, start_time |-> w.start_time,
           length_minutes |-> w.length_minutes] : d \in w.days} : w \in c.windows}

ValidInterval(i) ==
  /\ i.start_day \in DOMAIN WeekdayFromString
  /\ CheckTime(i.start_time)
  /\ CheckDuration(i.length_minutes)

Schedule(c) ==
  UNION {ParseTimespan(WeekdayFromString[i.start_day], i.start_time, i.length_minutes) :
           i \in Intervals(c)}

(* StrategyPeriodic::new succeeds.                                          *)
Accepts(c) ==
  /\ c.zone_known
  /\ \A i \in Intervals(c) : ValidInterval(i)
  /\ LengthMinutes(Schedule(c)) > 0

CanFinalize == ContainsMinute(schedule, now)

\* Mutant: the delay after a postponement is that of any other tick.
RefreshDelayAlwaysLong(remaining) == MinDelay .. MaxDelay

(* The pace of the agent while an update is staged: a minute after a        *)
(* postponement, which leaves fewer than all of them.                       *)
RefreshDelay(remaining) ==
  IF remaining < MaxPostponements THEN {1} ELSE MinDelay .. MaxDelay

\* Mutant: a postponement does not use up the grace period.
RecordPostponementNever(remaining) == remaining

RecordPostponement(remaining) == IF remaining = 0 THEN 0 ELSE remaining - 1

-----------------------------------------------------------------------------
Init ==
  /\ config \in Configs
  /\ schedule = {}
  /\ phase = "down"
  /\ count = MaxPostponements
  /\ due = 0
  /\ now = 0
  /\ held = 0
  /\ shifts = 0 /\ failures = 0 /\ exits = 0

(* The agent starts, or systemd starts it again, with what the             *)
(* configuration says by now.                                              *)
Start(c) ==
  /\ phase \in {"down", "failed"}
  /\ Accepts(c)
  /\ config' = c
  /\ schedule' = Schedule(c)
  /\ phase' = "steady"
  /\ UNCHANGED <<count, due, now, held, boundVars>>

StartFails(c) ==
  /\ phase \in {"down", "failed"}
  /\ ~Accepts(c)
  /\ config' = c
  /\ phase' = "failed"
  /\ UNCHANGED <<schedule, count, due, now, held, boundVars>>

(* The state changes, so that the next tick is immediate.                   *)
StageUpdate ==
  /\ phase = "steady"
  /\ phase' = "staged"
  /\ count' = MaxPostponements
  /\ due' = 0
  /\ UNCHANGED <<config, schedule, now, held, boundVars>>

TickIsDue == phase = "staged" /\ due = 0

(* Outside the windows, which also takes back the postponements.            *)
FinalizationDenied ==
  /\ TickIsDue
  /\ ~CanFinalize
  /\ count' = MaxPostponements
  /\ due' \in RefreshDelay(count')
  /\ UNCHANGED <<config, schedule, phase, now, held, boundVars>>

(* Somebody is logged in, and the grace period is not over.                 *)
FinalizationPostponed ==
  /\ TickIsDue
  /\ CanFinalize
  /\ count > 0
  /\ count' = RecordPostponement(count)
  /\ due' \in RefreshDelay(count')
  /\ UNCHANGED <<config, schedule, phase, now, held, boundVars>>

(* Nobody is logged in, or the grace period is over.                        *)
FinalizationSucceeds ==
  /\ TickIsDue
  /\ CanFinalize
  /\ phase' = "finalized"
  /\ held' = 0
  /\ UNCHANGED <<config, schedule, count, due, now, boundVars>>

FinalizationFails ==
  /\ TickIsDue
  /\ CanFinalize
  /\ failures < MaxFailures
  /\ failures' = failures + 1
  /\ due' \in RefreshDelay(count)
  /\ held' = 0
  /\ UNCHANGED <<config, schedule, phase, count, now, shifts, exits>>

Tick ==
  FinalizationDenied \/ FinalizationPostponed \/ FinalizationSucceeds \/ FinalizationFails

(* The host reboots into the update.                                        *)
Reboot ==
  /\ phase = "finalized"
  /\ phase' = "down"
  /\ schedule' = {}
  /\ count' = MaxPostponements
  /\ due' = 0
  /\ UNCHANGED <<config, now, held, boundVars>>

AgentExits ==
  /\ phase \in {"steady", "staged"}
  /\ exits < MaxExits
  /\ exits' = exits + 1
  /\ phase' = "down"
  /\ schedule' = {}
  /\ count' = MaxPostponements
  /\ due' = 0
  /\ held' = 0
  /\ UNCHANGED <<config, now, shifts, failures>>

InWindow(minute) == phase = "staged" /\ ContainsMinute(schedule, minute)

MinutePasses ==
  /\ ~TickIsDue
  /\ now' = (now + 1) % Week
  /\ due' = IF due > 0 THEN due - 1 ELSE 0
  /\ held' = IF InWindow(now') THEN held + 1 ELSE 0
  /\ UNCHANGED <<config, schedule, phase, count, boundVars>>

(* Minutes of the wall clock are skipped, or come again.                    *)
ClockShifts(d) ==
  /\ shifts < MaxShifts
  /\ shifts' = shifts + 1
  /\ now' = (now + d) % Week
  /\ held' = IF InWindow(now') THEN held ELSE 0
  /\ UNCHANGED <<agentVars, failures, exits>>

Next ==
  \/ \E c \in Configs : Start(c) \/ StartFails(c)
  \/ StageUpdate
  \/ Tick
  \/ Reboot
  \/ AgentExits
  \/ MinutePasses
  \/ \E d \in Shifts : ClockShifts(d)

Spec == Init /\ [][Next]_vars

(* Time passes, and the timer of the actor fires.                           *)
FairSpec == Spec /\ WF_vars(MinutePasses) /\ WF_vars(Tick)

-----------------------------------------------------------------------------
(* Properties.                                                              *)

RangesOK == \A win \in schedule :
  /\ win.start \in Minutes
  /\ win.end \in Nat
  /\ win.start < win.end - 1 /\ win.end <= Week + 1

(* The state has its type; each window of the schedule lasts a minute at    *)
(* least and ends within the week (weekly/mod.rs: chopped at its boundary). *)
TypeOK ==
  /\ config \in Configs
  /\ RangesOK
  /\ phase \in Phases
  /\ count \in 0..MaxPostponements
  /\ due \in 0..MaxDelay
  /\ now \in Minutes
  /\ held \in Nat
  /\ shifts \in 0..MaxShifts /\ failures \in 0..MaxFailures /\ exits \in 0..MaxExits

(* An update that has been staged does not let more minutes of a window go  *)
(* by than one pause between ticks and the grace period: the next tick is   *)
(* never so late, and postponements are a minute apart (actor.rs            *)
(* refresh_delay, mod.rs get_refresh_delay).                                *)
HeldBound == held <= MaxDelay + MaxPostponements

(* The minutes of a declared window: those it lasts, from its start and     *)
(* around the end of the week, and the one it closes in.                    *)
Lasts(i, minute) ==
  LET start == TimeAsWeeklyMinute(WeekdayFromString[i.start_day], i.start_time)
  IN \E m \in {minute, minute + Week} : start <= m /\ m < start + i.length_minutes
Closes(i, minute) ==
  LET start == TimeAsWeeklyMinute(WeekdayFromString[i.start_day], i.start_time)
  IN \E m \in {minute, minute + Week} : m = start + i.length_minutes
Declared(c, minute) == \E i \in Intervals(c) : Lasts(i, minute)
DeclaredOrClosing(c, minute) ==
  \E i \in Intervals(c) : Lasts(i, minute) \/ Closes(i, minute)

(* A finalization, successful or not, is only tried within a window the     *)
(* administrator declared or in its closing minute, whatever the overlaps,  *)
(* the end of the week and the jumps of the clock.                          *)
FinalizesInWindow ==
  [][phase = "staged" /\ (phase' = "finalized" \/ failures' # failures)
       => DeclaredOrClosing(config, now)]_vars

(* What the strategy reports of its calendar is right: a minute is contained *)
(* if it is declared, the next window is the nearest minute contained, and   *)
(* the measured length lies between the minutes declared and those           *)
(* contained (weekly/mod.rs: contains_datetime, next_window_minute_in_week,  *)
(* remaining_to_datetime, length_minutes).                                   *)
CalendarIsRight ==
  LET declared == {m \in Minutes : Declared(config, m)}
      contained == {m \in Minutes : ContainsMinute(schedule, m)}
      ahead == {d \in 0 .. Week : (now + d) % Week \in contained}
  IN schedule # {} =>
       /\ declared \subseteq contained
       /\ RemainingTo(schedule, now) = Min(ahead)
       /\ NextWindowMinuteInWeek(schedule, now) = (now + Min(ahead)) % Week
       /\ LengthMinutes(schedule) \in Cardinality(declared) .. Cardinality(contained)

(* The windows are open, once a week, for as long as an agent may let them  *)
(* go by.                                                                   *)
LongEnough ==
  \E first \in Minutes :
    \A k \in 0 .. MaxDelay + MaxPostponements - 1 :
      ContainsMinute(schedule, (first + k) % Week)

(* When the windows are long enough for a pause between ticks and for the   *)
(* grace period, a staged update does not wait for ever, however often      *)
(* users are logged in: each denial gives the postponements back, and the   *)
(* next window still uses them up.                                          *)
WindowIsUsed == phase = "staged" /\ LongEnough ~> phase # "staged"

(* The names of the days that docs/usage/updates-strategy.md promises: in   *)
(* full, or their first three letters.                                      *)
DocumentedDays ==
  {"mon", "tue", "wed", "thu", "fri", "sat", "sun", "monday", "tuesday",
   "wednesday", "thursday", "friday", "saturday", "sunday"}
Documented(c) ==
  /\ c.zone_known
  /\ c.windows # {}
  /\ \A w \in c.windows : /\ w.days # {} /\ w.days \subseteq DocumentedDays
                          /\ CheckTime(w.start_time)
                          /\ CheckDuration(w.length_minutes)

(* A configuration written as the documentation says does not keep the      *)
(* agent from starting.                                                     *)
DocumentedConfigStarts == phase = "failed" => ~Documented(config)
=============================================================================
