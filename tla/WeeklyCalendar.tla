--------------------------- MODULE WeeklyCalendar ---------------------------
(***************************************************************************)
(* The weekly calendar of weekly/mod.rs and weekly/utils.rs: recurring     *)
(* windows as ranges of minutes of one week, and the questions the         *)
(* periodic strategy asks of them.                                         *)
(*                                                                         *)
(* A minute of the week counts from Monday 00:00; a time of the day is the *)
(* number of its minute.  A range excludes its end, which is one more than *)
(* the closing minute of the window.  The interval tree is the set of its  *)
(* ranges: no question depends on the order of equal ones.                 *)
(***************************************************************************)
EXTENDS Integers, FiniteSets, SequencesExt

CONSTANT DayMinutes   \* minutes of a day (1440)

ASSUME DayAssumption == DayMinutes \in Nat \ {0}

Week == 7 * DayMinutes   \* MAX_WEEKLY_MINS
Minutes == 0 .. Week - 1

NoMinute == -1

(* The names of days that are understood (in lower case), as days since     *)
(* Monday.                                                                  *)
WeekdayFromString ==
  [mon |-> 0, monday |-> 0, tue |-> 1, tuesady |-> 1, wed |-> 2, wednesday |-> 2,
   thu |-> 3, thursday |-> 3, fri |-> 4, friday |-> 4, sat |-> 5, saturday |-> 5,
   sun |-> 6, sunday |-> 6]

(* time_from_string takes the times of a day, and "24:00" is not one.       *)
CheckTime(time) == time \in 0 .. DayMinutes - 1

TimeAsWeeklyMinute(day, time) == day * DayMinutes + time

CheckDuration(length) == length \in 1 .. Week

RangeWeeklyMinutes(start, length) == [start |-> start, end |-> start + length + 1]

\* Mutants: a window is not chopped at the end of the week; one that passes
\* it goes on whole at the start of the week.
ParseTimespanUnchopped(day, time, length) ==
  {RangeWeeklyMinutes(TimeAsWeeklyMinute(day, time), length)}

ParseTimespanWrapsWhole(day, time, length) ==
  LET start == TimeAsWeeklyMinute(day, time)
  IN IF start + length > Week
     THEN {RangeWeeklyMinutes(start, Week - start), RangeWeeklyMinutes(0, length)}
     ELSE {RangeWeeklyMinutes(start, length)}

(* The one or two windows of a timespan: what passes the end of the week    *)
(* goes back to its start.                                                  *)
ParseTimespan(day, time, length) ==
  LET start == TimeAsWeeklyMinute(day, time)
      remaining == IF start + length > Week THEN start + length - Week ELSE 0
  IN {RangeWeeklyMinutes(start, length - remaining)}
       \union {RangeWeeklyMinutes(0, r) : r \in {remaining} \ {0}}

-----------------------------------------------------------------------------
ContainsMinute(calendar, minute) ==
  \E win \in calendar : win.start <= minute /\ minute < win.end

Starts(calendar) == {win.start : win \in calendar}

(* What is left of this week only: a window that has begun contains the     *)
(* minute, or is over.                                                      *)
StartsThisWeek(calendar, minute) == {s \in Starts(calendar) : s >= minute}

NextWindowMinuteInWeek(calendar, minute) ==
  CASE calendar = {} -> NoMinute
    [] ContainsMinute(calendar, minute) -> minute
    [] ~ContainsMinute(calendar, minute) /\ StartsThisWeek(calendar, minute) # {} ->
         Min(StartsThisWeek(calendar, minute))
    [] OTHER -> Min(Starts(calendar))

\* Mutant: only what remains of this week is counted.
RemainingToUnwrapped(calendar, minute) ==
  IF ContainsMinute(calendar, minute) THEN 0
  ELSE Min(StartsThisWeek(calendar, minute) \union {Week}) - minute

RemainingTo(calendar, minute) ==
  CASE calendar = {} -> NoMinute
    [] ContainsMinute(calendar, minute) -> 0
    [] ~ContainsMinute(calendar, minute) /\ StartsThisWeek(calendar, minute) # {} ->
         Min(StartsThisWeek(calendar, minute)) - minute
    [] OTHER -> Week - minute + Min(Starts(calendar))

(* What a coalesced range lasts, without its closing minute.                *)
RangeLength(r) == IF r.end > r.start THEN r.end - r.start - 1 ELSE 0

(* A window that overlaps or touches the last range is coalesced into it;   *)
(* any other is the last range from now on.                                 *)
Coalesce(win, acc) ==
  IF win.start > acc.last.end
  THEN [measured |-> acc.measured + RangeLength(acc.last), last |-> win]
  ELSE [acc EXCEPT !.last.end = Max({@, win.end})]

LatestStart(windows) == CHOOSE w \in windows : \A v \in windows : v.start <= w.start

(* The windows coalesced in the order of their starts.                      *)
Coalesced(calendar) ==
  MapThenFoldSet(Coalesce,
                 [measured |-> 0, last |-> [start |-> 0, end |-> 0]],
                 LAMBDA win : win, LatestStart, calendar)

(* The measured length, with the range that is still pending.               *)
LengthMinutes(calendar) ==
  LET all == Coalesced(calendar)
  IN all.measured + RangeLength(all.last)
=============================================================================
