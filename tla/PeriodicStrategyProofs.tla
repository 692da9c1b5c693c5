----------------------- MODULE PeriodicStrategyProofs -----------------------
(***************************************************************************)
(* What holds of the periodic strategy for every length of the day, every  *)
(* pace of the ticks and every configuration: the type invariant, the      *)
(* bound on what a staged update lets go by, that it is finalized within a *)
(* declared window, and that the calendar is right about the declared      *)
(* windows.                                                                *)
(***************************************************************************)
EXTENDS PeriodicStrategy, WeeklyCalendarProofs

(* A running agent has the calendar of a configuration that was accepted.   *)
ScheduleInv ==
  /\ phase \in {"down", "failed"} => schedule = {}
  /\ phase \in {"steady", "staged", "finalized"} =>
       schedule = Schedule(config) /\ Accepts(config)

(* Minutes gone by and minutes to the next tick are paid for by the pause   *)
(* before the window and by the postponements used up.                      *)
PaceInv ==
  /\ held + due <= MaxDelay + (MaxPostponements - count)
  /\ phase # "staged" => held = 0
  /\ ~ContainsMinute(schedule, now) => held = 0

IInv == TypeOK /\ ScheduleInv /\ PaceInv

-----------------------------------------------------------------------------
USE DayAssumption, PaceAssumption, PeriodicConfigsAssumption, PeriodicBoundsAssumption

(* The minute of a week is in the week, whichever way the clock moves.      *)
LEMMA MinuteOfWeek == ASSUME NEW m \in Int PROVE m % Week \in Minutes
<1>1. Week \in Nat \ {0}
  BY DEF Week
<1>2. \A w \in Nat \ {0} : m % w \in 0 .. w - 1
  BY SMT
<1> QED
  BY <1>1, <1>2 DEF Minutes

(* weekday_from_string numbers the days of a week.                          *)
LEMMA DaysOfWeek ==
  ASSUME NEW name \in DOMAIN WeekdayFromString
  PROVE  WeekdayFromString[name] \in 0..6
  BY DEF WeekdayFromString

(* A time of a day of the week is a minute of the week.                     *)
LEMMA TimeInWeek ==
  ASSUME NEW day \in 0..6, NEW time \in 0 .. DayMinutes - 1
  PROVE  TimeAsWeeklyMinute(day, time) \in Minutes
<1>1. day \in {0, 1, 2, 3, 4, 5, 6}
  OBVIOUS
<1>2. day * DayMinutes <= 6 * DayMinutes /\ day * DayMinutes \in Nat
  BY <1>1
<1> QED
  BY <1>2 DEF TimeAsWeeklyMinute, Minutes, Week

(* The windows of a timespan last a minute at least and end within the week. *)
LEMMA TimespanRanges ==
  ASSUME NEW day \in 0..6, NEW time \in 0 .. DayMinutes - 1, NEW length \in 1 .. Week,
         NEW win \in ParseTimespan(day, time, length)
  PROVE  WellFormed(win)
<1> DEFINE start == TimeAsWeeklyMinute(day, time)
<1>1. start \in Minutes /\ Week \in Nat /\ length \in Nat
  BY TimeInWeek DEF Week
<1> HIDE DEF start
<1>2. CASE start + length > Week
  BY <1>1, <1>2 DEF WellFormed, ParseTimespan, RangeWeeklyMinutes, start, Minutes
<1>3. CASE ~(start + length > Week)
  BY <1>1, <1>3 DEF WellFormed, ParseTimespan, RangeWeeklyMinutes, start, Minutes
<1> QED
  BY <1>2, <1>3

(* A minute that a window of a timespan contains is one that the timespan   *)
(* lasts, or closes in.                                                     *)
LEMMA TimespanMinutes ==
  ASSUME NEW day \in 0..6, NEW time \in 0 .. DayMinutes - 1, NEW length \in 1 .. Week,
         NEW win \in ParseTimespan(day, time, length),
         NEW minute \in Minutes, win.start <= minute, minute < win.end
  PROVE  \E m \in {minute, minute + Week} :
           /\ TimeAsWeeklyMinute(day, time) <= m
           /\ m <= TimeAsWeeklyMinute(day, time) + length
<1> DEFINE start == TimeAsWeeklyMinute(day, time)
<1>1. start \in Minutes /\ Week \in Nat /\ length \in Nat
  BY TimeInWeek DEF Week
<1> HIDE DEF start
<1>2. CASE start + length > Week
  BY <1>1, <1>2 DEF ParseTimespan, RangeWeeklyMinutes, start, Minutes
<1>3. CASE ~(start + length > Week)
  BY <1>1, <1>3 DEF ParseTimespan, RangeWeeklyMinutes, start, Minutes
<1> QED
  BY <1>2, <1>3

(* A minute that a timespan lasts, one of its windows contains, and not as  *)
(* its closing minute.                                                      *)
LEMMA TimespanLasts ==
  ASSUME NEW day \in 0..6, NEW time \in 0 .. DayMinutes - 1, NEW length \in 1 .. Week,
         NEW minute \in Minutes, NEW m \in {minute, minute + Week},
         TimeAsWeeklyMinute(day, time) <= m,
         m < TimeAsWeeklyMinute(day, time) + length
  PROVE  \E win \in ParseTimespan(day, time, length) :
           win.start <= minute /\ minute < win.end - 1
<1> DEFINE start == TimeAsWeeklyMinute(day, time)
<1>1. start \in Minutes /\ Week \in Nat /\ length \in Nat
  BY TimeInWeek DEF Week
<1>2. start <= m /\ m < start + length
  OBVIOUS
<1> HIDE DEF start
<1>3. CASE start + length > Week
  <2>1. ParseTimespan(day, time, length)
          = {[start |-> start, end |-> Week + 1],
             [start |-> 0, end |-> start + length - Week + 1]}
    BY <1>1, <1>3 DEF ParseTimespan, RangeWeeklyMinutes, start, Minutes
  <2> QED
    BY <1>1, <1>2, <1>3, <2>1 DEF Minutes
<1>4. CASE ~(start + length > Week)
  <2>1. ParseTimespan(day, time, length) = {[start |-> start, end |-> start + length + 1]}
    BY <1>1, <1>4 DEF ParseTimespan, RangeWeeklyMinutes, start, Minutes
  <2> QED
    BY <1>1, <1>2, <1>4, <2>1 DEF Minutes
<1> QED
  BY <1>3, <1>4

(* The day names, times and lengths of an accepted configuration are valid. *)
LEMMA AcceptedIntervals ==
  ASSUME NEW c \in Configs, Accepts(c), NEW i \in Intervals(c)
  PROVE  /\ WeekdayFromString[i.start_day] \in 0..6
         /\ i.start_time \in 0 .. DayMinutes - 1
         /\ i.length_minutes \in 1 .. Week
  BY DaysOfWeek DEF Accepts, ValidInterval, CheckTime, CheckDuration

(* A window of a schedule comes from an interval of the configuration.      *)
LEMMA ScheduleWindows ==
  ASSUME NEW c \in Configs, NEW win \in Schedule(c)
  PROVE  \E i \in Intervals(c) :
           win \in ParseTimespan(WeekdayFromString[i.start_day], i.start_time, i.length_minutes)
  BY DEF Schedule

(* The schedule of an accepted configuration has well-formed windows.       *)
LEMMA ScheduleRanges ==
  ASSUME NEW c \in Configs, Accepts(c), NEW win \in Schedule(c)
  PROVE  WellFormed(win)
<1>1. PICK i \in Intervals(c) :
        win \in ParseTimespan(WeekdayFromString[i.start_day], i.start_time, i.length_minutes)
  BY ScheduleWindows
<1> QED
  BY <1>1, AcceptedIntervals, TimespanRanges

(* There are finitely many windows of a week, however many intervals a      *)
(* configuration has.                                                       *)
LEMMA ScheduleFinite ==
  ASSUME NEW c \in Configs, Accepts(c)
  PROVE  IsFiniteSet(Schedule(c))
<1> DEFINE Pairs == Minutes \X (0 .. Week + 1)
           Window == [p \in Pairs |-> [start |-> p[1], end |-> p[2]]]
           Windows == {Window[p] : p \in Pairs}
<1>1. IsFiniteSet(Minutes) /\ IsFiniteSet(0 .. Week + 1)
  <2>1. Week + 1 \in Int
    BY DEF Week
  <2> QED
    BY <2>1, MinutesFinite, FS_Interval
<1>2. IsFiniteSet(Pairs)
  BY <1>1, FS_Product
<1>3. IsFiniteSet(Windows)
  <2>1. Window \in Surjection(Pairs, Windows)
    BY DEF Surjection
  <2> HIDE DEF Pairs, Window, Windows
  <2> QED
    BY <1>2, <2>1, FS_Surjection
<1>4. ASSUME NEW win \in Schedule(c)
      PROVE  win \in Windows
  <2>1. /\ win = [start |-> win.start, end |-> win.end]
        /\ win.start \in Minutes /\ win.end \in 0 .. Week + 1
    BY ScheduleRanges DEF WellFormed, Week
  <2>2. <<win.start, win.end>> \in Pairs
    BY <2>1
  <2> QED
    BY <2>1, <2>2
<1> HIDE DEF Windows
<1> QED
  BY <1>3, <1>4, FS_Subset

(* What an accepted configuration declares, its schedule contains, and not  *)
(* as a closing minute.                                                     *)
LEMMA DeclaredIsLasting ==
  ASSUME NEW c \in Configs, Accepts(c), NEW minute \in Minutes, Declared(c, minute)
  PROVE  \E win \in Schedule(c) : win.start <= minute /\ minute < win.end - 1
<1>1. PICK i \in Intervals(c) : Lasts(i, minute)
  BY DEF Declared
<1> DEFINE day == WeekdayFromString[i.start_day]
           span == ParseTimespan(day, i.start_time, i.length_minutes)
<1>2. /\ day \in 0..6
      /\ i.start_time \in 0 .. DayMinutes - 1
      /\ i.length_minutes \in 1 .. Week
  BY AcceptedIntervals
<1>3. PICK m \in {minute, minute + Week} :
        /\ TimeAsWeeklyMinute(day, i.start_time) <= m
        /\ m < TimeAsWeeklyMinute(day, i.start_time) + i.length_minutes
  BY <1>1 DEF Lasts
<1>4. span \subseteq Schedule(c)
  BY DEF Schedule
<1>5. PICK win \in span : win.start <= minute /\ minute < win.end - 1
  <2> HIDE DEF day
  <2> QED
    BY <1>2, <1>3, TimespanLasts
<1> QED
  BY <1>4, <1>5

(* What its schedule contains, a configuration declares.                    *)
LEMMA ContainedIsDeclared ==
  ASSUME NEW c \in Configs, Accepts(c), NEW minute \in Minutes,
         ContainsMinute(Schedule(c), minute)
  PROVE  DeclaredOrClosing(c, minute)
<1>1. PICK win \in Schedule(c) : win.start <= minute /\ minute < win.end
  BY DEF ContainsMinute
<1>2. PICK i \in Intervals(c) :
        win \in ParseTimespan(WeekdayFromString[i.start_day], i.start_time, i.length_minutes)
  BY <1>1, ScheduleWindows
<1> DEFINE start == TimeAsWeeklyMinute(WeekdayFromString[i.start_day], i.start_time)
<1>3. /\ WeekdayFromString[i.start_day] \in 0..6
      /\ i.start_time \in 0 .. DayMinutes - 1
      /\ i.length_minutes \in 1 .. Week
  BY <1>2, AcceptedIntervals
<1>4. PICK m \in {minute, minute + Week} : start <= m /\ m <= start + i.length_minutes
  BY <1>1, <1>2, <1>3, TimespanMinutes
<1>5. start \in Minutes
  BY <1>3, TimeInWeek
<1>6. m < start + i.length_minutes \/ m = start + i.length_minutes
  BY <1>3, <1>4, <1>5 DEF Minutes, Week
<1> QED
  BY <1>2, <1>4, <1>6 DEF DeclaredOrClosing, Lasts, Closes

-----------------------------------------------------------------------------
(* The pause between ticks is one minute, or within its limits, and never   *)
(* longer than the postponements used up pay for.                           *)
LEMMA RefreshDelays ==
  ASSUME NEW remaining \in 0..MaxPostponements, NEW d \in RefreshDelay(remaining)
  PROVE  d \in 1..MaxDelay
  BY DEF RefreshDelay

(* Initially nothing runs and nothing is held.                              *)
LEMMA InitIInv == Init => IInv
  BY MinuteOfWeek DEF Init, IInv, TypeOK, RangesOK, Phases, ScheduleInv, PaceInv, Minutes, Week

(* Every step preserves the invariant.                                      *)
LEMMA NextIInv == IInv /\ [Next]_vars => IInv'
<1> SUFFICES ASSUME IInv, [Next]_vars PROVE IInv'
  OBVIOUS
<1> USE DEF IInv, TypeOK, RangesOK, ScheduleInv, PaceInv, Phases, agentVars, boundVars
<1>1. CASE UNCHANGED vars
  BY <1>1 DEF vars, ContainsMinute
<1>2. ASSUME NEW c \in Configs, Start(c) PROVE IInv'
  <2>1. /\ config' \in Configs /\ schedule' = Schedule(config') /\ Accepts(config')
        /\ phase' = "steady"
    BY <1>2 DEF Start
  <2>2. \A win \in schedule' : WellFormed(win)
    BY <2>1, ScheduleRanges
  <2> QED
    BY <1>2, <2>1, <2>2 DEF Start, WellFormed
<1>3. ASSUME NEW c \in Configs, StartFails(c) PROVE IInv'
  BY <1>3 DEF StartFails
<1>4. CASE StageUpdate
  BY <1>4 DEF StageUpdate
<1>5. CASE FinalizationDenied
  BY <1>5, RefreshDelays DEF FinalizationDenied, TickIsDue, CanFinalize
<1>6. CASE FinalizationPostponed
  <2>1. count' = count - 1 /\ count - 1 < MaxPostponements /\ due' = 1
    BY <1>6 DEF FinalizationPostponed, RecordPostponement, RefreshDelay
  <2> QED
    BY <1>6, <2>1 DEF FinalizationPostponed, TickIsDue, CanFinalize
<1>7. CASE FinalizationSucceeds
  BY <1>7 DEF FinalizationSucceeds, TickIsDue
<1>8. CASE FinalizationFails
  BY <1>8, RefreshDelays DEF FinalizationFails, TickIsDue
<1>9. CASE Reboot
  BY <1>9 DEF Reboot
<1>10. CASE AgentExits
  BY <1>10 DEF AgentExits
<1>11. CASE MinutePasses
  <2>1. now' \in Minutes
    BY <1>11, MinuteOfWeek DEF MinutePasses, Minutes
  <2> QED
    BY <1>11, <2>1 DEF MinutePasses, InWindow, TickIsDue
<1>12. ASSUME NEW d \in Shifts, ClockShifts(d) PROVE IInv'
  <2>1. now' \in Minutes
    <3>1. now + d \in Int
      BY DEF Minutes
    <3> QED
      BY <1>12, <3>1, MinuteOfWeek DEF ClockShifts
  <2> QED
    BY <1>12, <2>1 DEF ClockShifts, InWindow
<1> QED
  BY <1>1, <1>2, <1>3, <1>4, <1>5, <1>6, <1>7, <1>8, <1>9, <1>10, <1>11, <1>12 DEF Next, Tick

(* The inductive invariant holds in every state.                            *)
THEOREM Invariance == Spec => []IInv
  BY InitIInv, NextIInv, PTL DEF Spec

(* The strategy and its calendar are typed: every window of every schedule  *)
(* lasts a minute at least and ends within the week.                        *)
THEOREM TypeCorrect == Spec => []TypeOK
<1>1. IInv => TypeOK
  BY DEF IInv
<1> QED
  BY <1>1, Invariance, PTL

(* A staged update never lets more minutes of a window go by than one pause *)
(* between ticks and the grace period.                                      *)
THEOREM BoundedHolding == Spec => []HeldBound
<1>1. IInv => HeldBound
  BY DEF IInv, TypeOK, PaceInv, HeldBound
<1> QED
  BY <1>1, Invariance, PTL

(* Finalizations are only tried within the declared windows, or in the      *)
(* minute in which one closes.                                              *)
THEOREM WithinDeclared == Spec => FinalizesInWindow
<1> DEFINE Step == phase = "staged" /\ (phase' = "finalized" \/ failures' # failures)
                     => DeclaredOrClosing(config, now)
<1>1. IInv /\ [Next]_vars => Step
  <2> SUFFICES ASSUME IInv, [Next]_vars, phase = "staged",
                      phase' = "finalized" \/ failures' # failures
               PROVE  DeclaredOrClosing(config, now)
    OBVIOUS
  <2>1. FinalizationSucceeds \/ FinalizationFails
    BY DEF Next, Tick, vars, agentVars, boundVars, Start, StartFails, StageUpdate,
           FinalizationDenied, FinalizationPostponed, Reboot, AgentExits, MinutePasses,
           ClockShifts
  <2>2. ContainsMinute(schedule, now)
    BY <2>1 DEF FinalizationSucceeds, FinalizationFails, CanFinalize
  <2> QED
    BY <2>2, ContainedIsDeclared DEF IInv, TypeOK, ScheduleInv
<1>2. IInv /\ [Next]_vars => [Step]_vars
  BY <1>1
<1> QED
  BY <1>1, Invariance, PTL DEF Spec, FinalizesInWindow

(* The calendar is right about the windows that the administrator declared: *)
(* it contains them, finds the nearest one, and measures them.              *)
THEOREM CalendarRight == Spec => []CalendarIsRight
<1>1. ASSUME IInv
      PROVE  CalendarIsRight
  <2> DEFINE declared == {m \in Minutes : Declared(config, m)}
             contained == {m \in Minutes : ContainsMinute(schedule, m)}
             ahead == {d \in 0 .. Week : (now + d) % Week \in contained}
             lasting == {m \in Minutes :
                           \E w \in schedule : w.start <= m /\ m < w.end - 1}
  <2> SUFFICES ASSUME schedule # {}
               PROVE  /\ declared \subseteq contained
                      /\ RemainingTo(schedule, now) = Min(ahead)
                      /\ NextWindowMinuteInWeek(schedule, now) = (now + Min(ahead)) % Week
                      /\ LengthMinutes(schedule) \in Cardinality(declared) .. Cardinality(contained)
    BY DEF CalendarIsRight
  <2>1. /\ config \in Configs /\ schedule = Schedule(config) /\ Accepts(config)
        /\ now \in Minutes
    BY <1>1 DEF IInv, TypeOK, ScheduleInv, Phases
  <2>2. /\ IsFiniteSet(schedule)
        /\ \A w \in schedule : WellFormed(w)
    BY <2>1, ScheduleFinite, ScheduleRanges
  <2>3. declared \subseteq lasting
    BY <2>1, DeclaredIsLasting
  <2>4. lasting \subseteq contained
    BY <2>2 DEF ContainsMinute, WellFormed, Minutes
  <2>5. /\ RemainingTo(schedule, now) = Min(ahead)
        /\ NextWindowMinuteInWeek(schedule, now) = (now + Min(ahead)) % Week
    BY <2>1, <2>2, NearestWindow
  <2>6. /\ LengthMinutes(schedule) \in Nat
        /\ Cardinality(lasting) <= LengthMinutes(schedule)
        /\ LengthMinutes(schedule) <= Cardinality(contained)
    BY <2>2, MeasuredLength
  <2>7. /\ declared \in SUBSET Minutes /\ lasting \in SUBSET Minutes
        /\ contained \in SUBSET Minutes
    OBVIOUS
  <2> HIDE DEF declared, lasting, contained, ahead
  <2>8. /\ Cardinality(declared) \in Nat /\ Cardinality(contained) \in Nat
        /\ Cardinality(lasting) \in Nat /\ Cardinality(declared) <= Cardinality(lasting)
    BY <2>3, <2>7, MinutesFinite, FS_Subset
  <2>9. LengthMinutes(schedule) \in Cardinality(declared) .. Cardinality(contained)
    BY <2>6, <2>8
  <2> QED
    BY <2>3, <2>4, <2>5, <2>9
<1> QED
  BY <1>1, Invariance, PTL
=============================================================================
