SPECIFICATION FairSpec
CONSTANTS
  DayMinutes = 2
  MinDelay = 2
  MaxDelay = 3
  MaxPostponements = 2
  Configs <- AnyConfig
  Shifts <- DaylightSaving
  MaxShifts = 1
  MaxFailures = 1
  MaxExits = 1
INVARIANTS TypeOK HeldBound CalendarIsRight
PROPERTIES FinalizesInWindow WindowIsUsed
