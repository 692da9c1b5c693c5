SPECIFICATION Spec
CONSTANTS
  DayMinutes = 2
  MinDelay = 2
  MaxDelay = 3
  MaxPostponements = 2
  Configs <- DocumentedConfig
  Shifts <- DaylightSaving
  MaxShifts = 0
  MaxFailures = 0
  MaxExits = 0
INVARIANTS DocumentedConfigStarts
