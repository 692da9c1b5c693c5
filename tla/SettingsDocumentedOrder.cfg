SPECIFICATION Spec
CONSTANTS
  DayMinutes = 2
  FileNames = {1, 2, 3}
  ValidGroups = {"default", "workers"}
  ValidUuids = {"u0"}
  KnownZones = {"UTC"}
  Node <- MCNode
  Fragments <- MCFragments
  UpdateNowName = 2
  DistConfig <- MCDistConfig
  MaxInterventions = 2
INVARIANT
  DocumentedOrder
CHECK_DEADLOCK FALSE
