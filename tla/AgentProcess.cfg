SPECIFICATION FairSpec
CONSTANTS
  DayMinutes = 2
  FileNames = {1, 2, 3}
  ValidGroups = {"default", "workers"}
  ValidUuids = {"u0"}
  KnownZones = {"UTC"}
  Node <- MCNode
  Fragments <- MCFragments
  UpdateNowName = 2
  DistConfig <- MCDistConfig
  MaxInterventions = 2
INVARIANTS TypeOK SettingsFollowFiles UpdateNowIsObeyed
PROPERTY AgentGetsReady
CHECK_DEADLOCK FALSE
