SPECIFICATION FairSpec
CONSTANTS
  n1 = n1
  n2 = n2
  n3 = n3
  Nodes <- TwoNodes
  Slots = 1
  MayDisable = {}
  LateOps = {}
  MaxExits = 1
PROPERTIES SlotIsReleased FleetUpdates
