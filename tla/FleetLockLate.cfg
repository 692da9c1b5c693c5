SPECIFICATION Spec
CONSTANTS
  n1 = n1
  n2 = n2
  n3 = n3
  Nodes <- TwoNodes
  Slots = 1
  MayDisable = {}
  LateOps = {"steady_state"}
  MaxExits = 0
INVARIANTS RebootHoldsSlot
