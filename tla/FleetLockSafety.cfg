SPECIFICATION Spec
CONSTANTS
  n1 = n1
  n2 = n2
  n3 = n3
  Nodes <- ThreeNodes
  Slots = 2
  MayDisable = {n1, n2, n3}
  LateOps = {"pre_reboot"}
  MaxExits = 2
SYMMETRY NodeSymmetry
INVARIANTS TypeOK RebootHoldsSlot FleetStaysUp
PROPERTIES ImplementsRebootSlots
