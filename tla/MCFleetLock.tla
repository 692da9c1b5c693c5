----------------------------- MODULE MCFleetLock -----------------------------
(* Constants of the model-checking runs of FleetLock.                       *)
EXTENDS FleetLock, TLC

CONSTANTS n1, n2, n3

TwoNodes == {n1, n2}
ThreeNodes == {n1, n2, n3}
NodeSymmetry == Permutations(ThreeNodes)
=============================================================================
