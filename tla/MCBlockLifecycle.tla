-------------------------- MODULE MCBlockLifecycle --------------------------
(* BlockLifecycle with one variable that varies and one that does not.     *)
EXTENDS BlockLifecycle, TLC

CONSTANTS field, mesh, r1, r2, r3

RegionSymmetry == Permutations(Regions)
=============================================================================
