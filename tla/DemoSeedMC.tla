----------------------------- MODULE DemoSeedMC -----------------------------
(* Instances of DemoSeed for TLC. *)
EXTENDS DemoSeed, TLC

SeederSymmetry == Permutations(Seeders)
=============================================================================
