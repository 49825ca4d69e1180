--------------------------- MODULE ExperimentsMC ---------------------------
(* Instances of Experiments for TLC. *)
EXTENDS Experiments, TLC

RowSymmetry == Permutations(Requests) \cup Permutations(Machines)
=============================================================================
