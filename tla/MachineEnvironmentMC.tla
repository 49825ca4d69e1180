------------------------ MODULE MachineEnvironmentMC ------------------------
(* Instances of MachineEnvironment and MachineBootstrap for TLC. *)
EXTENDS MachineBootstrap, TLC

RequestSymmetry == Permutations(Requests)

\* The parts of the profiles that write daemon.json, and a list of a client.
DaemonPlans == {<<"B2">>, <<"B2", "B5">>}
=============================================================================
