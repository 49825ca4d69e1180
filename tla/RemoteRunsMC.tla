---------------------------- MODULE RemoteRunsMC ----------------------------
(* Instances of RemoteRuns for TLC: two runs on one machine. *)
EXTENDS RemoteRunsInvariant, TLC

CONSTANTS r1, r2, p1

\* The default: every plan names the same result file.
SharedPath == [r \in Runs |-> p1]
=============================================================================
