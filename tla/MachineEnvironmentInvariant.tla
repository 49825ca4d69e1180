--------------------- MODULE MachineEnvironmentInvariant ---------------------
(***************************************************************************)
(* The inductive invariant of MachineEnvironment.                           *)
(***************************************************************************)
EXTENDS MachineEnvironment

\* Before the machine is created nothing refers to it.
NothingBeforeTheMachine ==
    status = "absent" =>
        /\ profile = "none"
        /\ snapshots = {}
        /\ \A r \in Requests : pc[r] = "idle" /\ run[r].status = "none"

\* Only a request that was answered has left a record.
RecordsAreAnswered ==
    \A r \in Requests :
        /\ r \in snapshots => pc[r] = "ok"
        /\ run[r].status # "none" => pc[r] = "ok"

\* Only a discovery that committed its run has reached a verdict.
VerdictsHaveRuns ==
    \A r \in Requests : run[r].verdict # "none" => run[r].status # "none"

\* A rerun holds the event loop: the list of steps it read is still the list.
RerunsHoldTheLoop ==
    \A r \in Requests : kind[r] = "rerun" /\ pc[r] # "idle" =>
        /\ run[target[r]].status # "none"
        /\ pc[r] = "open" => /\ dry[r]
                             /\ loaded[r].reruns = run[target[r]].reruns

\* A report knows the present mode, or was open when the mode was changed.
ModesAreKnown ==
    \A r \in Requests : pc[r] = "open" /\ kind[r] # "rerun" =>
        loaded[r].mode = mode \/ r \in outdated

IInv ==
    /\ TypeOK
    /\ NothingBeforeTheMachine
    /\ RecordsAreAnswered
    /\ VerdictsHaveRuns
    /\ RerunsHoldTheLoop
    /\ ModesAreKnown
    /\ ProfileHasASnapshot
    /\ NothingOutlivesTheMachine
    /\ StatusIsRecorded
    /\ RerunsAreKept
=============================================================================
