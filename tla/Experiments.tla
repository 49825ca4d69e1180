---------------------------- MODULE Experiments ----------------------------
(***************************************************************************)
(* Experiments with their trials, metrics, jobs and reports, and the         *)
(* deletion of the machine under them (api/v1.py 623-718, 1453-1660,         *)
(* 1702-1830, 965-971).                                                      *)
(*                                                                          *)
(* Every handler is a thread with one session.  Requests are used once; the  *)
(* id of a request is also the id of the rows it inserts.  PostgreSQL reads   *)
(* committed rows, statement by statement; the INSERT of an experiment locks  *)
(* its machine against deletion until the transaction ends.  Models cannot    *)
(* be deleted and are left out, parameters and measured values as well.      *)
(***************************************************************************)
EXTENDS Integers

CONSTANTS
    Machines,
    Requests,
    TrialCounts,    \* how many candidates a plan may have
    Nothing

ASSUME CountAssumption == TrialCounts \subseteq Nat
ASSUME NothingAssumption == Nothing \notin Requests /\ Nothing \notin Machines

VARIABLES
    machines,       \* the committed machine rows
    experiments,    \* the committed experiments: by request, or Nothing
    trials,         \* indices of the committed trials of an experiment
    metrics,        \* trials that have a metrics_summary row
    jobs,           \* trial_count of the job row, -1 without one
    reports,        \* by request: of which experiment, measured or not
    pc,
    target,         \* the machine or the experiment of a request
    seen,           \* the experiment a copy has loaded
    found           \* trials or metrics that a reader has loaded; at the end of
                    \* a table, those of them that have no counterpart

tables == <<machines, experiments, trials, metrics, jobs, reports>>
vars == <<tables, pc, target, seen, found>>

\* JobStatus, the only values ExperimentRead accepts.
JobStatus == {"queued", "running", "succeeded", "failed", "canceled"}

\* job is the request whose job row the reproducibility record cites.
Experiment == [machine : Machines, status : {"succeeded", "created", "canceled"},
               candidate_count : Nat, job : Requests]
Report == [experiment : Requests, measured : BOOLEAN]

ASSUME RowAssumption == Nothing \notin Experiment /\ Nothing \notin Report

Exists(e) == experiments[e] # Nothing

Stages == {"idle", "creating", "planning", "copying", "canceling",
           "reporting", "rendering", "tabling", "joining", "tabled",
           "deleting", "done", "failed"}

TypeOK ==
    /\ machines \subseteq Machines
    /\ experiments \in [Requests -> Experiment \cup {Nothing}]
    /\ trials \in [Requests -> SUBSET Nat]
    /\ metrics \in [Requests -> SUBSET Nat]
    /\ jobs \in [Requests -> Int]
    /\ reports \in [Requests -> Report \cup {Nothing}]
    /\ pc \in [Requests -> Stages]
    /\ target \in [Requests -> Machines \cup Requests \cup {Nothing}]
    /\ seen \in [Requests -> Experiment \cup {Nothing}]
    /\ found \in [Requests -> SUBSET Nat]

Init ==
    /\ machines = Machines
    /\ experiments = [e \in Requests |-> Nothing]
    /\ trials = [e \in Requests |-> {}]
    /\ metrics = [e \in Requests |-> {}]
    /\ jobs = [e \in Requests |-> -1]
    /\ reports = [r \in Requests |-> Nothing]
    /\ pc = [r \in Requests |-> "idle"]
    /\ target = [r \in Requests |-> Nothing]
    /\ seen = [r \in Requests |-> Nothing]
    /\ found = [r \in Requests |-> {}]

Goto(r, stage) == pc' = [pc EXCEPT ![r] = stage]

\* The handler has loaded the row it is about.
LoadMachine(r, stage) ==
    /\ pc[r] = "idle"
    /\ \E m \in machines : target' = [target EXCEPT ![r] = m]
    /\ Goto(r, stage)
    /\ UNCHANGED <<tables, seen, found>>

LoadExperiment(r, stage) ==
    /\ pc[r] = "idle"
    /\ \E e \in Requests :
         /\ Exists(e)
         /\ target' = [target EXCEPT ![r] = e]
         /\ seen' = [seen EXCEPT ![r] = experiments[e]]
    /\ Goto(r, stage)
    /\ UNCHANGED <<tables, found>>

\* There is no row with the id of the request: 404.
NotFound(r) ==
    /\ pc[r] = "idle"
    /\ Goto(r, "failed")
    /\ UNCHANGED <<tables, target, seen, found>>

-----------------------------------------------------------------------------
\* create_experiment.  The flush inserts the experiment and takes the lock.
InsertExperiment(r) ==
    /\ pc[r] = "creating"
    /\ target[r] \in machines
    /\ Goto(r, "planning")
    /\ UNCHANGED <<tables, target, seen, found>>

\* The foreign key: the machine was deleted after it was loaded.
CreateRefused(r) ==
    /\ pc[r] = "creating"
    /\ target[r] \notin machines
    /\ Goto(r, "failed")
    /\ UNCHANGED <<tables, target, seen, found>>

\* The LLM call raises, or the process stops: nothing was committed.
PlanFails(r) ==
    /\ pc[r] = "planning"
    /\ Goto(r, "failed")
    /\ UNCHANGED <<tables, target, seen, found>>

\* Mutant: the experiment is committed before its trials.
CommitEarly(r) ==
    /\ pc[r] = "planning"
    /\ IF Exists(r)
       THEN /\ trials' = [trials EXCEPT ![r] = 1 .. experiments[r].candidate_count]
            /\ metrics' = [metrics EXCEPT ![r] = 1 .. experiments[r].candidate_count]
            /\ Goto(r, "done")
            /\ UNCHANGED <<experiments, jobs>>
       ELSE /\ \E n \in TrialCounts :
                 /\ experiments' = [experiments EXCEPT ![r] =
                      [machine |-> target[r], status |-> "succeeded",
                       candidate_count |-> n, job |-> r]]
                 /\ jobs' = [jobs EXCEPT ![r] = n]
            /\ UNCHANGED <<trials, metrics, pc>>
    /\ UNCHANGED <<machines, reports, target, seen, found>>

\* Experiment, trials, metrics and job are one transaction.
CommitCreate(r) ==
    /\ pc[r] = "planning"
    /\ \E n \in TrialCounts :
         /\ experiments' = [experiments EXCEPT ![r] =
              [machine |-> target[r], status |-> "succeeded",
               candidate_count |-> n, job |-> r]]
         /\ trials' = [trials EXCEPT ![r] = 1 .. n]
         /\ metrics' = [metrics EXCEPT ![r] = 1 .. n]
         /\ jobs' = [jobs EXCEPT ![r] = n]
    /\ Goto(r, "done")
    /\ UNCHANGED <<machines, reports, target, seen, found>>

-----------------------------------------------------------------------------
\* Mutant: the copy cites a job of its own, which nobody inserted.
CopyCitesItself(original, r) == [original EXCEPT !.status = "created", !.job = r]

\* The copied row: a new status, the reproducibility record as it was.
CloneOf(original, r) == [original EXCEPT !.status = "created"]

\* copy_experiment.  The commit comes before the response is built, and the
\* response model does not know the status: the client gets an error.  The
\* foreign key never refuses the row, since MachineIsKept holds.
CommitCopy(r) ==
    /\ pc[r] = "copying"
    /\ experiments' = [experiments EXCEPT ![r] = CloneOf(seen[r], r)]
    /\ Goto(r, "failed")
    /\ UNCHANGED <<machines, trials, metrics, jobs, reports, target, seen, found>>

\* Mutant: a spelling that JobStatus does not know.
CancelMisspelt(r) ==
    /\ pc[r] = "canceling"
    /\ experiments' = [experiments EXCEPT ![target[r]].status = "cancelled"]
    /\ Goto(r, "done")
    /\ UNCHANGED <<machines, trials, metrics, jobs, reports, target, seen, found>>

\* cancel_experiment, whatever the status was.
CommitCancel(r) ==
    /\ pc[r] = "canceling"
    /\ experiments' = [experiments EXCEPT ![target[r]].status = "canceled"]
    /\ Goto(r, "done")
    /\ UNCHANGED <<machines, trials, metrics, jobs, reports, target, seen, found>>

\* generate_report: one metrics row is read, then artifact and report are one
\* transaction.
ReadMetrics(r) ==
    /\ pc[r] = "reporting"
    /\ found' = [found EXCEPT ![r] = metrics[target[r]]]
    /\ Goto(r, "rendering")
    /\ UNCHANGED <<tables, target, seen>>

CommitReport(r) ==
    /\ pc[r] = "rendering"
    /\ reports' = [reports EXCEPT ![r] =
         [experiment |-> target[r], measured |-> found[r] # {}]]
    /\ Goto(r, "done")
    /\ UNCHANGED <<machines, experiments, trials, metrics, jobs, target, seen, found>>

\* _company_report_read: trials by one query, metrics by another.
ReadTrials(r) ==
    /\ pc[r] = "tabling"
    /\ found' = [found EXCEPT ![r] = trials[target[r]]]
    /\ Goto(r, "joining")
    /\ UNCHANGED <<tables, target, seen>>

JoinMetrics(r) ==
    /\ pc[r] = "joining"
    /\ found' = [found EXCEPT ![r] =
         (metrics[target[r]] \ found[r]) \cup (found[r] \ metrics[target[r]])]
    /\ Goto(r, "tabled")
    /\ UNCHANGED <<tables, target, seen>>

-----------------------------------------------------------------------------
\* The lock of an open transaction that has inserted an experiment.
Locked(m) == \E r \in Requests : pc[r] = "planning" /\ target[r] = m

Referenced(m) == \E e \in Requests : Exists(e) /\ experiments[e].machine = m

\* Mutant: a foreign key that is not enforced (SQLite's default).
DeleteUnchecked(r) ==
    /\ pc[r] = "deleting"
    /\ machines' = machines \ {target[r]}
    /\ Goto(r, "done")
    /\ UNCHANGED <<experiments, trials, metrics, jobs, reports, target, seen, found>>

\* delete_machine.  The DELETE waits for the lock.
CommitDelete(r) ==
    /\ pc[r] = "deleting"
    /\ ~Locked(target[r]) /\ ~Referenced(target[r])
    /\ machines' = machines \ {target[r]}
    /\ Goto(r, "done")
    /\ UNCHANGED <<experiments, trials, metrics, jobs, reports, target, seen, found>>

DeleteRefused(r) ==
    /\ pc[r] = "deleting"
    /\ ~Locked(target[r]) /\ Referenced(target[r])
    /\ Goto(r, "failed")
    /\ UNCHANGED <<tables, target, seen, found>>

Create(r) == \/ LoadMachine(r, "creating") \/ InsertExperiment(r)
             \/ CreateRefused(r) \/ PlanFails(r) \/ CommitCreate(r)
Copy(r) == LoadExperiment(r, "copying") \/ CommitCopy(r)
Cancel(r) == LoadExperiment(r, "canceling") \/ CommitCancel(r)
Render(r) == LoadExperiment(r, "reporting") \/ ReadMetrics(r) \/ CommitReport(r)
Tabulate(r) == LoadExperiment(r, "tabling") \/ ReadTrials(r) \/ JoinMetrics(r)
Delete(r) == LoadMachine(r, "deleting") \/ CommitDelete(r) \/ DeleteRefused(r)

Next == \E r \in Requests : \/ NotFound(r) \/ Create(r) \/ Copy(r) \/ Cancel(r)
                            \/ Render(r) \/ Tabulate(r) \/ Delete(r)

Spec == Init /\ [][Next]_vars

-----------------------------------------------------------------------------
\* What an experiment's reproducibility record cites can be looked up: the
\* job exists and its experiment, on the same machine, has as many trials as
\* there were candidates, each with its metrics.  A copy cites the original's.
EvidenceIsReachable ==
    \A e \in Requests : Exists(e) =>
        LET o == experiments[e].job
            n == experiments[e].candidate_count
        IN /\ Exists(o)
           /\ experiments[o].machine = experiments[e].machine
           /\ jobs[o] = n
           /\ trials[o] = 1 .. n /\ metrics[o] = 1 .. n

\* No experiment, committed or about to be, loses its machine to DELETE.
MachineIsKept ==
    /\ \A e \in Requests : Exists(e) => experiments[e].machine \in machines
    /\ \A r \in Requests : pc[r] = "planning" => target[r] \in machines

\* A report says the same of its experiment for good: it shows metrics exactly
\* if the experiment has some.
ReportIsAccurate ==
    \A r \in Requests : reports[r] # Nothing =>
        /\ Exists(reports[r].experiment)
        /\ reports[r].measured <=> metrics[reports[r].experiment] # {}

\* A company table has a row for every trial, and every row has its trial,
\* although trials and metrics come from different queries.
TableIsWhole == \A r \in Requests : pc[r] = "tabled" => found[r] = {}

\* ExperimentRead rejects a status that JobStatus does not know, and with it
\* every listing that contains the row.  Such a row is always a copy, whose
\* client was told that copying failed: it cites the job of another request.
UnreadableIsAFailedCopy ==
    \A e \in Requests :
        Exists(e) /\ experiments[e].status \notin JobStatus =>
            pc[e] = "failed" /\ experiments[e].job # e
=============================================================================
