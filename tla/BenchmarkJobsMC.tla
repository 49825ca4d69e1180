-------------------------- MODULE BenchmarkJobsMC --------------------------
(* Instances of BenchmarkJobs for TLC. *)
EXTENDS BenchmarkJobsInvariant, TLC

JobSymmetry == Permutations(Jobs)

\* Only remote_rq requests: those that wait for the queue and for a worker.
RqNext == \E j \in Jobs :
    CommitQueuedRow(j) \/ RequestStep(j) \/ Dequeue(j) \/ WorkerStep(j)
    \/ Fault(j)

RqFairSpec == Init /\ [][RqNext]_vars /\ Fairness
=============================================================================
