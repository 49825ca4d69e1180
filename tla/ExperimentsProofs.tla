------------------------- MODULE ExperimentsProofs -------------------------
(***************************************************************************)
(* For any number of GPUs and any budget: the matrix a new experiment plans. *)
(* For any plan and scores: what the tuning loop keeps.  For any machines,   *)
(* requests and plans: what an experiment cites can be looked up, it keeps   *)
(* its machine, and its reports and tables are right.                       *)
(***************************************************************************)
EXTENDS Experiments, Planning, FiniteSetTheorems, TLAPS

-----------------------------------------------------------------------------
(* The rows of the experiments: Experiments.                                *)

\* A request that has not committed a row has none.
Fresh ==
    \A r \in Requests :
        pc[r] \in {"idle", "creating", "planning", "copying"} => ~Exists(r)

\* What a request has loaded is still there, and as it was.
Loaded ==
    \A r \in Requests :
        /\ pc[r] \in {"creating", "planning", "deleting"} => target[r] \in Machines
        /\ pc[r] \in {"copying", "canceling", "reporting", "rendering",
                      "tabling", "joining"} => /\ target[r] \in Requests
                                               /\ Exists(target[r])
        /\ pc[r] = "copying" =>
             /\ seen[r] \in Experiment
             /\ experiments[target[r]].machine = seen[r].machine
             /\ experiments[target[r]].candidate_count = seen[r].candidate_count
             /\ experiments[target[r]].job = seen[r].job
        /\ pc[r] \in {"rendering", "joining"} => found[r] = metrics[target[r]]

\* Trials and their metrics are committed together.
Paired == \A e \in Requests : trials[e] = metrics[e]

ExperimentsInv ==
    /\ TypeOK
    /\ Fresh
    /\ Loaded
    /\ Paired
    /\ EvidenceIsReachable
    /\ MachineIsKept
    /\ ReportIsAccurate
    /\ TableIsWhole

LEMMA InitExperiments == Init => ExperimentsInv
  <1> SUFFICES ASSUME Init PROVE ExperimentsInv
    OBVIOUS
  <1>1. TypeOK
    BY DEF Init, TypeOK, Stages
  <1> QED
    BY <1>1 DEF Init, ExperimentsInv, Fresh, Loaded, Paired, Exists,
         EvidenceIsReachable, MachineIsKept, ReportIsAccurate, TableIsWhole

\* A step that moves one request and writes no table.
LEMMA ReadingKeeps ==
  ASSUME ExperimentsInv, NEW r \in Requests, UNCHANGED tables,
         \A q \in Requests \ {r} : /\ pc'[q] = pc[q] /\ target'[q] = target[q]
                                   /\ seen'[q] = seen[q] /\ found'[q] = found[q],
         TypeOK',
         pc'[r] \in {"idle", "creating", "planning", "copying"} => ~Exists(r),
         pc'[r] = "planning" => target'[r] \in machines,
         pc'[r] = "tabled" => found'[r] = {},
         pc'[r] \in {"creating", "planning", "deleting"} => target'[r] \in Machines,
         pc'[r] \in {"copying", "canceling", "reporting", "rendering",
                     "tabling", "joining"} => /\ target'[r] \in Requests
                                              /\ Exists(target'[r]),
         pc'[r] = "copying" => seen'[r] = experiments[target'[r]],
         pc'[r] \in {"rendering", "joining"} => found'[r] = metrics[target'[r]]
  PROVE  ExperimentsInv'
  <1>1. /\ machines' = machines /\ experiments' = experiments /\ trials' = trials
        /\ metrics' = metrics /\ jobs' = jobs /\ reports' = reports
    BY DEF tables
  <1>2. Fresh'
    BY <1>1 DEF ExperimentsInv, Fresh, Exists
  <1>3. Loaded'
    <2> SUFFICES ASSUME NEW q \in Requests PROVE Loaded!(q)'
      BY DEF Loaded
    <2>1. CASE q = r
      <3>1. pc'[r] = "copying" => seen'[r] \in Experiment
        BY NothingAssumption DEF ExperimentsInv, TypeOK, Exists
      <3> QED BY <1>1, <2>1, <3>1 DEF Exists
    <2>2. CASE q # r
      BY <1>1, <2>2 DEF ExperimentsInv, Loaded, Exists
    <2> QED BY <2>1, <2>2
  <1>4. Paired' /\ EvidenceIsReachable' /\ ReportIsAccurate'
    BY <1>1 DEF ExperimentsInv, Paired, EvidenceIsReachable, ReportIsAccurate, Exists
  <1>5. MachineIsKept'
    BY <1>1 DEF ExperimentsInv, MachineIsKept, Exists
  <1>6. TableIsWhole'
    BY <1>1 DEF ExperimentsInv, TableIsWhole
  <1> QED BY <1>2, <1>3, <1>4, <1>5, <1>6 DEF ExperimentsInv

LEMMA LoadingMachineKeeps ==
  ASSUME ExperimentsInv, NEW r \in Requests,
         NEW stage \in {"creating", "deleting"}, LoadMachine(r, stage)
  PROVE  ExperimentsInv'
  <1>1. TypeOK'
    BY DEF ExperimentsInv, TypeOK, LoadMachine, tables, Goto, Stages
  <1> QED
    BY <1>1, ReadingKeeps DEF ExperimentsInv, TypeOK, LoadMachine, Goto, Fresh

LEMMA LoadingExperimentKeeps ==
  ASSUME ExperimentsInv, NEW r \in Requests,
         NEW stage \in {"copying", "canceling", "reporting", "tabling"},
         LoadExperiment(r, stage)
  PROVE  ExperimentsInv'
  <1>1. TypeOK'
    BY DEF ExperimentsInv, TypeOK, LoadExperiment, tables, Goto, Stages
  <1> QED
    BY <1>1, ReadingKeeps DEF ExperimentsInv, TypeOK, LoadExperiment, Goto, Fresh

LEMMA FailingKeeps ==
  ASSUME ExperimentsInv, NEW r \in Requests,
         NotFound(r) \/ CreateRefused(r) \/ PlanFails(r) \/ DeleteRefused(r)
  PROVE  ExperimentsInv'
  <1>1. TypeOK'
    BY DEF ExperimentsInv, TypeOK, NotFound, CreateRefused, PlanFails,
           DeleteRefused, tables, Goto, Stages
  <1> QED
    BY <1>1, ReadingKeeps DEF ExperimentsInv, TypeOK, NotFound, CreateRefused,
       PlanFails, DeleteRefused, Goto

LEMMA InsertingKeeps ==
  ASSUME ExperimentsInv, NEW r \in Requests, InsertExperiment(r)
  PROVE  ExperimentsInv'
  <1>1. TypeOK'
    BY DEF ExperimentsInv, TypeOK, InsertExperiment, tables, Goto, Stages
  <1> QED
    BY <1>1, ReadingKeeps
    DEF ExperimentsInv, TypeOK, InsertExperiment, Goto, Fresh

LEMMA ReadersKeep ==
  ASSUME ExperimentsInv, NEW r \in Requests,
         ReadMetrics(r) \/ ReadTrials(r) \/ JoinMetrics(r)
  PROVE  ExperimentsInv'
  <1>1. pc[r] \in {"reporting", "tabling", "joining"}
    BY DEF ReadMetrics, ReadTrials, JoinMetrics
  <1>2. target[r] \in Requests /\ Exists(target[r])
    BY <1>1 DEF ExperimentsInv, Loaded
  <1>3. /\ metrics[target[r]] \in SUBSET Nat
        /\ trials[target[r]] = metrics[target[r]]
        /\ found[r] \in SUBSET Nat
    BY <1>2 DEF ExperimentsInv, TypeOK, Paired
  <1>4. pc[r] = "joining" => found[r] = metrics[target[r]]
    BY DEF ExperimentsInv, Loaded
  <1>5. TypeOK'
    BY <1>3 DEF ExperimentsInv, TypeOK, ReadMetrics, ReadTrials, JoinMetrics,
                tables, Goto, Stages
  <1>6. CASE ReadMetrics(r)
    BY <1>2, <1>3, <1>5, <1>6, ReadingKeeps
    DEF ExperimentsInv, TypeOK, ReadMetrics, Goto
  <1>7. CASE ReadTrials(r)
    BY <1>2, <1>3, <1>5, <1>7, ReadingKeeps
    DEF ExperimentsInv, TypeOK, ReadTrials, Goto
  <1>8. CASE JoinMetrics(r)
    <2>1. found' = [found EXCEPT ![r] = {}] /\ pc' = [pc EXCEPT ![r] = "tabled"]
      BY <1>3, <1>4, <1>8 DEF JoinMetrics, Goto
    <2> QED
      BY <1>5, <1>8, <2>1, ReadingKeeps DEF ExperimentsInv, TypeOK, JoinMetrics
  <1> QED BY <1>6, <1>7, <1>8

-----------------------------------------------------------------------------
LEMMA CreatingKeeps ==
  ASSUME ExperimentsInv, NEW r \in Requests, CommitCreate(r)
  PROVE  ExperimentsInv'
  <1>1. PICK n \in TrialCounts :
          /\ experiments' = [experiments EXCEPT ![r] =
               [machine |-> target[r], status |-> "succeeded",
                candidate_count |-> n, job |-> r]]
          /\ trials' = [trials EXCEPT ![r] = 1 .. n]
          /\ metrics' = [metrics EXCEPT ![r] = 1 .. n]
          /\ jobs' = [jobs EXCEPT ![r] = n]
    BY DEF CommitCreate
  <1>2. /\ pc[r] = "planning" /\ pc' = [pc EXCEPT ![r] = "done"]
        /\ machines' = machines /\ reports' = reports /\ target' = target
        /\ seen' = seen /\ found' = found
    BY DEF CommitCreate, Goto
  <1>3. n \in Nat /\ target[r] \in Machines /\ target[r] \in machines /\ ~Exists(r)
    BY <1>2, CountAssumption DEF ExperimentsInv, Loaded, MachineIsKept, Fresh
  <1>4. TypeOK
    BY DEF ExperimentsInv
  <1>5. /\ experiments'[r] = [machine |-> target[r], status |-> "succeeded",
                              candidate_count |-> n, job |-> r]
        /\ experiments'[r] \in Experiment
        /\ Exists(r)'
    BY <1>1, <1>3, <1>4, RowAssumption DEF TypeOK, Exists, Experiment
  <1>6. \A e \in Requests \ {r} :
          /\ experiments'[e] = experiments[e] /\ trials'[e] = trials[e]
          /\ metrics'[e] = metrics[e] /\ jobs'[e] = jobs[e]
          /\ (Exists(e)' <=> Exists(e))
    BY <1>1, <1>4 DEF TypeOK, Exists
  <1>7. trials'[r] = 1 .. n /\ metrics'[r] = 1 .. n /\ jobs'[r] = n
    BY <1>1, <1>4 DEF TypeOK
  <1>8. TypeOK'
    <2>1. 1 .. n \in SUBSET Nat
      BY <1>3
    <2> QED BY <1>1, <1>2, <1>3, <1>4, <1>5, <2>1 DEF TypeOK, Stages
  <1>9. Fresh'
    BY <1>2, <1>4, <1>6 DEF ExperimentsInv, Fresh, TypeOK
  <1>10. Loaded'
    <2> SUFFICES ASSUME NEW q \in Requests, q # r PROVE Loaded!(q)'
      BY <1>2, <1>4 DEF Loaded, TypeOK
    <2>1. pc'[q] = pc[q] /\ Loaded!(q)
      BY <1>2, <1>4 DEF ExperimentsInv, Loaded, TypeOK
    <2>2. target[q] \in Requests /\ Exists(target[q]) => target[q] # r
      BY <1>3
    <2> QED BY <1>2, <1>6, <2>1, <2>2
  <1>11. Paired'
    BY <1>6, <1>7 DEF ExperimentsInv, Paired
  <1>12. EvidenceIsReachable'
    <2> SUFFICES ASSUME NEW e \in Requests, Exists(e)' PROVE EvidenceIsReachable!(e)!2'
      BY DEF EvidenceIsReachable
    <2>1. CASE e = r
      BY <1>5, <1>7, <2>1
    <2>2. CASE e # r
      <3>1. Exists(e) /\ EvidenceIsReachable!(e)!2
        BY <1>6, <2>2 DEF ExperimentsInv, EvidenceIsReachable
      <3>2. experiments[e].job \in Requests /\ experiments[e].job # r
        BY <1>3, <1>4, <3>1 DEF TypeOK, Exists, Experiment
      <3> QED BY <1>6, <2>2, <3>1, <3>2
    <2> QED BY <2>1, <2>2
  <1>13. MachineIsKept'
    BY <1>2, <1>3, <1>4, <1>5, <1>6 DEF ExperimentsInv, MachineIsKept, TypeOK
  <1>14. ReportIsAccurate'
    <2> SUFFICES ASSUME NEW q \in Requests, reports[q] # Nothing
                 PROVE  /\ Exists(reports[q].experiment)'
                        /\ reports[q].measured <=> metrics'[reports[q].experiment] # {}
      BY <1>2 DEF ReportIsAccurate
    <2>1. reports[q].experiment \in Requests
      BY <1>4 DEF TypeOK, Report
    <2>2. Exists(reports[q].experiment) /\ ReportIsAccurate!(q)!2!2
      BY DEF ExperimentsInv, ReportIsAccurate
    <2>3. reports[q].experiment # r
      BY <1>3, <2>2
    <2>4. Exists(reports[q].experiment)'
      BY <1>2, <1>6, <2>1, <2>2, <2>3 DEF Exists
    <2>5. metrics'[reports[q].experiment] = metrics[reports[q].experiment]
      BY <1>6, <2>1, <2>3
    <2> QED BY <2>2, <2>4, <2>5
  <1>15. TableIsWhole'
    BY <1>2, <1>4 DEF ExperimentsInv, TableIsWhole, TypeOK
  <1> QED
    BY <1>8, <1>9, <1>10, <1>11, <1>12, <1>13, <1>14, <1>15 DEF ExperimentsInv

LEMMA CopyingKeeps ==
  ASSUME ExperimentsInv, NEW r \in Requests, CommitCopy(r)
  PROVE  ExperimentsInv'
  <1> DEFINE o == target[r]
  <1>1. /\ pc[r] = "copying" /\ pc' = [pc EXCEPT ![r] = "failed"]
        /\ experiments' = [experiments EXCEPT ![r] = CloneOf(seen[r], r)]
        /\ machines' = machines /\ trials' = trials /\ metrics' = metrics
        /\ jobs' = jobs /\ reports' = reports /\ target' = target
        /\ seen' = seen /\ found' = found
    BY DEF CommitCopy, Goto
  <1>2. TypeOK
    BY DEF ExperimentsInv
  <1>3. /\ ~Exists(r) /\ o \in Requests /\ Exists(o) /\ seen[r] \in Experiment
        /\ experiments[o].machine = seen[r].machine
        /\ experiments[o].candidate_count = seen[r].candidate_count
        /\ experiments[o].job = seen[r].job
    BY <1>1 DEF ExperimentsInv, Fresh, Loaded
  <1>4. /\ experiments'[r] \in Experiment
        /\ experiments'[r].machine = experiments[o].machine
        /\ experiments'[r].candidate_count = experiments[o].candidate_count
        /\ experiments'[r].job = experiments[o].job
        /\ Exists(r)'
    BY <1>1, <1>2, <1>3, RowAssumption DEF TypeOK, CloneOf, Experiment, Exists
  <1>5. \A e \in Requests \ {r} : /\ experiments'[e] = experiments[e]
                                  /\ (Exists(e)' <=> Exists(e))
    BY <1>1, <1>2 DEF TypeOK, Exists
  <1>6. TypeOK'
    BY <1>1, <1>2, <1>4 DEF TypeOK, Stages
  <1>7. Fresh'
    BY <1>1, <1>2, <1>5 DEF ExperimentsInv, Fresh, TypeOK
  <1>8. Loaded'
    <2> SUFFICES ASSUME NEW q \in Requests, q # r PROVE Loaded!(q)'
      BY <1>1, <1>2 DEF Loaded, TypeOK
    <2>1. pc'[q] = pc[q] /\ Loaded!(q)
      BY <1>1, <1>2 DEF ExperimentsInv, Loaded, TypeOK
    <2>2. target[q] \in Requests /\ Exists(target[q]) => target[q] # r
      BY <1>3
    <2> QED BY <1>1, <1>5, <2>1, <2>2
  <1>9. EvidenceIsReachable'
    <2>1. \A e \in Requests : Exists(e) =>
            /\ experiments[e].job \in Requests /\ experiments[e].job # r
            /\ EvidenceIsReachable!(e)!2
      BY <1>2, <1>3 DEF ExperimentsInv, EvidenceIsReachable, TypeOK, Exists, Experiment
    <2> SUFFICES ASSUME NEW e \in Requests, Exists(e)' PROVE EvidenceIsReachable!(e)!2'
      BY DEF EvidenceIsReachable
    <2>2. CASE e = r
      BY <1>1, <1>3, <1>4, <1>5, <2>1, <2>2
    <2>3. CASE e # r
      BY <1>1, <1>5, <2>1, <2>3
    <2> QED BY <2>2, <2>3
  <1>10. MachineIsKept'
    BY <1>1, <1>2, <1>3, <1>4, <1>5 DEF ExperimentsInv, MachineIsKept, TypeOK
  <1>11. ReportIsAccurate'
    <2> SUFFICES ASSUME NEW q \in Requests, reports[q] # Nothing
                 PROVE  /\ Exists(reports[q].experiment)'
                        /\ reports[q].measured <=> metrics[reports[q].experiment] # {}
      BY <1>1 DEF ReportIsAccurate
    <2>1. reports[q].experiment \in Requests
      BY <1>2 DEF TypeOK, Report
    <2>2. Exists(reports[q].experiment) /\ ReportIsAccurate!(q)!2!2
      BY DEF ExperimentsInv, ReportIsAccurate
    <2>3. reports[q].experiment # r
      BY <1>3, <2>2
    <2>4. Exists(reports[q].experiment)'
      BY <1>1, <1>5, <2>1, <2>2, <2>3 DEF Exists
    <2> QED BY <2>2, <2>4
  <1>12. Paired' /\ TableIsWhole'
    BY <1>1, <1>2 DEF ExperimentsInv, Paired, TableIsWhole, TypeOK
  <1> QED
    BY <1>6, <1>7, <1>8, <1>9, <1>10, <1>11, <1>12 DEF ExperimentsInv

LEMMA CancelingKeeps ==
  ASSUME ExperimentsInv, NEW r \in Requests, CommitCancel(r)
  PROVE  ExperimentsInv'
  <1> DEFINE o == target[r]
  <1>1. /\ pc[r] = "canceling" /\ pc' = [pc EXCEPT ![r] = "done"]
        /\ experiments' = [experiments EXCEPT ![o].status = "canceled"]
        /\ machines' = machines /\ trials' = trials /\ metrics' = metrics
        /\ jobs' = jobs /\ reports' = reports /\ target' = target
        /\ seen' = seen /\ found' = found
    BY DEF CommitCancel, Goto
  <1>2. TypeOK
    BY DEF ExperimentsInv
  <1>3. o \in Requests /\ Exists(o) /\ experiments[o] \in Experiment
    BY <1>1, <1>2 DEF ExperimentsInv, Loaded, TypeOK, Exists
  <1>4. /\ experiments'[o] \in Experiment
        /\ experiments'[o].machine = experiments[o].machine
        /\ experiments'[o].candidate_count = experiments[o].candidate_count
        /\ experiments'[o].job = experiments[o].job
        /\ Exists(o)'
    BY <1>1, <1>2, <1>3, RowAssumption DEF TypeOK, Experiment, Exists
  <1>5. \A e \in Requests \ {o} : experiments'[e] = experiments[e]
    BY <1>1, <1>2, <1>3 DEF TypeOK
  <1>6. \A e \in Requests :
          /\ (Exists(e)' <=> Exists(e))
          /\ Exists(e) =>
               /\ experiments'[e].machine = experiments[e].machine
               /\ experiments'[e].candidate_count = experiments[e].candidate_count
               /\ experiments'[e].job = experiments[e].job
    <2> TAKE e \in Requests
    <2>1. CASE e = o
      BY <1>1, <1>3, <1>4, <2>1 DEF Exists
    <2>2. CASE e # o
      BY <1>5, <2>2 DEF Exists
    <2> QED BY <2>1, <2>2
  <1>7. TypeOK'
    BY <1>1, <1>2, <1>3, <1>4 DEF TypeOK, Stages
  <1>8. Fresh'
    BY <1>1, <1>2, <1>6 DEF ExperimentsInv, Fresh, TypeOK
  <1>9. Loaded'
    <2> SUFFICES ASSUME NEW q \in Requests, q # r PROVE Loaded!(q)'
      BY <1>1, <1>2 DEF Loaded, TypeOK
    <2>1. pc'[q] = pc[q] /\ Loaded!(q)
      BY <1>1, <1>2 DEF ExperimentsInv, Loaded, TypeOK
    <2> QED BY <1>1, <1>6, <2>1
  <1>10. EvidenceIsReachable'
    <2> SUFFICES ASSUME NEW e \in Requests, Exists(e)' PROVE EvidenceIsReachable!(e)!2'
      BY DEF EvidenceIsReachable
    <2>1. Exists(e) /\ EvidenceIsReachable!(e)!2 /\ experiments[e].job \in Requests
      BY <1>2, <1>6 DEF ExperimentsInv, EvidenceIsReachable, TypeOK, Exists, Experiment
    <2> QED BY <1>1, <1>6, <2>1
  <1>11. MachineIsKept'
    BY <1>1, <1>2, <1>6 DEF ExperimentsInv, MachineIsKept, TypeOK
  <1>12. ReportIsAccurate'
    BY <1>1, <1>2, <1>6 DEF ExperimentsInv, ReportIsAccurate, TypeOK, Report
  <1>13. Paired' /\ TableIsWhole'
    BY <1>1, <1>2 DEF ExperimentsInv, Paired, TableIsWhole, TypeOK
  <1> QED
    BY <1>7, <1>8, <1>9, <1>10, <1>11, <1>12, <1>13 DEF ExperimentsInv

LEMMA ReportingKeeps ==
  ASSUME ExperimentsInv, NEW r \in Requests, CommitReport(r)
  PROVE  ExperimentsInv'
  <1> DEFINE new == [experiment |-> target[r], measured |-> found[r] # {}]
  <1>1. /\ pc[r] = "rendering" /\ pc' = [pc EXCEPT ![r] = "done"]
        /\ reports' = [reports EXCEPT ![r] = new]
        /\ machines' = machines /\ experiments' = experiments
        /\ trials' = trials /\ metrics' = metrics /\ jobs' = jobs
        /\ target' = target /\ seen' = seen /\ found' = found
    BY DEF CommitReport, Goto
  <1>2. TypeOK
    BY DEF ExperimentsInv
  <1>3. /\ target[r] \in Requests /\ Exists(target[r])
        /\ found[r] = metrics[target[r]]
    BY <1>1 DEF ExperimentsInv, Loaded
  <1>4. new \in Report
    BY <1>3 DEF Report
  <1>5. TypeOK'
    BY <1>1, <1>2, <1>4 DEF TypeOK, Stages
  <1>6. Fresh' /\ Paired' /\ TableIsWhole' /\ EvidenceIsReachable' /\ MachineIsKept'
    BY <1>1, <1>2 DEF ExperimentsInv, Fresh, Paired, TableIsWhole,
       EvidenceIsReachable, MachineIsKept, Exists, TypeOK
  <1>7. Loaded'
    <2> SUFFICES ASSUME NEW q \in Requests, q # r PROVE Loaded!(q)'
      BY <1>1, <1>2 DEF Loaded, TypeOK
    <2> QED BY <1>1, <1>2 DEF ExperimentsInv, Loaded, Exists, TypeOK
  <1>8. ReportIsAccurate'
    <2> SUFFICES ASSUME NEW q \in Requests, reports'[q] # Nothing
                 PROVE  ReportIsAccurate!(q)!2'
      BY DEF ReportIsAccurate
    <2>1. CASE q = r
      <3>1. reports'[q] = new
        BY <1>1, <1>2, <2>1 DEF TypeOK
      <3>2. reports'[q].experiment = target[r]
        BY <3>1
      <3>3. reports'[q].measured = (found[r] # {})
        BY <3>1
      <3>4. metrics'[target[r]] = found[r] /\ experiments'[target[r]] # Nothing
        BY <1>1, <1>3 DEF Exists
      <3>5. Exists(reports[q].experiment)'
        BY <3>2, <3>4 DEF Exists
      <3> QED BY <3>2, <3>3, <3>4, <3>5
    <2>2. CASE q # r
      BY <1>1, <1>2, <2>2 DEF ExperimentsInv, ReportIsAccurate, TypeOK, Exists
    <2> QED BY <2>1, <2>2
  <1> QED BY <1>5, <1>6, <1>7, <1>8 DEF ExperimentsInv

LEMMA DeletingKeeps ==
  ASSUME ExperimentsInv, NEW r \in Requests, CommitDelete(r)
  PROVE  ExperimentsInv'
  <1>1. /\ pc[r] = "deleting" /\ pc' = [pc EXCEPT ![r] = "done"]
        /\ ~Locked(target[r]) /\ ~Referenced(target[r])
        /\ machines' = machines \ {target[r]} /\ experiments' = experiments
        /\ trials' = trials /\ metrics' = metrics /\ jobs' = jobs
        /\ reports' = reports /\ target' = target /\ seen' = seen
        /\ found' = found
    BY DEF CommitDelete, Goto
  <1>2. TypeOK
    BY DEF ExperimentsInv
  <1>3. TypeOK'
    BY <1>1, <1>2 DEF TypeOK, Stages
  <1>4. MachineIsKept'
    BY <1>1, <1>2 DEF ExperimentsInv, MachineIsKept, Locked, Referenced, Exists, TypeOK
  <1>5. Fresh' /\ Paired' /\ TableIsWhole' /\ EvidenceIsReachable' /\ ReportIsAccurate'
    BY <1>1, <1>2 DEF ExperimentsInv, Fresh, Paired, TableIsWhole,
       EvidenceIsReachable, ReportIsAccurate, Exists, TypeOK
  <1>6. Loaded'
    <2> SUFFICES ASSUME NEW q \in Requests, q # r PROVE Loaded!(q)'
      BY <1>1, <1>2 DEF Loaded, TypeOK
    <2> QED BY <1>1, <1>2 DEF ExperimentsInv, Loaded, Exists, TypeOK
  <1> QED BY <1>3, <1>4, <1>5, <1>6 DEF ExperimentsInv

-----------------------------------------------------------------------------
LEMMA StepExperiments == ExperimentsInv /\ [Next]_vars => ExperimentsInv'
  <1> SUFFICES ASSUME ExperimentsInv, [Next]_vars PROVE ExperimentsInv'
    OBVIOUS
  <1>1. CASE UNCHANGED vars
    BY <1>1 DEF vars, tables, ExperimentsInv, TypeOK, Fresh, Loaded, Paired,
       EvidenceIsReachable, MachineIsKept, ReportIsAccurate, TableIsWhole, Exists
  <1>2. CASE Next
    <2>1. PICK r \in Requests :
            \/ NotFound(r) \/ Create(r) \/ Copy(r) \/ Cancel(r)
            \/ Render(r) \/ Tabulate(r) \/ Delete(r)
      BY <1>2 DEF Next
    <2>2. CASE NotFound(r)
      BY <2>2, FailingKeeps
    <2>3. CASE Create(r)
      BY <2>3, LoadingMachineKeeps, InsertingKeeps, FailingKeeps, CreatingKeeps
      DEF Create
    <2>4. CASE Copy(r)
      BY <2>4, LoadingExperimentKeeps, CopyingKeeps DEF Copy
    <2>5. CASE Cancel(r)
      BY <2>5, LoadingExperimentKeeps, CancelingKeeps DEF Cancel
    <2>6. CASE Render(r)
      BY <2>6, LoadingExperimentKeeps, ReadersKeep, ReportingKeeps DEF Render
    <2>7. CASE Tabulate(r)
      BY <2>7, LoadingExperimentKeeps, ReadersKeep DEF Tabulate
    <2>8. CASE Delete(r)
      BY <2>8, LoadingMachineKeeps, FailingKeeps, DeletingKeeps DEF Delete
    <2> QED BY <2>1, <2>2, <2>3, <2>4, <2>5, <2>6, <2>7, <2>8
  <1> QED BY <1>1, <1>2

\* The inductive invariant.
THEOREM ExperimentsInvariance == Spec => []ExperimentsInv
  BY InitExperiments, StepExperiments, PTL DEF Spec

\* Every variable keeps its type.
THEOREM ExperimentsTypeCorrect == Spec => []TypeOK
  <1>1. ExperimentsInv => TypeOK
    BY DEF ExperimentsInv
  <1> QED BY <1>1, ExperimentsInvariance, PTL

\* What an experiment cites can always be looked up, also through copies of
\* copies and after a cancellation (api/v1.py:1472-1594, 1623-1648).
THEOREM EvidenceStaysReachable == Spec => []EvidenceIsReachable
  <1>1. ExperimentsInv => EvidenceIsReachable
    BY DEF ExperimentsInv
  <1> QED BY <1>1, ExperimentsInvariance, PTL

\* DELETE never takes the machine of an experiment (api/v1.py:965-971).
THEOREM MachinesAreKept == Spec => []MachineIsKept
  <1>1. ExperimentsInv => MachineIsKept
    BY DEF ExperimentsInv
  <1> QED BY <1>1, ExperimentsInvariance, PTL

\* A report shows metrics exactly if its experiment has some.
THEOREM ReportsAreAccurate == Spec => []ReportIsAccurate
  <1>1. ExperimentsInv => ReportIsAccurate
    BY DEF ExperimentsInv
  <1> QED BY <1>1, ExperimentsInvariance, PTL

\* A company table (_company_report_read) joins trials and metrics of two
\* queries without a gap.
THEOREM TablesAreWhole == Spec => []TableIsWhole
  <1>1. ExperimentsInv => TableIsWhole
    BY DEF ExperimentsInv
  <1> QED BY <1>1, ExperimentsInvariance, PTL

-----------------------------------------------------------------------------
(* Rows that cannot be shown.                                               *)

LEMMA UnreadableStep ==
  ExperimentsInv /\ UnreadableIsAFailedCopy /\ [Next]_vars
    => UnreadableIsAFailedCopy'
  <1> SUFFICES ASSUME ExperimentsInv, UnreadableIsAFailedCopy, [Next]_vars,
                      NEW e \in Requests, Exists(e)',
                      experiments'[e].status \notin JobStatus
               PROVE  pc'[e] = "failed" /\ experiments'[e].job # e
    BY DEF UnreadableIsAFailedCopy
  <1>1. TypeOK /\ Fresh
    BY DEF ExperimentsInv
  \* Its row is not touched: it was unreadable before, and its request is over.
  <1>2. ASSUME experiments'[e] = experiments[e], pc[e] = "failed" => pc'[e] = "failed"
        PROVE  pc'[e] = "failed" /\ experiments'[e].job # e
    BY <1>2 DEF UnreadableIsAFailedCopy, Exists
  <1>3. CASE experiments' = experiments
    <2>1. pc[e] = "failed" => pc'[e] = "failed"
      BY <1>1 DEF Next, NotFound, Create, Copy, Cancel, Render, Tabulate, Delete,
                  LoadMachine, LoadExperiment, InsertExperiment, CreateRefused,
                  PlanFails, CommitCreate, CommitCopy, CommitCancel, ReadMetrics,
                  CommitReport, ReadTrials, JoinMetrics, CommitDelete,
                  DeleteRefused, Goto, TypeOK, vars
    <2> QED BY <1>2, <1>3, <2>1
  <1>4. ASSUME NEW r \in Requests, CommitCreate(r)
        PROVE  pc'[e] = "failed" /\ experiments'[e].job # e
    <2>1. PICK n \in TrialCounts : experiments' = [experiments EXCEPT ![r] =
            [machine |-> target[r], status |-> "succeeded",
             candidate_count |-> n, job |-> r]]
      BY <1>4 DEF CommitCreate
    <2>2. e # r
      BY <1>1, <2>1 DEF TypeOK, JobStatus
    <2>3. experiments'[e] = experiments[e] /\ pc'[e] = pc[e]
      BY <1>1, <1>4, <2>1, <2>2 DEF CommitCreate, Goto, TypeOK
    <2> QED BY <1>2, <2>3
  <1>5. ASSUME NEW r \in Requests, CommitCopy(r)
        PROVE  pc'[e] = "failed" /\ experiments'[e].job # e
    <2>1. /\ pc[r] = "copying" /\ pc' = [pc EXCEPT ![r] = "failed"]
          /\ experiments' = [experiments EXCEPT ![r] = CloneOf(seen[r], r)]
      BY <1>5 DEF CommitCopy, Goto
    <2>2. CASE e = r
      <3>1. ~Exists(r) /\ seen[r] \in Experiment /\ target[r] \in Requests
            /\ Exists(target[r]) /\ experiments[target[r]].job = seen[r].job
        BY <2>1 DEF ExperimentsInv, Fresh, Loaded
      <3>2. Exists(seen[r].job)
        BY <3>1 DEF ExperimentsInv, EvidenceIsReachable
      <3>3. experiments'[r].job = seen[r].job /\ pc'[r] = "failed"
        BY <1>1, <2>1, <3>1 DEF TypeOK, CloneOf, Experiment
      <3> QED BY <2>2, <3>1, <3>2, <3>3
    <2>3. CASE e # r
      <3>1. experiments'[e] = experiments[e] /\ pc'[e] = pc[e]
        BY <1>1, <2>1, <2>3 DEF TypeOK
      <3> QED BY <1>2, <3>1
    <2> QED BY <2>2, <2>3
  <1>6. ASSUME NEW r \in Requests, CommitCancel(r)
        PROVE  pc'[e] = "failed" /\ experiments'[e].job # e
    <2>1. /\ pc[r] = "canceling" /\ pc' = [pc EXCEPT ![r] = "done"]
          /\ experiments' = [experiments EXCEPT ![target[r]].status = "canceled"]
          /\ target[r] \in Requests /\ Exists(target[r])
      BY <1>6 DEF CommitCancel, Goto, ExperimentsInv, Loaded
    <2>2. e # target[r]
      <3>1. experiments[target[r]] \in Experiment
        BY <1>1, <2>1 DEF TypeOK, Exists
      <3> QED BY <1>1, <2>1, <3>1 DEF TypeOK, Experiment, JobStatus
    <2>3. experiments'[e] = experiments[e] /\ (pc[e] = "failed" => pc'[e] = "failed")
      BY <1>1, <2>1, <2>2 DEF TypeOK
    <2> QED BY <1>2, <2>3
  <1>7. \/ experiments' = experiments
        \/ \E r \in Requests : CommitCreate(r) \/ CommitCopy(r) \/ CommitCancel(r)
    BY DEF Next, NotFound, Create, Copy, Cancel, Render, Tabulate, Delete,
           LoadMachine, LoadExperiment, InsertExperiment, CreateRefused,
           PlanFails, ReadMetrics, CommitReport, ReadTrials, JoinMetrics,
           CommitDelete, DeleteRefused, tables, vars
  <1> QED BY <1>3, <1>4, <1>5, <1>6, <1>7

\* A row that ExperimentRead rejects is a copy that its client believes to have
\* failed (copy_experiment).
THEOREM UnreadableRowsAreFailedCopies == Spec => []UnreadableIsAFailedCopy
  <1>1. Init => UnreadableIsAFailedCopy
    BY DEF Init, UnreadableIsAFailedCopy, Exists
  <1> QED BY <1>1, UnreadableStep, ExperimentsInvariance, PTL DEF Spec

-----------------------------------------------------------------------------
(* The candidates planned for one: Planning.                                *)

\* What the sort compares of a case is an integer.
LEMMA CaseKeys ==
  ASSUME NEW gpus \in Nat \ {0}, NEW c \in MatrixCases(gpus)
  PROVE  \E io \in IoPoints, n \in Concurrencies :
           /\ c = MatrixCase(gpus, io, n)
           /\ c.max_model_len = io + io + 16
           /\ c.max_num_seqs = n
  BY DEF MatrixCases, MatrixCase, Candidate

LEMMA IntervalsAreFinite ==
  ASSUME NEW a \in Int, NEW b \in Int, NEW S \in SUBSET (a .. b)
  PROVE  IsFiniteSet(S)
  <1>1. IsFiniteSet(a .. b)
    BY FS_Interval, Zenon
  <1> QED BY <1>1, FS_Subset

LEMMA CasesAreFinite ==
  ASSUME NEW gpus
  PROVE  IsFiniteSet(MatrixCases(gpus))
  <1>1. IsFiniteSet(IoPoints)
    <2> DEFINE a == 512
               b == 50000
    <2>1. IoPoints \in SUBSET (a .. b) /\ a \in Int /\ b \in Int
      BY DEF IoPoints
    <2> HIDE DEF a, b
    <2> QED BY <2>1, IntervalsAreFinite
  <1>2. IsFiniteSet(Concurrencies)
    <2>1. Concurrencies \in SUBSET (1 .. 32) /\ 1 \in Int /\ 32 \in Int
      BY DEF Concurrencies
    <2> QED BY <2>1, IntervalsAreFinite, Zenon
  <1> DEFINE pairs == IoPoints \X Concurrencies
             case == [p \in pairs |-> MatrixCase(gpus, p[1], p[2])]
  <1>3. IsFiniteSet(pairs)
    BY <1>1, <1>2, FS_Product
  <1>4. case \in Surjection(pairs, MatrixCases(gpus))
    <2>1. case \in [pairs -> MatrixCases(gpus)]
      BY DEF MatrixCases
    <2>2. ASSUME NEW c \in MatrixCases(gpus) PROVE \E p \in pairs : case[p] = c
      <3>1. PICK io \in IoPoints, n \in Concurrencies : c = MatrixCase(gpus, io, n)
        BY DEF MatrixCases
      <3>2. <<io, n>> \in pairs /\ case[<<io, n>>] = c
        BY <3>1
      <3> QED BY <3>2
    <2> HIDE DEF case, pairs
    <2> QED BY <2>1, <2>2 DEF Surjection
  <1> QED BY <1>3, <1>4, FS_Surjection

\* Two cases are the same or one of them comes first, and not both.
LEMMA CasesAreOrdered ==
  ASSUME NEW gpus \in Nat \ {0},
         NEW c \in MatrixCases(gpus), NEW d \in MatrixCases(gpus)
  PROVE  /\ ~Before(c, c)
         /\ c = d \/ Before(c, d) \/ Before(d, c)
         /\ \A e \in MatrixCases(gpus) : Before(c, d) /\ Before(d, e) => Before(c, e)
  <1>1. PICK i \in IoPoints, m \in Concurrencies :
          /\ c = MatrixCase(gpus, i, m)
          /\ c.max_model_len = i + i + 16
          /\ c.max_num_seqs = m
    BY CaseKeys
  <1>2. PICK j \in IoPoints, n \in Concurrencies :
          /\ d = MatrixCase(gpus, j, n)
          /\ d.max_model_len = j + j + 16
          /\ d.max_num_seqs = n
    BY CaseKeys
  <1>3. i \in Int /\ m \in Int /\ j \in Int /\ n \in Int
    BY DEF IoPoints, Concurrencies
  <1>4. ~Before(c, c)
    BY <1>1, <1>3 DEF Before
  <1>5. c = d \/ Before(c, d) \/ Before(d, c)
    BY <1>1, <1>2, <1>3 DEF Before
  <1>6. ASSUME NEW e \in MatrixCases(gpus), Before(c, d), Before(d, e)
        PROVE  Before(c, e)
    <2>1. PICK k \in IoPoints, l \in Concurrencies :
            /\ e.max_model_len = k + k + 16
            /\ e.max_num_seqs = l
      BY CaseKeys
    <2>2. k \in Int /\ l \in Int
      BY DEF IoPoints, Concurrencies
    <2> QED BY <1>1, <1>2, <1>3, <1>6, <2>1, <2>2 DEF Before
  <1> QED BY <1>4, <1>5, <1>6

\* How many cases come before c.
Rank(gpus, c) == Cardinality({d \in MatrixCases(gpus) : Before(d, c)})

LEMMA RanksDiffer ==
  ASSUME NEW gpus \in Nat \ {0},
         NEW c \in MatrixCases(gpus), NEW d \in MatrixCases(gpus), Before(c, d)
  PROVE  Rank(gpus, c) < Rank(gpus, d)
  <1> DEFINE Earlier(x) == {e \in MatrixCases(gpus) : Before(e, x)}
  <1>1. Earlier(c) \in SUBSET Earlier(d)
    BY CasesAreOrdered
  <1>2. c \in Earlier(d) /\ c \notin Earlier(c)
    BY CasesAreOrdered
  <1>3. Earlier(d) \in SUBSET MatrixCases(gpus)
    OBVIOUS
  <1>4. IsFiniteSet(Earlier(d))
    BY <1>3, CasesAreFinite, FS_Subset
  <1>5. IsFiniteSet(Earlier(c))
    BY <1>1, <1>4, FS_Subset
  <1>6. /\ Cardinality(Earlier(c)) <= Cardinality(Earlier(d))
        /\ Cardinality(Earlier(c)) # Cardinality(Earlier(d))
    BY <1>1, <1>2, <1>4, FS_Subset
  <1>7. Cardinality(Earlier(c)) \in Nat /\ Cardinality(Earlier(d)) \in Nat
    BY <1>4, <1>5, FS_CardinalityType
  <1> QED BY <1>6, <1>7 DEF Rank

LEMMA RanksAreRanks ==
  ASSUME NEW gpus \in Nat \ {0}, NEW c \in MatrixCases(gpus)
  PROVE  Rank(gpus, c) \in 0 .. Cardinality(MatrixCases(gpus)) - 1
  <1> DEFINE S == MatrixCases(gpus)
             E == {d \in S : Before(d, c)}
  <1>1. IsFiniteSet(S) /\ E \in SUBSET S
    BY CasesAreFinite
  <1>2. c \notin E
    BY CasesAreOrdered
  <1>3. /\ IsFiniteSet(E)
        /\ Cardinality(E) <= Cardinality(S)
        /\ Cardinality(E) # Cardinality(S)
    BY <1>1, <1>2, FS_Subset
  <1>4. Cardinality(E) \in Nat /\ Cardinality(S) \in Nat
    BY <1>1, <1>3, FS_CardinalityType
  <1> QED BY <1>3, <1>4 DEF Rank

\* Each place of the matrix has the case of that rank, and each case a place.
LEMMA EveryPlaceHasACase ==
  ASSUME NEW gpus \in Nat \ {0},
         NEW k \in 1 .. Cardinality(MatrixCases(gpus))
  PROVE  /\ StandardMatrix(gpus)[k] \in MatrixCases(gpus)
         /\ Rank(gpus, StandardMatrix(gpus)[k]) = k - 1
  <1> DEFINE S == MatrixCases(gpus)
             N == Cardinality(S)
             rank == [c \in S |-> Rank(gpus, c)]
  <1>1. IsFiniteSet(S) /\ N \in Nat
    BY CasesAreFinite, FS_CardinalityType
  <1>2. rank \in Injection(S, 0 .. N - 1)
    <2>1. rank \in [S -> 0 .. N - 1]
      BY RanksAreRanks
    <2>2. ASSUME NEW c \in S, NEW d \in S, rank[c] = rank[d] PROVE c = d
      <3>1. Rank(gpus, c) = Rank(gpus, d)
        BY <2>2
      <3>2. Rank(gpus, c) \in Int
        BY RanksAreRanks
      <3> QED BY <3>1, <3>2, CasesAreOrdered, RanksDiffer
    <2> HIDE DEF rank
    <2> QED BY <2>1, <2>2, Zenon DEF Injection, IsInjective
  <1>3. IsFiniteSet(0 .. N - 1) /\ Cardinality(0 .. N - 1) = N
    <2>1. 0 \in Int /\ N - 1 \in Int
      BY <1>1
    <2>2. /\ IsFiniteSet(0 .. N - 1)
          /\ Cardinality(0 .. N - 1) = IF 0 > N - 1 THEN 0 ELSE (N - 1) - 0 + 1
      BY <2>1, FS_Interval, Zenon
    <2> QED BY <1>1, <2>2
  <1>4. rank \in Surjection(S, 0 .. N - 1)
    <2> HIDE DEF rank
    <2> QED BY <1>2, <1>3, FS_Injection
  <1>5. PICK c \in S : rank[c] = k - 1
    <2>1. k - 1 \in 0 .. N - 1
      BY <1>1
    <2> HIDE DEF rank
    <2> QED BY <1>4, <2>1 DEF Surjection
  <1>6. Cardinality({d \in S : Before(d, c)}) = k - 1
    BY <1>5 DEF Rank
  <1>7. StandardMatrix(gpus)[k] =
          CHOOSE x \in S : Cardinality({d \in S : Before(d, x)}) = k - 1
    BY DEF StandardMatrix, InOrder
  <1> QED BY <1>6, <1>7 DEF Rank

\* The matrix, uncut, is in strictly ascending order.
LEMMA MatrixAscends ==
  ASSUME NEW gpus \in Nat \ {0},
         NEW i \in 1 .. Cardinality(MatrixCases(gpus)),
         NEW j \in 1 .. Cardinality(MatrixCases(gpus)), i < j
  PROVE  Before(StandardMatrix(gpus)[i], StandardMatrix(gpus)[j])
  <1> DEFINE c == StandardMatrix(gpus)[i]
             d == StandardMatrix(gpus)[j]
  <1>1. c \in MatrixCases(gpus) /\ d \in MatrixCases(gpus)
    BY EveryPlaceHasACase
  <1>2. Rank(gpus, c) < Rank(gpus, d) /\ Rank(gpus, c) \in Int /\ Rank(gpus, d) \in Int
    <2>1. Rank(gpus, c) = i - 1 /\ Rank(gpus, d) = j - 1
      BY EveryPlaceHasACase
    <2>2. i \in Int /\ j \in Int
      BY CasesAreFinite, FS_CardinalityType
    <2> QED BY <2>1, <2>2
  <1>3. c # d
    BY <1>2
  <1>4. ~Before(d, c)
    BY <1>1, <1>2, RanksDiffer
  <1> HIDE DEF c, d
  <1>5. Before(c, d)
    BY <1>1, <1>3, <1>4, CasesAreOrdered
  <1> QED BY <1>5 DEF c, d

\* The sort loses no case: each one has a place in the matrix (tuning.py:76-89).
THEOREM NoCaseIsLost ==
  ASSUME NEW gpus \in Nat \ {0}, NEW c \in MatrixCases(gpus)
  PROVE  \E k \in 1 .. Cardinality(MatrixCases(gpus)) : StandardMatrix(gpus)[k] = c
  <1> DEFINE N == Cardinality(MatrixCases(gpus))
             k == Rank(gpus, c) + 1
             d == StandardMatrix(gpus)[k]
  <1>1. N \in Nat
    BY CasesAreFinite, FS_CardinalityType
  <1>2. Rank(gpus, c) \in 0 .. N - 1
    BY RanksAreRanks
  <1>3. k \in 1 .. N /\ k - 1 = Rank(gpus, c)
    BY <1>1, <1>2
  <1> HIDE DEF k
  <1>4. d \in MatrixCases(gpus) /\ Rank(gpus, d) = Rank(gpus, c)
    BY <1>3, EveryPlaceHasACase
  <1> HIDE DEF d
  <1>5. ~Before(c, d) /\ ~Before(d, c)
    BY <1>2, <1>4, RanksDiffer
  <1>6. d = c
    BY <1>4, <1>5, CasesAreOrdered
  <1> QED BY <1>3, <1>6 DEF d

\* A standard plan is the beginning of the matrix of the machine's GPUs.
LEMMA StandardPlans ==
  ASSUME request \in PlanRequests, request.mode = "standard"
  PROVE  /\ request.gpus \in Nat \ {0}
         /\ Len(plan) \in 0 .. Cardinality(MatrixCases(request.gpus))
         /\ request.budget >= 0 => Len(plan) <= request.budget
         /\ \A k \in 1 .. Len(plan) : plan[k] = StandardMatrix(request.gpus)[k]
  <1> DEFINE S == MatrixCases(request.gpus)
             N == Cardinality(S)
             matrix == StandardMatrix(request.gpus)
  <1>1. request.gpus \in Nat \ {0} /\ request.budget \in Int
    BY PlanningAssumption DEF AllRequests
  <1>2. plan = Cut(matrix, request.budget)
    BY PlanningAssumption DEF plan, AllPlans, PlanCandidates
  <1>3. N \in Nat
    BY CasesAreFinite, FS_CardinalityType
  <1>4. matrix \in Seq(S) /\ Len(matrix) = N
    <2>1. \A k \in 1 .. N : matrix[k] \in S
      BY <1>1, EveryPlaceHasACase
    <2> DEFINE Place(k) == CHOOSE c \in S : Cardinality({d \in S : Before(d, c)}) = k - 1
    <2>2. matrix = [k \in 1 .. N |-> Place(k)]
      BY DEF StandardMatrix, InOrder
    <2> HIDE DEF matrix, S, Place
    <2> QED BY <1>3, <2>1, <2>2
  <1> HIDE DEF matrix, S
  <1> DEFINE m == IF request.budget >= 0 THEN AtMost(request.budget, Len(matrix))
                  ELSE Len(matrix) + request.budget
  <1>5. plan = SubSeq(matrix, 1, m)
    BY <1>2 DEF Cut
  <1>6. m \in Int /\ m <= N /\ (request.budget >= 0 => 0 <= m /\ m <= request.budget)
    BY <1>1, <1>3, <1>4 DEF AtMost
  <1> HIDE DEF m
  <1>7. /\ Len(plan) \in 0 .. N
        /\ request.budget >= 0 => Len(plan) <= request.budget
        /\ \A k \in 1 .. Len(plan) : plan[k] = matrix[k]
    BY <1>1, <1>3, <1>4, <1>5, <1>6
  <1> QED BY <1>1, <1>7 DEF S, matrix

LEMMA RequestsAreAsked == LoopSpec => [](request \in PlanRequests)
  <1>1. LoopInit => request \in PlanRequests
    BY DEF LoopInit
  <1>2. request \in PlanRequests /\ [LoopNext]_loopVars => (request \in PlanRequests)'
    BY DEF LoopNext, loopVars, Trial, RunnerRaises, Return
  <1> QED BY <1>1, <1>2, PTL DEF LoopSpec

\* For any number of GPUs and any budget, the standard matrix goes from short
\* to long contexts and, within one, from few to many requests (tuning.py:57-89).
THEOREM MatrixStaysProgressive == LoopSpec => []MatrixIsProgressive
  <1>1. request \in PlanRequests => MatrixIsProgressive
    <2> SUFFICES ASSUME request \in PlanRequests, request.mode = "standard",
                        NEW i \in 1 .. Len(plan), NEW j \in 1 .. Len(plan), i < j
                 PROVE  Before(plan[i], plan[j])
      BY DEF MatrixIsProgressive, Before
    <2> DEFINE N == Cardinality(MatrixCases(request.gpus))
    <2>1. /\ request.gpus \in Nat \ {0}
          /\ Len(plan) \in 0 .. N
          /\ plan[i] = StandardMatrix(request.gpus)[i]
          /\ plan[j] = StandardMatrix(request.gpus)[j]
      BY StandardPlans
    <2>2. N \in Nat
      BY CasesAreFinite, FS_CardinalityType
    <2>3. i \in 1 .. N /\ j \in 1 .. N
      BY <2>1, <2>2
    <2> QED BY <2>1, <2>3, MatrixAscends
  <1> QED BY <1>1, RequestsAreAsked, PTL

LEMMA CasesFit ==
  ASSUME NEW gpus \in Nat \ {0}, NEW c \in MatrixCases(gpus)
  PROVE  /\ c.tensor_parallel_size <= gpus
         /\ c.max_num_batched_tokens >= c.max_model_len
  <1>1. PICK io \in IoPoints, n \in Concurrencies : c = MatrixCase(gpus, io, n)
    BY DEF MatrixCases
  <1>2. c.tensor_parallel_size <= gpus
    BY <1>1 DEF MatrixCase, Candidate, Concurrencies, BoundedParallel, AtLeastOne,
                AtMost
  <1>3. /\ c.max_model_len = io + io + 16
        /\ c.max_num_batched_tokens = BatchedTokens(io + io + 16, n)
    BY <1>1 DEF MatrixCase, Candidate
  <1>4. BatchedTokens(io + io + 16, n) >= io + io + 16
    BY DEF BatchedTokens, AtMost, IoPoints, Concurrencies
  <1> QED BY <1>2, <1>3, <1>4

\* For any number of GPUs and any budget, a case of the matrix asks for no more
\* GPUs than there are, and a batch holds a whole context (tuning.py:70-89).
THEOREM MatrixAlwaysFits == LoopSpec => []MatrixFitsTheMachine
  <1>1. request \in PlanRequests => MatrixFitsTheMachine
    <2> SUFFICES ASSUME request \in PlanRequests, request.mode = "standard",
                        NEW i \in 1 .. Len(plan)
                 PROVE  /\ plan[i].tensor_parallel_size <= request.gpus
                        /\ plan[i].max_num_batched_tokens >= plan[i].max_model_len
      BY DEF MatrixFitsTheMachine
    <2> DEFINE N == Cardinality(MatrixCases(request.gpus))
    <2>1. /\ request.gpus \in Nat \ {0}
          /\ Len(plan) \in 0 .. N
          /\ plan[i] = StandardMatrix(request.gpus)[i]
      BY StandardPlans
    <2>2. N \in Nat
      BY CasesAreFinite, FS_CardinalityType
    <2>3. i \in 1 .. N
      BY <2>1, <2>2
    <2>4. plan[i] \in MatrixCases(request.gpus)
      BY <2>1, <2>3, EveryPlaceHasACase
    <2> QED BY <2>1, <2>4, CasesFit
  <1> QED BY <1>1, RequestsAreAsked, PTL

-----------------------------------------------------------------------------
(* What pruning keeps, for every list of candidates.  Induction along the   *)
(* list rests on finite sets alone: a non-empty set of numbers that has      *)
(* with each one its predecessor could be shifted into itself.               *)

\* Induction up to n, for membership in a set.
LEMMA CountingUp ==
  ASSUME NEW n \in Nat, NEW S, 0 \in S,
         \A i \in 0 .. n - 1 : i \in S => i + 1 \in S
  PROVE  \A i \in 0 .. n : i \in S
  <1> SUFFICES ASSUME NEW k \in 0 .. n, k \notin S PROVE FALSE
    OBVIOUS
  <1> DEFINE A == (0 .. k) \ S
             down == [x \in A |-> x - 1]
  <1>1. k \in Int /\ A \in SUBSET (0 .. k) /\ 0 \in Int
    OBVIOUS
  <1>2. IsFiniteSet(A)
    BY <1>1, IntervalsAreFinite, Zenon
  <1>3. down \in Injection(A, A)
    <2>1. ASSUME NEW x \in A PROVE x - 1 \in A
      <3>1. x \in 1 .. k /\ x - 1 \in 0 .. n - 1 /\ (x - 1) + 1 = x
        OBVIOUS
      <3> QED BY <3>1
    <2>2. \A x, y \in A : x - 1 = y - 1 => x = y
      OBVIOUS
    <2> HIDE DEF A
    <2> QED BY <2>1, <2>2 DEF Injection, IsInjective
  <1>4. down \in Surjection(A, A)
    <2> HIDE DEF A, down
    <2> QED BY <1>2, <1>3, FS_Injection
  <1>5. PICK x \in A : down[x] = k
    <2> HIDE DEF down
    <2> QED BY <1>4 DEF Surjection
  <1> QED BY <1>5

\* What the loop of heuristic_prune has kept after i candidates.
KeptAfter(kept, candidates, i) ==
    IF i = 0 THEN <<>>
    ELSE IF Kept(candidates[i]) THEN Append(kept[i - 1], candidates[i])
    ELSE kept[i - 1]

\* The recursive definition of Pruned conforms to its equation.
LEMMA PrunedConforms ==
  ASSUME NEW candidates, Len(candidates) \in Nat
  PROVE  \E kept :
           /\ \A i \in 0 .. Len(candidates) :
                kept[i] = KeptAfter(kept, candidates, i)
           /\ Pruned(candidates) = kept[Len(candidates)]
  <1> DEFINE n == Len(candidates)
             Conforms(f, m) == f = [i \in 0 .. m |-> KeptAfter(f, candidates, i)]
             S == {m \in 0 .. n : \E f : Conforms(f, m)}
  <1>1. 0 \in S
    <2> DEFINE f == [i \in 0 .. 0 |-> <<>>]
    <2>1. Conforms(f, 0)
      BY DEF KeptAfter
    <2> QED BY <2>1
  <1>2. ASSUME NEW m \in 0 .. n - 1, m \in S PROVE m + 1 \in S
    <2>1. PICK f : Conforms(f, m)
      BY <1>2
    <2> DEFINE g == [i \in 0 .. m + 1 |-> KeptAfter(f, candidates, i)]
    <2>2. ASSUME NEW i \in 0 .. m PROVE g[i] = f[i]
      BY <2>1
    <2>3. ASSUME NEW i \in 0 .. m + 1
          PROVE  g[i] = KeptAfter(g, candidates, i)
      <3>1. i # 0 => i - 1 \in 0 .. m
        OBVIOUS
      <3>2. i # 0 => g[i - 1] = f[i - 1]
        BY <2>2, <3>1
      <3>3. g[i] = KeptAfter(f, candidates, i)
        OBVIOUS
      <3> HIDE DEF g
      <3> QED BY <3>2, <3>3 DEF KeptAfter
    <2>4. Conforms(g, m + 1)
      <3>1. g = [i \in 0 .. m + 1 |-> g[i]]
        OBVIOUS
      <3> HIDE DEF g
      <3> QED BY <2>3, <3>1
    <2>5. m + 1 \in 0 .. n
      OBVIOUS
    <2> HIDE DEF Conforms, g
    <2> QED BY <2>4, <2>5
  <1>3. PICK f : Conforms(f, n)
    <2>1. n \in S
      <3> HIDE DEF S
      <3>1. \A i \in 0 .. n : i \in S
        BY <1>1, <1>2, CountingUp
      <3> QED BY <3>1
    <2> QED BY <2>1
  <1> DEFINE Equation(g) == g = [i \in 0 .. n |->
               IF i = 0 THEN <<>>
               ELSE IF Kept(candidates[i]) THEN Append(g[i - 1], candidates[i])
               ELSE g[i - 1]]
             kept == CHOOSE g : Equation(g)
  <1>4. Equation(f)
    BY <1>3, Zenon DEF KeptAfter
  <1>5. Equation(kept)
    <2> HIDE DEF Equation
    <2> QED BY <1>4
  <1>6. Pruned(candidates) = kept[n]
    BY DEF Pruned
  <1>7. \A i \in 0 .. n : kept[i] = KeptAfter(kept, candidates, i)
    <2> HIDE DEF kept
    <2> QED BY <1>5 DEF KeptAfter
  <1> HIDE DEF kept
  <1> QED BY <1>6, <1>7

\* The kept ones among the first i candidates: as many as there are before and
\* including a candidate, so far back is its place after pruning.
KeptUpTo(candidates, i) == {j \in 1 .. i : Kept(candidates[j])}
PlaceOf(candidates, i) == Cardinality(KeptUpTo(candidates, i))

LEMMA PlacesAreNumbers ==
  ASSUME NEW candidates, NEW i \in Nat
  PROVE  /\ IsFiniteSet(KeptUpTo(candidates, i))
         /\ PlaceOf(candidates, i) \in Nat
  <1>1. KeptUpTo(candidates, i) \in SUBSET (1 .. i) /\ 1 \in Int /\ i \in Int
    BY DEF KeptUpTo
  <1>2. IsFiniteSet(KeptUpTo(candidates, i))
    BY <1>1, IntervalsAreFinite, Zenon
  <1> QED BY <1>2, FS_CardinalityType DEF PlaceOf

\* One more candidate moves the place by one if it is kept.
LEMMA PlacesAdvance ==
  ASSUME NEW candidates, NEW i \in Nat \ {0}
  PROVE  /\ PlaceOf(candidates, 0) = 0
         /\ PlaceOf(candidates, i) =
              IF Kept(candidates[i]) THEN PlaceOf(candidates, i - 1) + 1
              ELSE PlaceOf(candidates, i - 1)
  <1> DEFINE Old == KeptUpTo(candidates, i - 1)
  <1>1. PlaceOf(candidates, 0) = 0
    <2>1. KeptUpTo(candidates, 0) = {}
      BY DEF KeptUpTo
    <2> QED BY <2>1, FS_EmptySet DEF PlaceOf
  <1>2. i - 1 \in Nat
    OBVIOUS
  <1>3. IsFiniteSet(Old) /\ i \notin Old
    <2>1. IsFiniteSet(Old)
      BY <1>2, PlacesAreNumbers
    <2> QED BY <2>1 DEF KeptUpTo
  <1>4. CASE Kept(candidates[i])
    <2>1. KeptUpTo(candidates, i) = Old \cup {i}
      BY <1>4 DEF KeptUpTo
    <2> HIDE DEF Old
    <2>2. Cardinality(Old \cup {i}) = Cardinality(Old) + 1
      BY <1>3, FS_AddElement
    <2> QED BY <1>1, <1>4, <2>1, <2>2 DEF PlaceOf, Old
  <1>5. CASE ~Kept(candidates[i])
    <2>1. KeptUpTo(candidates, i) = Old
      BY <1>5 DEF KeptUpTo
    <2> QED BY <1>1, <1>5, <2>1 DEF PlaceOf
  <1> QED BY <1>4, <1>5

\* A later kept candidate has a later place.
LEMMA PlacesDiffer ==
  ASSUME NEW candidates, NEW i \in Nat, NEW j \in Nat, i < j
  PROVE  /\ PlaceOf(candidates, i) <= PlaceOf(candidates, j)
         /\ Kept(candidates[j]) => PlaceOf(candidates, i) < PlaceOf(candidates, j)
  <1> DEFINE I == KeptUpTo(candidates, i)
             J == KeptUpTo(candidates, j)
  <1>1. I \in SUBSET J
    BY DEF KeptUpTo
  <1>2. Kept(candidates[j]) => j \in J /\ j \notin I
    BY DEF KeptUpTo
  <1>3. /\ IsFiniteSet(I) /\ IsFiniteSet(J)
        /\ Cardinality(I) \in Nat /\ Cardinality(J) \in Nat
    BY PlacesAreNumbers DEF PlaceOf
  <1> HIDE DEF I, J
  <1>4. Cardinality(I) <= Cardinality(J) /\ (Cardinality(I) = Cardinality(J) => I = J)
    BY <1>1, <1>3, FS_Subset
  <1>5. Kept(candidates[j]) => Cardinality(I) # Cardinality(J)
    BY <1>2, <1>4
  <1> QED BY <1>3, <1>4, <1>5 DEF I, J, PlaceOf

\* For every list of candidates: pruning returns the kept ones and no others,
\* each once and in their order (tuning.py:106-112).
THEOREM PruningKeepsTheOrder ==
  ASSUME NEW T, NEW candidates \in Seq(T)
  PROVE  /\ Pruned(candidates) \in Seq(T)
         /\ Len(Pruned(candidates)) = PlaceOf(candidates, Len(candidates))
         /\ \A j \in KeptUpTo(candidates, Len(candidates)) :
              Pruned(candidates)[PlaceOf(candidates, j)] = candidates[j]
  <1> DEFINE n == Len(candidates)
  <1>1. PICK kept :
          /\ \A i \in 0 .. n : kept[i] = KeptAfter(kept, candidates, i)
          /\ Pruned(candidates) = kept[n]
    BY PrunedConforms
  <1> DEFINE Right(i) ==
               /\ kept[i] \in Seq(T)
               /\ Len(kept[i]) = PlaceOf(candidates, i)
               /\ \A j \in KeptUpTo(candidates, i) :
                    kept[i][PlaceOf(candidates, j)] = candidates[j]
             S == {i \in 0 .. n : Right(i)}
  <1>2. 0 \in S
    <2>1. kept[0] = <<>> /\ KeptUpTo(candidates, 0) = {}
      BY <1>1 DEF KeptAfter, KeptUpTo
    <2>2. PlaceOf(candidates, 0) = 0
      BY <2>1, FS_EmptySet DEF PlaceOf
    <2>3. kept[0] \in Seq(T) /\ Len(kept[0]) = 0 /\ 0 \in 0 .. n
      BY <2>1
    <2> QED BY <2>1, <2>2, <2>3
  <1>3. ASSUME NEW m \in 0 .. n - 1, m \in S PROVE m + 1 \in S
    <2> DEFINE i == m + 1
    <2>1. i \in 1 .. n /\ i \in Nat \ {0} /\ i - 1 = m /\ i # 0
      OBVIOUS
    <2>2. Right(m)
      BY <1>3
    <2>3. kept[i] = KeptAfter(kept, candidates, i) /\ candidates[i] \in T
      BY <1>1, <2>1
    <2>4. PlaceOf(candidates, m) \in Nat
      BY PlacesAreNumbers
    <2> HIDE DEF i
    <2>5. CASE Kept(candidates[i])
      <3>1. kept[i] = Append(kept[m], candidates[i])
        BY <2>1, <2>3, <2>5 DEF KeptAfter
      <3>2. PlaceOf(candidates, i) = PlaceOf(candidates, m) + 1
        BY <2>1, <2>5, PlacesAdvance
      <3>3. kept[i] \in Seq(T) /\ Len(kept[i]) = PlaceOf(candidates, i)
        BY <2>2, <2>3, <3>1, <3>2
      <3>4. ASSUME NEW j \in KeptUpTo(candidates, i)
            PROVE  kept[i][PlaceOf(candidates, j)] = candidates[j]
        <4>1. CASE j = i
          BY <2>2, <2>3, <2>4, <3>1, <3>2, <4>1
        <4>2. CASE j # i
          <5>1. j \in KeptUpTo(candidates, m) /\ j \in Nat
            BY <2>1, <4>2 DEF KeptUpTo
          <5>2. kept[m][PlaceOf(candidates, j)] = candidates[j]
            BY <2>2, <5>1
          <5>3. PlaceOf(candidates, j) \in 1 .. PlaceOf(candidates, m)
            <6>1. j = m \/ j < m
              BY <5>1 DEF KeptUpTo
            <6>2. PlaceOf(candidates, j) \in Nat /\ m \in Nat
              BY <5>1, PlacesAreNumbers
            <6>3. PlaceOf(candidates, j) # 0
              <7>1. j \in KeptUpTo(candidates, j)
                BY <5>1 DEF KeptUpTo
              <7> QED BY <5>1, <7>1, PlacesAreNumbers, FS_EmptySet DEF PlaceOf
            <6>4. PlaceOf(candidates, j) <= PlaceOf(candidates, m)
              BY <2>4, <5>1, <6>1, <6>2, PlacesDiffer
            <6> QED BY <2>4, <6>2, <6>3, <6>4
          <5> QED BY <2>2, <2>3, <2>4, <3>1, <5>2, <5>3
        <4> QED BY <4>1, <4>2
      <3>5. i \in 0 .. n
        BY <2>1
      <3> QED BY <3>3, <3>4, <3>5 DEF i
    <2>6. CASE ~Kept(candidates[i])
      <3>1. kept[i] = kept[m]
        BY <2>1, <2>3, <2>6 DEF KeptAfter
      <3>2. PlaceOf(candidates, i) = PlaceOf(candidates, m)
        BY <2>1, <2>6, PlacesAdvance
      <3>3. KeptUpTo(candidates, i) = KeptUpTo(candidates, m)
        BY <2>1, <2>6 DEF KeptUpTo
      <3>4. i \in 0 .. n
        BY <2>1
      <3> QED BY <2>2, <3>1, <3>2, <3>3, <3>4 DEF i
    <2> QED BY <2>5, <2>6
  <1>4. n \in S
    <2> HIDE DEF S
    <2>1. n \in Nat
      OBVIOUS
    <2>2. \A i \in 0 .. n : i \in S
      BY <1>2, <1>3, <2>1, CountingUp
    <2> QED BY <2>1, <2>2
  <1> QED BY <1>1, <1>4

\* Each place up to the last one is that of a kept candidate.
LEMMA PlacesAreTaken ==
  ASSUME NEW candidates, NEW n \in Nat, NEW m \in 0 .. PlaceOf(candidates, n)
  PROVE  Cardinality({i \in KeptUpTo(candidates, n) : PlaceOf(candidates, i) <= m}) = m
  <1> DEFINE S == KeptUpTo(candidates, n)
             N == PlaceOf(candidates, n)
             place == [i \in S |-> PlaceOf(candidates, i)]
             P == {i \in S : PlaceOf(candidates, i) <= m}
             first == [i \in P |-> PlaceOf(candidates, i)]
  <1>1. IsFiniteSet(S) /\ N \in Nat /\ N = Cardinality(S)
    BY PlacesAreNumbers DEF PlaceOf
  <1>2. ASSUME NEW i \in S PROVE PlaceOf(candidates, i) \in 1 .. N
    <2>1. i \in Nat \ {0} /\ Kept(candidates[i]) /\ (i < n \/ i = n)
      BY DEF KeptUpTo
    <2>2. PlaceOf(candidates, i) \in Nat /\ PlaceOf(candidates, 0) \in Nat
      BY <2>1, PlacesAreNumbers
    <2>3. PlaceOf(candidates, 0) < PlaceOf(candidates, i)
      BY <2>1, PlacesDiffer
    <2>4. PlaceOf(candidates, i) <= N
      BY <1>1, <2>1, PlacesDiffer
    <2> QED BY <1>1, <2>2, <2>3, <2>4
  <1>3. ASSUME NEW i \in S, NEW j \in S, PlaceOf(candidates, i) = PlaceOf(candidates, j)
        PROVE  i = j
    <2>1. /\ i \in Nat /\ Kept(candidates[i])
          /\ j \in Nat /\ Kept(candidates[j])
      BY DEF KeptUpTo
    <2>2. PlaceOf(candidates, i) \in Nat
      BY <2>1, PlacesAreNumbers
    <2> QED BY <1>3, <2>1, <2>2, PlacesDiffer
  <1>4. place \in Injection(S, 1 .. N)
    <2>1. place \in [S -> 1 .. N]
      BY <1>2
    <2>2. \A i, j \in S : place[i] = place[j] => i = j
      BY <1>3
    <2> HIDE DEF place, S
    <2> QED BY <2>1, <2>2 DEF Injection, IsInjective
  <1>5. \A k \in Nat : IsFiniteSet(1 .. k) /\ Cardinality(1 .. k) = k
    <2> SUFFICES ASSUME NEW k \in Nat
                 PROVE  IsFiniteSet(1 .. k) /\ Cardinality(1 .. k) = k
      OBVIOUS
    <2>1. 1 \in Int /\ k \in Int
      OBVIOUS
    <2>2. /\ IsFiniteSet(1 .. k)
          /\ Cardinality(1 .. k) = IF 1 > k THEN 0 ELSE k - 1 + 1
      BY <2>1, FS_Interval, Zenon
    <2> QED BY <2>2
  <1>6. place \in Surjection(S, 1 .. N)
    <2> HIDE DEF place, S, N
    <2> QED BY <1>1, <1>4, <1>5, FS_Injection
  <1>7. first \in Bijection(P, 1 .. m)
    <2>1. first \in [P -> 1 .. m]
      BY <1>2
    <2>2. \A i, j \in P : first[i] = first[j] => i = j
      BY <1>3
    <2>3. ASSUME NEW k \in 1 .. m PROVE \E i \in P : first[i] = k
      <3>1. k \in 1 .. N /\ k <= m
        BY <1>1
      <3>2. PICK i \in S : place[i] = k
        <4> HIDE DEF place, S, N
        <4> QED BY <1>6, <3>1 DEF Surjection
      <3>3. PlaceOf(candidates, i) = k
        BY <3>2
      <3> QED BY <3>1, <3>3
    <2> HIDE DEF first, P
    <2> QED BY <2>1, <2>2, <2>3 DEF Bijection, Injection, Surjection, IsInjective
  <1>8. IsFiniteSet(P)
    <2>1. P \in SUBSET S
      OBVIOUS
    <2> QED BY <1>1, <2>1, FS_Subset
  <1>9. ExistsBijection(P, 1 .. m)
    BY <1>7, Zenon DEF ExistsBijection
  <1> HIDE DEF P
  <1>10. Cardinality(1 .. m) = Cardinality(P)
    BY <1>8, <1>9, FS_Bijection
  <1> QED BY <1>1, <1>5, <1>10 DEF P

LEMMA OffersAreCandidates ==
  ASSUME NEW gpus \in Nat \ {0}, NEW llm \in Seq(FrameworkParams)
  PROVE  Offered(gpus, llm) \in Seq(FrameworkParams)
  <1>1. RuleBaseline(gpus) \in FrameworkParams
    BY DEF RuleBaseline, AtLeastOne, Candidate, FrameworkParams
  <1>2. ASSUME NEW memory \in 1 .. 100, NEW seqs \in Nat \ {0}
        PROVE  Point(memory, seqs) \in FrameworkParams
    BY DEF Point, Candidate, FrameworkParams
  <1>3. GridSearch \in Seq(FrameworkParams) /\ RandomSearch \in Seq(FrameworkParams)
    <2>1. /\ 82 \in 1 .. 100 /\ 83 \in 1 .. 100 /\ 84 \in 1 .. 100 /\ 90 \in 1 .. 100
          /\ 64 \in Nat \ {0} /\ 96 \in Nat \ {0} /\ 128 \in Nat \ {0}
      OBVIOUS
    <2>2. /\ Point(82, 64) \in FrameworkParams /\ Point(82, 128) \in FrameworkParams
          /\ Point(90, 64) \in FrameworkParams /\ Point(90, 128) \in FrameworkParams
          /\ Point(83, 96) \in FrameworkParams /\ Point(84, 64) \in FrameworkParams
      BY <1>2, <2>1
    <2> QED BY <2>2 DEF GridSearch, RandomSearch
  <1>4. MockLlm \in Seq(FrameworkParams)
    BY DEF MockLlm, Candidate, FrameworkParams
  <1> QED BY <1>1, <1>3, <1>4 DEF Offered

\* What is asked for is well-formed, and what is planned for it is a sequence.
LEMMA IntelligentPlans ==
  ASSUME request \in PlanRequests, request.mode = "intelligent"
  PROVE  LET offered == Offered(request.gpus, request.llm)
         IN  /\ offered \in Seq(FrameworkParams)
             /\ plan = Cut(Pruned(offered), request.budget)
             /\ request.budget \in Int
  <1>1. request \in AllRequests
    BY PlanningAssumption
  <1>2. request.gpus \in Nat \ {0} /\ request.budget \in Int
    BY <1>1, PlanningAssumption DEF AllRequests
  <1>3. request.llm \in Seq(FrameworkParams)
    <2>1. request.llm \in LlmAnswers \cup {<<>>}
      BY <1>1 DEF AllRequests
    <2>2. <<>> \in Seq(FrameworkParams)
      OBVIOUS
    <2> QED BY <2>1, <2>2, PlanningAssumption
  <1>4. plan = Cut(Pruned(Offered(request.gpus, request.llm)), request.budget)
    BY <1>1, PlanningAssumption DEF plan, AllPlans, PlanCandidates
  <1> QED BY <1>2, <1>3, <1>4, OffersAreCandidates

\* A cut to a budget that is not negative.
LEMMA BudgetsCut ==
  ASSUME NEW T, NEW s \in Seq(T), NEW budget \in Nat
  PROVE  /\ Cut(s, budget) \in Seq(T)
         /\ Len(Cut(s, budget)) = AtMost(budget, Len(s))
         /\ \A k \in 1 .. Len(s) : k <= budget => Cut(s, budget)[k] = s[k]
  <1> DEFINE m == AtMost(budget, Len(s))
  <1>1. m \in Nat /\ m <= budget /\ m <= Len(s) /\ (m = budget \/ m = Len(s))
    BY DEF AtMost
  <1>2. Cut(s, budget) = SubSeq(s, 1, m)
    <2>1. budget >= 0
      OBVIOUS
    <2> QED BY <2>1, Zenon DEF Cut
  <1> HIDE DEF m
  <1> QED BY <1>1, <1>2 DEF m

\* A cut to a negative budget takes as many off the end, as far as there are.
LEMMA DebtsCut ==
  ASSUME NEW T, NEW s \in Seq(T), NEW budget \in Int, budget < 0
  PROVE  LET rest == Len(s) + budget
         IN  /\ Cut(s, budget) \in Seq(T)
             /\ Len(Cut(s, budget)) = IF rest >= 0 THEN rest ELSE 0
             /\ \A k \in 1 .. Len(s) : k <= rest => Cut(s, budget)[k] = s[k]
  <1> DEFINE rest == Len(s) + budget
  <1>1. rest \in Int /\ rest < Len(s) /\ Len(s) \in Nat
    OBVIOUS
  <1>2. Cut(s, budget) = SubSeq(s, 1, rest)
    <2>1. ~(budget >= 0)
      OBVIOUS
    <2> QED BY <2>1, Zenon DEF Cut
  <1> HIDE DEF rest
  <1>3. /\ SubSeq(s, 1, rest) \in Seq(T)
        /\ Len(SubSeq(s, 1, rest)) = IF rest >= 0 THEN rest ELSE 0
        /\ \A k \in 1 .. Len(s) : k <= rest => SubSeq(s, 1, rest)[k] = s[k]
    BY <1>1
  <1> QED BY <1>2, <1>3 DEF rest

\* For any number of GPUs, any budget of either sign and any answers of an LLM,
\* dropped ones among them: a plan has the first kept candidates, as many as
\* the budget pays for (tuning.py:115-150).
THEOREM IntelligentPlansAreComplete == LoopSpec => []IntelligentPlanIsComplete
  <1>1. request \in PlanRequests => IntelligentPlanIsComplete
    <2> SUFFICES ASSUME request \in PlanRequests, request.mode = "intelligent"
                 PROVE  IntelligentPlanIsComplete
      BY DEF IntelligentPlanIsComplete
    <2> DEFINE offered == Offered(request.gpus, request.llm)
               n == Len(offered)
               budget == request.budget
               rank(i) == Cardinality({j \in 1 .. i : Wanted(offered[j])})
               limit == IF budget >= 0 THEN budget ELSE rank(n) + budget
               planned == {i \in 1 .. n :
                             rank(i) > rank(i - 1) /\ rank(i) <= limit}
               m == IF limit >= 0 THEN AtMost(limit, PlaceOf(offered, n)) ELSE 0
    <2>1. /\ offered \in Seq(FrameworkParams) /\ budget \in Int
          /\ plan = Cut(Pruned(offered), budget)
      BY IntelligentPlans, Zenon
    <2>2. \A i : rank(i) = PlaceOf(offered, i)
      <3>1. \A c : Wanted(c) <=> Kept(c)
        BY SMT DEF Wanted, Kept
      <3> QED BY <3>1 DEF PlaceOf, KeptUpTo
    <2> HIDE DEF offered, rank, budget
    <2>3. n \in Nat
      BY <2>1
    <2>4. /\ Pruned(offered) \in Seq(FrameworkParams)
          /\ Len(Pruned(offered)) = PlaceOf(offered, n)
          /\ \A i \in KeptUpTo(offered, n) :
               Pruned(offered)[PlaceOf(offered, i)] = offered[i]
      BY <2>1, PruningKeepsTheOrder
    <2>5. PlaceOf(offered, n) \in Nat /\ rank(n) = PlaceOf(offered, n)
      BY <2>2, <2>3, PlacesAreNumbers
    <2>6. /\ Len(plan) = m
          /\ \A k \in 1 .. PlaceOf(offered, n) :
               k <= limit => plan[k] = Pruned(offered)[k]
      <3>1. CASE budget >= 0
        <4>1. budget \in Nat /\ limit = budget
          BY <2>1, <3>1
        <4>2. m = AtMost(budget, Len(Pruned(offered)))
          BY <2>4, <4>1
        <4>3. /\ Len(plan) = m
              /\ \A k \in 1 .. Len(Pruned(offered)) :
                   k <= budget => plan[k] = Pruned(offered)[k]
          BY <2>1, <2>4, <4>1, <4>2, BudgetsCut
        <4> HIDE DEF limit, m
        <4> QED BY <2>4, <4>1, <4>3
      <3>2. CASE budget < 0
        <4>1. limit = Len(Pruned(offered)) + budget /\ limit < PlaceOf(offered, n)
          BY <2>1, <2>4, <2>5, <3>2
        <4>2. m = IF limit >= 0 THEN limit ELSE 0
          BY <2>1, <2>5, <3>2, <4>1 DEF AtMost
        <4> QED BY <2>1, <2>4, <3>2, <4>1, <4>2, DebtsCut
      <3> QED BY <2>1, <3>1, <3>2
    <2>7. /\ m \in 0 .. PlaceOf(offered, n)
          /\ \A k \in 1 .. PlaceOf(offered, n) : k <= limit <=> k <= m
      <3>1. limit \in Int
        BY <2>1, <2>5
      <3> QED BY <2>5, <3>1 DEF AtMost
    <2>8. ASSUME NEW i \in 1 .. n
          PROVE  /\ rank(i) \in Nat /\ rank(i) <= PlaceOf(offered, n)
                 /\ rank(i) > rank(i - 1) <=> i \in KeptUpTo(offered, n)
                 /\ i \in KeptUpTo(offered, n) => rank(i) > 0
      <3>1. i \in Nat \ {0} /\ i - 1 \in Nat /\ (i < n \/ i = n)
        BY <2>3
      <3>2. PlaceOf(offered, i) \in Nat /\ PlaceOf(offered, i - 1) \in Nat
        BY <3>1, PlacesAreNumbers
      <3>3. PlaceOf(offered, i) <= PlaceOf(offered, n)
        BY <2>3, <2>5, <3>1, PlacesDiffer
      <3>4. i \in KeptUpTo(offered, n) <=> Kept(offered[i])
        BY DEF KeptUpTo
      <3>5. PlaceOf(offered, i) > PlaceOf(offered, i - 1) <=> Kept(offered[i])
        BY <3>1, <3>2, PlacesAdvance
      <3> QED BY <2>2, <3>2, <3>3, <3>4, <3>5
    <2>9. planned = {i \in KeptUpTo(offered, n) : PlaceOf(offered, i) <= m}
      <3>1. KeptUpTo(offered, n) \subseteq 1 .. n
        BY DEF KeptUpTo
      <3>2. ASSUME NEW i \in KeptUpTo(offered, n)
            PROVE  rank(i) <= limit <=> PlaceOf(offered, i) <= m
        <4>1. rank(i) \in 1 .. PlaceOf(offered, n)
          BY <2>5, <2>8, <3>1
        <4> QED BY <2>2, <2>7, <4>1
      <3> QED BY <2>8, <3>1, <3>2
    <2>10. Len(plan) = Cardinality(planned)
      BY <2>3, <2>6, <2>7, <2>9, PlacesAreTaken
    <2>11. ASSUME NEW i \in planned PROVE plan[rank(i)] = offered[i]
      <3>1. i \in 1 .. n /\ i \in KeptUpTo(offered, n) /\ rank(i) <= limit
        BY <2>8
      <3>2. rank(i) \in 1 .. PlaceOf(offered, n)
        BY <2>5, <2>8, <3>1
      <3> QED BY <2>2, <2>4, <2>6, <3>1, <3>2
    <2> QED BY <2>10, <2>11 DEF IntelligentPlanIsComplete, offered, rank, budget
  <1> QED BY <1>1, RequestsAreAsked, PTL

-----------------------------------------------------------------------------
(* The trials of a plan: TuningLoop.                                        *)

\* The loop does not run past the end of the plan.
TrialsArePlanned == Len(observations) <= Len(PlanOf[request])

LoopInv == LoopTypeOK /\ TrialsArePlanned /\ BestIsFirstMaximum

LEMMA InitLoop == LoopInit => LoopInv
  BY LoopAssumption
  DEF LoopInit, LoopInv, LoopTypeOK, TrialsArePlanned, BestIsFirstMaximum

\* What BestIsFirstMaximum says of the trials up to one, i.
NotBetter(i) ==
    IsNumber(observations[i]) =>
        /\ observations[i] <= observations[best]
        /\ i < best => observations[i] < observations[best]

LEMMA TrialLoop == LoopInv /\ Trial => LoopInv'
  <1> SUFFICES ASSUME LoopInv, Trial PROVE LoopInv'
    OBVIOUS
  <1> DEFINE n == Len(observations)
  <1>1. PICK s \in Scores :
          /\ observations' = Append(observations, s)
          /\ best' = IF Better(s) THEN n + 1 ELSE best
    BY DEF Trial
  <1>2. observations \in Seq(Scores) /\ n \in Nat /\ best \in 0 .. n
    BY DEF LoopInv, LoopTypeOK
  <1>3. /\ observations' \in Seq(Scores)
        /\ Len(observations') = n + 1
        /\ observations'[n + 1] = s
        /\ \A i \in 1 .. n : observations'[i] = observations[i]
    BY <1>1, <1>2
  <1>4. \A i \in 1 .. n : IsNumber(observations[i]) => observations[i] \in Int
    <2> SUFFICES ASSUME NEW i \in 1 .. n, IsNumber(observations[i])
                 PROVE  observations[i] \in Int
      OBVIOUS
    <2>1. observations[i] \in Scores
      BY <1>2
    <2> QED BY <2>1, LoopAssumption DEF IsNumber
  <1>5. IsNumber(s) => s \in Int
    BY LoopAssumption DEF IsNumber
  <1>6. LoopTypeOK'
    BY <1>1, <1>2, <1>3 DEF LoopInv, LoopTypeOK, Trial
  <1>7. TrialsArePlanned'
    <2>1. n < Len(PlanOf[request]) /\ request' = request
      BY DEF Trial
    <2>2. Len(PlanOf[request]) \in Nat
      BY LoopAssumption DEF LoopInv, LoopTypeOK
    <2> QED BY <1>2, <1>3, <2>1, <2>2 DEF TrialsArePlanned
  <1>8. BestIsFirstMaximum'
    <2>1. observations' # <<>> /\ best' # 0
      <3>1. best' \in 1 .. n + 1
        BY <1>1, <1>2 DEF Better
      <3> QED BY <1>2, <1>3, <3>1
    <2>2. CASE best = 0
      <3>1. n = 0 /\ best' = 1
        BY <1>1, <1>2, <2>2 DEF LoopInv, BestIsFirstMaximum, Better
      <3>2. \A i \in 1 .. n + 1 : i = 1 /\ observations'[i] = s
        BY <1>3, <3>1
      <3>3. IsNumber(s) => \A i \in 1 .. n + 1 : NotBetter(i)'
        BY <1>5, <3>1, <3>2 DEF NotBetter
      <3> QED BY <1>3, <2>1, <3>1, <3>2, <3>3
              DEF BestIsFirstMaximum, NotBetter, IsNumber
    <2>3. CASE best # 0 /\ ~IsNumber(observations[1])
      <3>1. best = 1 /\ 1 \in 1 .. n
        BY <1>2, <2>3 DEF LoopInv, BestIsFirstMaximum
      <3>2. best' = 1 /\ observations'[1] = observations[1]
        BY <1>1, <1>3, <2>3, <3>1 DEF Better
      <3> QED BY <2>1, <2>3, <3>2 DEF BestIsFirstMaximum, IsNumber
    <2>4. CASE best # 0 /\ IsNumber(observations[1])
      <3>1. /\ best \in 1 .. n /\ 1 \in 1 .. n
            /\ IsNumber(observations[best]) /\ observations[best] \in Int
            /\ \A i \in 1 .. n : NotBetter(i)
        BY <1>2, <1>4, <2>4 DEF LoopInv, BestIsFirstMaximum, NotBetter
      <3>2. IsNumber(observations'[1])
        BY <1>3, <2>4, <3>1 DEF IsNumber
      <3>3. CASE IsNumber(s) /\ s > observations[best]
        <4>1. best' = n + 1 /\ observations'[best'] = s
          BY <1>1, <1>3, <3>1, <3>3 DEF Better
        <4>2. ASSUME NEW i \in 1 .. n + 1, IsNumber(observations'[i])
              PROVE  /\ observations'[i] <= s
                     /\ i < n + 1 => observations'[i] < s
          <5>1. CASE i = n + 1
            BY <1>3, <1>5, <3>3, <5>1
          <5>2. CASE i \in 1 .. n
            <6>1. observations'[i] = observations[i] /\ observations[i] \in Int
              BY <1>3, <1>4, <4>2, <5>2 DEF IsNumber
            <6>2. observations[i] <= observations[best]
              BY <3>1, <4>2, <5>2, <6>1 DEF NotBetter, IsNumber
            <6> QED BY <1>5, <3>1, <3>3, <6>1, <6>2
          <5> QED BY <1>2, <5>1, <5>2
        <4> QED BY <1>3, <2>1, <3>2, <3>3, <4>1, <4>2
                DEF BestIsFirstMaximum, IsNumber
      <3>4. CASE ~(IsNumber(s) /\ s > observations[best])
        <4>1. best' = best /\ observations'[best'] = observations[best]
          BY <1>1, <1>3, <2>4, <3>1, <3>4 DEF Better
        <4>2. ASSUME NEW i \in 1 .. n + 1, IsNumber(observations'[i])
              PROVE  /\ observations'[i] <= observations[best]
                     /\ i < best => observations'[i] < observations[best]
          <5>1. CASE i = n + 1
            <6>1. observations'[i] = s /\ IsNumber(s)
              BY <1>3, <4>2, <5>1 DEF IsNumber
            <6> QED BY <1>2, <1>5, <3>1, <3>4, <5>1, <6>1
          <5>2. CASE i \in 1 .. n
            <6>1. observations'[i] = observations[i] /\ IsNumber(observations[i])
              BY <1>3, <4>2, <5>2 DEF IsNumber
            <6> QED BY <3>1, <5>2, <6>1 DEF NotBetter
          <5> QED BY <1>2, <5>1, <5>2
        <4> QED BY <1>3, <2>1, <3>1, <3>2, <4>1, <4>2
                DEF BestIsFirstMaximum, IsNumber
      <3> QED BY <3>3, <3>4
    <2> QED BY <2>2, <2>3, <2>4
  <1> QED BY <1>6, <1>7, <1>8 DEF LoopInv

LEMMA StepLoop == LoopInv /\ [LoopNext]_loopVars => LoopInv'
  <1>1. LoopInv /\ (RunnerRaises \/ Return \/ UNCHANGED loopVars) => LoopInv'
    BY DEF RunnerRaises, Return, loopVars, LoopInv, LoopTypeOK, TrialsArePlanned,
           BestIsFirstMaximum, IsNumber
  <1> QED BY <1>1, TrialLoop DEF LoopNext

\* The invariant of the loop.
THEOREM LoopInvariance == LoopSpec => []LoopInv
  BY InitLoop, StepLoop, PTL DEF LoopSpec

\* For every plan and every runner, whose scores may be NaN: best is the first
\* trial with the highest score so far, or the first trial if that has none
\* (tuning.py:168-183).
THEOREM BestIsTheFirstMaximum == LoopSpec => []BestIsFirstMaximum
  <1>1. LoopInv => BestIsFirstMaximum
    BY DEF LoopInv
  <1> QED BY <1>1, LoopInvariance, PTL

\* What a loop may spend: no more trials than it was given.
TrialsWithinBudget == request.budget >= 0 => Len(observations) <= request.budget

\* A plan is never longer than its budget, in either mode.
LEMMA PlansArePaidFor ==
  ASSUME request \in PlanRequests, request.budget >= 0
  PROVE  Len(plan) <= request.budget
  <1>1. request.mode \in {"standard", "intelligent"}
    BY PlanningAssumption DEF AllRequests
  <1>2. CASE request.mode = "standard"
    BY <1>2, StandardPlans
  <1>3. CASE request.mode = "intelligent"
    <2> DEFINE offered == Offered(request.gpus, request.llm)
    <2>1. /\ offered \in Seq(FrameworkParams) /\ request.budget \in Nat
          /\ plan = Cut(Pruned(offered), request.budget)
      <3>1. request.budget \in Nat
        BY <1>3, IntelligentPlans
      <3> QED BY <1>3, <3>1, IntelligentPlans, Zenon
    <2> HIDE DEF offered
    <2>2. Pruned(offered) \in Seq(FrameworkParams)
      BY <2>1, PruningKeepsTheOrder
    <2>3. Len(plan) = AtMost(request.budget, Len(Pruned(offered)))
      BY <2>1, <2>2, BudgetsCut
    <2> QED BY <2>1, <2>2, <2>3 DEF AtMost
  <1> QED BY <1>1, <1>2, <1>3

\* Whatever is asked for, whatever the LLM adds and whatever the runner does,
\* a loop starts no more trials than its budget (tuning.py:89, 150, 169-181).
THEOREM TrialsStayWithinBudget == LoopSpec => []TrialsWithinBudget
  <1>1. LoopInv /\ request \in PlanRequests => TrialsWithinBudget
    <2> SUFFICES ASSUME LoopInv, request \in PlanRequests, request.budget >= 0
                 PROVE  Len(observations) <= request.budget
      BY DEF TrialsWithinBudget
    <2>1. Len(plan) <= request.budget /\ Len(observations) <= Len(plan)
      BY PlansArePaidFor DEF LoopInv, TrialsArePlanned, plan
    <2>2. Len(plan) \in Nat
      BY LoopAssumption DEF plan
    <2>3. Len(observations) \in Nat
      BY DEF LoopInv, LoopTypeOK
    <2>4. request.budget \in Int
      BY PlanningAssumption DEF AllRequests
    <2> QED BY <2>1, <2>2, <2>3, <2>4
  <1> QED BY <1>1, LoopInvariance, RequestsAreAsked, PTL
=============================================================================
