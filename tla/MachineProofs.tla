--------------------------- MODULE MachineProofs ---------------------------
(***************************************************************************)
(* For any requests, runtime modes and PATCHed statuses: what a machine's    *)
(* row says is backed by committed records, its deletion leaves nothing, and *)
(* reruns keep each other's results.  And for any requests, plans and        *)
(* packages: what the row and the records say of the software on the host.   *)
(***************************************************************************)
EXTENDS MachineBootstrap, MachineEnvironmentInvariant, TLAPS

-----------------------------------------------------------------------------
(* The rows of a machine: MachineEnvironment.                               *)

LEMMA StatusesAreReported ==
  /\ \A v \in Verdicts : DiscoveryStatus(v) \in Reported
  /\ "absent" \notin Reported /\ "deleted" \notin Reported
  BY SMTT(20) DEF Reported, Verdicts, DiscoveryStatus

LEMMA VerdictsAreVerdicts ==
  ASSUME NEW m, NEW f PROVE Evaluate(m, f) \in Verdicts
  BY DEF Evaluate, Verdicts

LEMMA InitEnvironment == Init => IInv
  <1> SUFFICES ASSUME Init PROVE IInv
    OBVIOUS
  <1>1. TypeOK
    BY ModesAssumption DEF Init, TypeOK, Kinds, Sync, Async, NothingLoaded,
       Profiles, Run, NoRun
  <1>2. /\ NothingBeforeTheMachine /\ RecordsAreAnswered /\ RerunsHoldTheLoop
        /\ ModesAreKnown
    BY DEF Init, NothingBeforeTheMachine, RecordsAreAnswered, RerunsHoldTheLoop,
           ModesAreKnown, NoRun
  <1>3. /\ ProfileHasASnapshot /\ NothingOutlivesTheMachine /\ RerunsAreKept
    BY DEF Init, ProfileHasASnapshot, NothingOutlivesTheMachine, RerunsAreKept
  <1>4. StatusIsRecorded
    BY DEF Init, StatusIsRecorded, Backed, DiscoveryStatus, Verdicts
  <1>5. VerdictsHaveRuns
    BY DEF Init, VerdictsHaveRuns, NoRun
  <1> QED BY <1>1, <1>2, <1>3, <1>4, <1>5 DEF IInv

-----------------------------------------------------------------------------
(* The type of each part after a step.                                      *)

LEMMA AnswerType ==
  ASSUME TypeOK, NEW r \in Requests, NEW a \in {"ok", "error"}, Answer(r, a)
  PROVE  /\ pc' \in [Requests -> {"idle", "open", "ok", "error"}]
         /\ kind' \in [Requests -> Kinds]
         /\ dry' \in [Requests -> BOOLEAN]
         /\ target' \in [Requests -> Requests]
         /\ loaded' \in [Requests -> [status : Reported \cup {"absent"},
                                profile : Profiles, mode : RuntimeModes,
                                snapshots : SUBSET Requests,
                                reruns : SUBSET Requests]]
  BY ModesAssumption DEF TypeOK, Answer, NothingLoaded, Profiles

LEMMA NewRunType ==
  ASSUME TypeOK, NEW r \in Requests, NEW passed \in BOOLEAN,
         NEW verdict \in Verdicts \cup {"none"}, NewRun(r, passed, verdict)
  PROVE  run' \in [Requests -> Run]
  BY DEF TypeOK, NewRun, Run

LEMMA RerunType ==
  ASSUME run \in [Requests -> Run], NEW t \in Requests,
         NEW list \in SUBSET Requests
  PROVE  [run EXCEPT ![t].status = "succeeded", ![t].reruns = list]
            \in [Requests -> Run]
  <1> DEFINE new == [run[t] EXCEPT !.status = "succeeded", !.reruns = list]
  <1>1. run[t] \in Run
    OBVIOUS
  <1>2. new \in Run
    BY <1>1 DEF Run
  <1>3. [run EXCEPT ![t].status = "succeeded", ![t].reruns = list]
          = [run EXCEPT ![t] = new]
    OBVIOUS
  <1> QED BY <1>2, <1>3

LEMMA WriteProfileType ==
  ASSUME TypeOK, NEW r \in Requests, WriteProfile(r)
  PROVE  profile' \in Profiles /\ snapshots' \subseteq Requests
  BY DEF TypeOK, WriteProfile, ProfileOf, Profiles

LEMMA TypeKept == TypeOK /\ [Next]_vars => TypeOK'
  <1> SUFFICES ASSUME TypeOK, [Next]_vars PROVE TypeOK'
    OBVIOUS
  <1> USE StatusesAreReported
  <1>1. CASE CreateMachine
    BY <1>1 DEF CreateMachine, TypeOK, Reported, request
  <1>2. ASSUME NEW r \in Requests, LoadMachine(r) PROVE TypeOK'
    BY <1>2, SMTT(30) DEF LoadMachine, Opens, Exists, TypeOK, machine
  <1>3. ASSUME NEW r \in Requests, LoadRun(r) PROVE TypeOK'
    <2> PICK q \in Requests :
          /\ target' = [target EXCEPT ![r] = q]
          /\ loaded' = [loaded EXCEPT ![r] =
                          [NothingLoaded EXCEPT !.reruns = run[q].reruns]]
      BY <1>3 DEF LoadRun
    <2>1. loaded'[r] \in [status : Reported \cup {"absent"},
                          profile : Profiles, mode : RuntimeModes,
                          snapshots : SUBSET Requests, reruns : SUBSET Requests]
      BY ModesAssumption DEF TypeOK, NothingLoaded, Profiles, Run
    <2> QED BY <1>3, <2>1 DEF LoadRun, Opens, TypeOK, machine, Kinds, Async
  <1>4. ASSUME NEW r \in Requests, MachineIsGone(r) \/ RequestFails(r)
                                   \/ DeleteRefused(r)
        PROVE  TypeOK'
    BY <1>4, AnswerType DEF MachineIsGone, RequestFails, DeleteRefused, machine,
                            TypeOK
  <1>5. ASSUME NEW r \in Requests, Probe(r) PROVE TypeOK'
    <2>1. status' \in Reported
      BY <1>5 DEF Probe, WriteStatus, Exists, TypeOK, Reported
    <2> QED BY <1>5, <2>1, AnswerType, WriteProfileType
            DEF Probe, Commits, TypeOK
  <1>6. ASSUME NEW r \in Requests, Discover(r) PROVE TypeOK'
    <2>1. PICK f \in Facts :
            /\ NewRun(r, DiscoveryPassed(f), Evaluate(loaded[r].mode, f))
            /\ WriteStatus(r, DiscoveryStatus(Evaluate(loaded[r].mode, f)))
      BY <1>6 DEF Discover
    <2>2. DiscoveryPassed(f) \in BOOLEAN
      BY DEF Facts, DiscoveryPassed
    <2>3. Evaluate(loaded[r].mode, f) \in Verdicts
      BY VerdictsAreVerdicts
    <2>4. status' \in Reported
      BY <1>6, <2>1, <2>3 DEF Discover, WriteStatus, Exists, TypeOK
    <2>5. run' \in [Requests -> Run]
      BY <2>1, <2>2, <2>3, NewRunType
    <2> QED BY <1>6, <2>4, <2>5, AnswerType, WriteProfileType
            DEF Discover, Commits, TypeOK
  <1>7. ASSUME NEW r \in Requests, PiWorkflow(r) PROVE TypeOK'
    <2>1. status' \in Reported
      BY <1>7 DEF PiWorkflow, WriteStatus, Exists, TypeOK, Reported
    <2>2. run' \in [Requests -> Run]
      BY <1>7, NewRunType DEF PiWorkflow
    <2> QED BY <1>7, <2>1, <2>2, AnswerType DEF PiWorkflow, Commits, TypeOK
  <1>8. ASSUME NEW r \in Requests, Scripted(r) PROVE TypeOK'
    <2>1. status' \in Reported
      BY <1>8 DEF Scripted, RecordScripted, WriteStatus, Exists, TypeOK, Reported
    <2>2. run' \in [Requests -> Run]
      BY <1>8, NewRunType DEF Scripted, RecordScripted
    <2> QED BY <1>8, <2>1, <2>2, AnswerType
            DEF Scripted, RecordScripted, Commits, TypeOK
  <1>9. ASSUME NEW r \in Requests, RerunModule(r) PROVE TypeOK'
    <2>1. target[r] \in Requests /\ loaded[r].reruns \cup {r} \in SUBSET Requests
      BY DEF TypeOK
    <2>2. run' \in [Requests -> Run]
      BY <1>9, <2>1, RerunType DEF RerunModule, TypeOK
    <2> QED BY <1>9, <2>2, AnswerType DEF RerunModule, Commits, TypeOK, machine
  <1>10. ASSUME NEW r \in Requests, Patch(r) PROVE TypeOK'
    <2>1. status' \in Reported /\ patched' \subseteq PatchStatuses
      BY <1>10, StatusesAssumption DEF Patch, WriteStatus, Exists, TypeOK
    <2>2. mode' \in RuntimeModes /\ outdated' \subseteq Requests
      BY <1>10 DEF Patch, TypeOK
    <2> QED BY <1>10, <2>1, <2>2, AnswerType DEF Patch, Commits, TypeOK
  <1>11. ASSUME NEW r \in Requests, DeleteMachine(r) PROVE TypeOK'
    BY <1>11, AnswerType DEF DeleteMachine, Commits, TypeOK
  <1>12. CASE UNCHANGED vars
    BY <1>12 DEF vars, request, machine, TypeOK
  <1> QED
    BY <1>1, <1>2, <1>3, <1>4, <1>5, <1>6, <1>7, <1>8, <1>9, <1>10, <1>11, <1>12
    DEF Next

-----------------------------------------------------------------------------
(* Two facts about every step.                                              *)

\* What a request asks for is fixed once it has loaded its row.
LEMMA RequestsAreFixed ==
  ASSUME TypeOK, [Next]_vars, NEW q \in Requests
  PROVE  /\ pc[q] # "idle" => /\ pc'[q] # "idle" /\ kind'[q] = kind[q]
                              /\ dry'[q] = dry[q] /\ target'[q] = target[q]
         /\ pc[q] = "ok" => pc'[q] = "ok"
         /\ pc'[q] = "open" /\ pc[q] # "idle" => /\ pc[q] = "open"
                                                 /\ loaded'[q] = loaded[q]
  <1> DEFINE Goal == /\ pc[q] # "idle" => /\ pc'[q] # "idle" /\ kind'[q] = kind[q]
                              /\ dry'[q] = dry[q] /\ target'[q] = target[q]
                     /\ pc[q] = "ok" => pc'[q] = "ok"
                     /\ pc'[q] = "open" /\ pc[q] # "idle" => /\ pc[q] = "open"
                                                 /\ loaded'[q] = loaded[q]
  <1>1. ASSUME NEW r \in Requests, LoadMachine(r) PROVE Goal
    BY <1>1 DEF LoadMachine, Opens, TypeOK
  <1>2. ASSUME NEW r \in Requests, LoadRun(r) PROVE Goal
    BY <1>2 DEF LoadRun, Opens, TypeOK
  <1>3. ASSUME NEW r \in Requests, pc[r] = "open", NEW a \in {"ok", "error"},
               Answer(r, a)
        PROVE  Goal
    BY <1>3 DEF Answer, TypeOK
  <1>4. ASSUME NEW r \in Requests, NEW k, Commits(r, k) PROVE Goal
    BY <1>3, <1>4 DEF Commits
  <1>5. ASSUME NEW r \in Requests,
               MachineIsGone(r) \/ RequestFails(r) \/ DeleteRefused(r)
        PROVE  Goal
    BY <1>3, <1>5 DEF MachineIsGone, RequestFails, DeleteRefused
  <1>6. ASSUME NEW r \in Requests,
               Probe(r) \/ Discover(r) \/ PiWorkflow(r) \/ Scripted(r)
               \/ RerunModule(r) \/ Patch(r) \/ DeleteMachine(r)
        PROVE  Goal
    BY <1>4, <1>6 DEF Probe, Discover, PiWorkflow, Scripted, RecordScripted,
                      RerunModule, Patch, DeleteMachine
  <1>7. CASE CreateMachine
    BY <1>7 DEF CreateMachine, request
  <1>8. CASE UNCHANGED vars
    BY <1>8 DEF vars, request
  <1> QED BY <1>1, <1>2, <1>5, <1>6, <1>7, <1>8 DEF Next

\* Three of the reports commit a run.
Reports(r, passed, verdict, s) ==
  /\ Exists
  /\ pc[r] = "open" /\ pc' = [pc EXCEPT ![r] = "ok"]
  /\ kind[r] \in {"discover", "pi", "scripted"}
  /\ NewRun(r, passed, verdict)
  /\ WriteStatus(r, s)
  /\ mode' = mode /\ patched' = patched /\ outdated' = outdated
  /\ kind' = kind /\ dry' = dry /\ target' = target

\* What the status it writes says of the run.
Accounts(r, passed, verdict, s) ==
  \/ \E v \in Verdicts : s = DiscoveryStatus(v) /\ verdict = v
  \/ s = "agent_workflow_planned" /\ kind[r] = "pi" /\ dry[r] /\ passed
  \/ s = "agent_workflow_failed" /\ kind[r] = "pi" /\ ~passed
  \/ s = "bootstrap_failed" /\ kind[r] = "scripted" /\ ~passed
  \/ s = "ready" /\ kind[r] = "pi" /\ ~dry[r] /\ passed
  \/ s = "ready" /\ kind[r] = "scripted" /\ passed

ReportStep(r) ==
  \E passed \in BOOLEAN, verdict \in Verdicts \cup {"none"}, s \in Reported :
      Reports(r, passed, verdict, s) /\ Accounts(r, passed, verdict, s)

LEMMA ReportsReport ==
  ASSUME TypeOK, NEW r \in Requests,
         Discover(r) \/ PiWorkflow(r) \/ Scripted(r)
  PROVE  /\ ReportStep(r)
         /\ \/ WriteProfile(r)
            \/ profile' = profile /\ snapshots' = snapshots
  <1>1. CASE Discover(r)
    <2>1. PICK f \in Facts :
            /\ NewRun(r, DiscoveryPassed(f), Evaluate(loaded[r].mode, f))
            /\ WriteStatus(r, DiscoveryStatus(Evaluate(loaded[r].mode, f)))
      BY <1>1 DEF Discover
    <2>2. /\ DiscoveryPassed(f) \in BOOLEAN
          /\ Evaluate(loaded[r].mode, f) \in Verdicts
      BY VerdictsAreVerdicts DEF Facts, DiscoveryPassed
    <2>3. DiscoveryStatus(Evaluate(loaded[r].mode, f)) \in Reported
      BY <2>2, StatusesAreReported
    <2> DEFINE passed == DiscoveryPassed(f)
               verdict == Evaluate(loaded[r].mode, f)
    <2>4. Reports(r, passed, verdict, DiscoveryStatus(verdict))
      BY <1>1, <2>1 DEF Discover, Commits, Answer, Reports
    <2>5. Accounts(r, passed, verdict, DiscoveryStatus(verdict))
      BY <2>2 DEF Accounts
    <2>6. WriteProfile(r)
      BY <1>1 DEF Discover
    <2> HIDE DEF passed, verdict
    <2> QED BY <2>2, <2>3, <2>4, <2>5, <2>6 DEF ReportStep, passed, verdict
  <1>2. CASE PiWorkflow(r)
    <2>1. PICK passed \in BOOLEAN :
            /\ NewRun(r, passed, "none")
            /\ WriteStatus(r, IF ~passed THEN "agent_workflow_failed"
                               ELSE IF dry[r] THEN "agent_workflow_planned"
                               ELSE "ready")
      <3>1. PICK res \in PiResults(dry[r]) :
              /\ NewRun(r, StepExit(res) = 0, "none")
              /\ WriteStatus(r, IF ~(StepExit(res) = 0) THEN "agent_workflow_failed"
                                 ELSE IF dry[r] THEN "agent_workflow_planned"
                                 ELSE "ready")
        BY <1>2 DEF PiWorkflow
      <3> QED BY <3>1
    <2>2. PICK s \in Reported :
            /\ WriteStatus(r, s)
            /\ s = IF ~passed THEN "agent_workflow_failed"
                   ELSE IF dry[r] THEN "agent_workflow_planned" ELSE "ready"
      BY <2>1 DEF Reported
    <2>3. kind[r] = "pi" /\ dry[r] \in BOOLEAN
      BY <1>2 DEF PiWorkflow, Commits, TypeOK
    <2>4. Reports(r, passed, "none", s)
      BY <1>2, <2>1, <2>2 DEF PiWorkflow, Commits, Answer, Reports
    <2>5. Accounts(r, passed, "none", s)
      BY <2>2, <2>3 DEF Accounts
    <2> QED BY <1>2, <2>4, <2>5 DEF ReportStep, PiWorkflow
  <1>3. CASE Scripted(r)
    <2>1. PICK passed \in BOOLEAN : RecordScripted(r, passed)
      BY <1>3 DEF Scripted
    <2>2. PICK s \in Reported :
            /\ WriteStatus(r, s)
            /\ s = IF passed THEN "ready" ELSE "bootstrap_failed"
      BY <2>1 DEF RecordScripted, Reported
    <2>3. kind[r] = "scripted"
      BY <2>1 DEF RecordScripted, Commits
    <2>4. Reports(r, passed, "none", s)
      BY <2>1, <2>2 DEF RecordScripted, Commits, Answer, Reports
    <2>5. Accounts(r, passed, "none", s)
      BY <2>2, <2>3 DEF Accounts
    <2> QED BY <2>1, <2>4, <2>5 DEF ReportStep, RecordScripted
  <1> QED BY <1>1, <1>2, <1>3

\* The steps, as far as the records are concerned.
Quiet == /\ status' = status /\ profile' = profile /\ snapshots' = snapshots
         /\ run' = run /\ patched' = patched /\ mode' = mode
         /\ outdated' = outdated

LEMMA StepKinds ==
  ASSUME TypeOK, [Next]_vars
  PROVE  \/ CreateMachine
         \/ Quiet
         \/ \E r \in Requests : Probe(r)
         \/ \E r \in Requests : /\ ReportStep(r)
                                /\ \/ WriteProfile(r)
                                   \/ profile' = profile /\ snapshots' = snapshots
         \/ \E r \in Requests : RerunModule(r)
         \/ \E r \in Requests : Patch(r)
         \/ \E r \in Requests : DeleteMachine(r)
  <1>1. ASSUME NEW r \in Requests,
               LoadMachine(r) \/ LoadRun(r) \/ MachineIsGone(r)
               \/ RequestFails(r) \/ DeleteRefused(r)
        PROVE  Quiet
    BY <1>1 DEF LoadMachine, LoadRun, Opens, MachineIsGone, RequestFails,
                DeleteRefused, machine, Quiet
  <1>2. CASE UNCHANGED vars
    BY <1>2 DEF vars, machine, Quiet
  <1> QED BY <1>1, <1>2, ReportsReport DEF Next

\* A committed run is there to stay, with what it says of its steps.
LEMMA RunsAreKept ==
  ASSUME IInv, [Next]_vars, NEW q \in Requests, run[q].status # "none"
  PROVE  /\ pc[q] = "ok"
         /\ run'[q].status # "none"
         /\ run'[q].passed = run[q].passed
         /\ run'[q].verdict = run[q].verdict
         /\ run'[q].mode = run[q].mode
         /\ run[q].reruns \subseteq run'[q].reruns
  <1> TypeOK
    BY DEF IInv
  <1>1. pc[q] = "ok" /\ run[q] \in Run
    BY DEF IInv, RecordsAreAnswered, TypeOK
  <1>2. ASSUME run'[q] = run[q] PROVE run[q].reruns \subseteq run'[q].reruns
    BY <1>2
  <1>3. ASSUME NEW r \in Requests, ReportStep(r) PROVE run'[q] = run[q]
    BY <1>1, <1>3 DEF ReportStep, Reports, NewRun, TypeOK
  <1>4. ASSUME NEW r \in Requests, RerunModule(r)
        PROVE  /\ run'[q].status # "none"
               /\ run'[q].passed = run[q].passed
               /\ run'[q].verdict = run[q].verdict
               /\ run'[q].mode = run[q].mode
               /\ run[q].reruns \subseteq run'[q].reruns
    <2>1. pc[r] = "open" /\ kind[r] = "rerun" /\ target[r] \in Requests
      BY <1>4 DEF RerunModule, Commits, TypeOK
    <2>2. loaded[r].reruns = run[target[r]].reruns
      BY <2>1 DEF IInv, RerunsHoldTheLoop
    <2>3. run' = [run EXCEPT ![target[r]].status = "succeeded",
                             ![target[r]].reruns = loaded[r].reruns \cup {r}]
      BY <1>4 DEF RerunModule
    <2>4. CASE q = target[r]
      <3>1. run'[q] = [run[q] EXCEPT !.status = "succeeded",
                                     !.reruns = loaded[r].reruns \cup {r}]
        BY <2>3, <2>4 DEF TypeOK
      <3> QED BY <1>1, <2>2, <2>4, <3>1 DEF Run
    <2>5. CASE q # target[r]
      BY <1>1, <2>1, <2>3, <2>5 DEF TypeOK
    <2> QED BY <2>4, <2>5
  <1>5. ASSUME NEW r \in Requests, Probe(r) \/ Patch(r) \/ DeleteMachine(r)
        PROVE  run' = run
    BY <1>5 DEF Probe, Patch, DeleteMachine
  <1>6. CreateMachine => run' = run
    BY DEF CreateMachine
  <1> QED BY StepKinds, <1>1, <1>2, <1>3, <1>4, <1>5, <1>6 DEF Quiet

LEMMA NothingBeforeKept == IInv /\ [Next]_vars => NothingBeforeTheMachine'
  <1> SUFFICES ASSUME IInv, [Next]_vars, status' = "absent"
               PROVE  /\ profile' = "none" /\ snapshots' = {}
                      /\ \A r \in Requests : pc'[r] = "idle"
                                             /\ run'[r].status = "none"
    BY DEF NothingBeforeTheMachine
  <1> TypeOK
    BY DEF IInv
  <1>1. status = "absent"
    <2>1. ASSUME NEW r \in Requests, NEW s \in Reported, Exists, WriteStatus(r, s)
          PROVE  FALSE
      BY <2>1, StatusesAreReported DEF Exists, WriteStatus, TypeOK
    <2>2. ~CreateMachine
      BY DEF CreateMachine
    <2>3. \A r \in Requests : ~Probe(r)
      BY <2>1 DEF Probe, Reported
    <2>4. \A r \in Requests : ~ReportStep(r)
      BY <2>1 DEF ReportStep, Reports
    <2>5. ASSUME NEW r \in Requests, RerunModule(r) PROVE status' = status
      BY <2>5 DEF RerunModule, machine
    <2>6. ASSUME NEW r \in Requests, Patch(r) PROVE status' = status
      <3>1. \A s \in PatchStatuses : ~WriteStatus(r, s)
        BY <2>1, <2>6, StatusesAssumption DEF Patch
      <3> QED BY <2>6, <3>1 DEF Patch
    <2>7. \A r \in Requests : ~DeleteMachine(r)
      BY DEF DeleteMachine
    <2> QED BY StepKinds, <2>2, <2>3, <2>4, <2>5, <2>6, <2>7 DEF Quiet
  <1>2. /\ profile = "none" /\ snapshots = {} /\ ~Exists
        /\ \A r \in Requests : pc[r] = "idle" /\ run[r].status = "none"
    BY <1>1 DEF IInv, NothingBeforeTheMachine, Exists
  <1>3. \A r \in Requests : /\ ~LoadMachine(r) /\ ~LoadRun(r) /\ ~MachineIsGone(r)
                            /\ ~RequestFails(r) /\ ~Probe(r) /\ ~Discover(r)
                            /\ ~PiWorkflow(r) /\ ~Scripted(r) /\ ~RerunModule(r)
                            /\ ~Patch(r) /\ ~DeleteMachine(r) /\ ~DeleteRefused(r)
    BY <1>2 DEF LoadMachine, LoadRun, MachineIsGone, RequestFails, Probe, Discover,
       PiWorkflow, Scripted, RecordScripted, RerunModule, Commits, Patch,
       DeleteMachine, DeleteRefused
  <1>4. UNCHANGED vars
    BY <1>3 DEF Next, CreateMachine
  <1> QED BY <1>2, <1>4 DEF vars, machine

LEMMA AnsweredKept == IInv /\ [Next]_vars => RecordsAreAnswered'
  <1> SUFFICES ASSUME IInv, [Next]_vars, NEW q \in Requests
               PROVE  /\ q \in snapshots' => pc'[q] = "ok"
                      /\ run'[q].status # "none" => pc'[q] = "ok"
    BY DEF RecordsAreAnswered
  <1> TypeOK
    BY DEF IInv
  <1>1. q \in snapshots \/ run[q].status # "none" => pc'[q] = "ok"
    BY RequestsAreFixed DEF IInv, RecordsAreAnswered
  <1>2. ASSUME NEW r \in Requests, pc'[r] = "ok", WriteProfile(r)
        PROVE  q \in snapshots' => pc'[q] = "ok"
    BY <1>1, <1>2 DEF WriteProfile
  <1>3. ASSUME NEW r \in Requests, Probe(r)
        PROVE  pc'[r] = "ok" /\ WriteProfile(r) /\ run' = run
    BY <1>3 DEF Probe, Commits, Answer, TypeOK
  <1>4. ASSUME NEW r \in Requests, ReportStep(r)
        PROVE  pc'[r] = "ok" /\ (q # r => run'[q] = run[q])
    BY <1>4 DEF ReportStep, Reports, NewRun, TypeOK
  <1>5. ASSUME NEW r \in Requests, RerunModule(r)
        PROVE  snapshots' = snapshots /\ (q # target[r] => run'[q] = run[q])
    BY <1>5 DEF RerunModule, TypeOK
  <1>6. ASSUME NEW r \in Requests, RerunModule(r), q = target[r]
        PROVE  run[q].status # "none"
    BY <1>6 DEF RerunModule, Commits, IInv, RerunsHoldTheLoop
  <1>7. ASSUME NEW r \in Requests, Patch(r) \/ DeleteMachine(r)
        PROVE  snapshots' \subseteq snapshots /\ run' = run
    BY <1>7 DEF Patch, DeleteMachine
  <1>8. CreateMachine => snapshots' = snapshots /\ run' = run
    BY DEF CreateMachine
  <1> QED BY StepKinds, <1>1, <1>2, <1>3, <1>4, <1>5, <1>6, <1>7, <1>8 DEF Quiet

LEMMA Opening ==
  ASSUME TypeOK, [Next]_vars, NEW q \in Requests, pc[q] = "idle", pc'[q] # "idle"
  PROVE  LoadMachine(q) \/ LoadRun(q)
  <1>1. ASSUME NEW r \in Requests, LoadMachine(r) \/ LoadRun(r), r # q
        PROVE  pc'[q] = pc[q]
    BY <1>1 DEF LoadMachine, LoadRun, Opens, TypeOK
  <1>2. ASSUME NEW r \in Requests, NEW a, pc[r] = "open", Answer(r, a)
        PROVE  pc'[q] = pc[q]
    BY <1>2 DEF Answer, TypeOK
  <1>3. ASSUME NEW r \in Requests, NEW k, Commits(r, k)
        PROVE  pc'[q] = pc[q]
    BY <1>2, <1>3 DEF Commits
  <1>4. ASSUME NEW r \in Requests,
               MachineIsGone(r) \/ RequestFails(r) \/ DeleteRefused(r)
        PROVE  pc'[q] = pc[q]
    BY <1>2, <1>4 DEF MachineIsGone, RequestFails, DeleteRefused
  <1>5. ASSUME NEW r \in Requests,
               Probe(r) \/ Discover(r) \/ PiWorkflow(r) \/ Scripted(r)
               \/ RerunModule(r) \/ Patch(r) \/ DeleteMachine(r)
        PROVE  pc'[q] = pc[q]
    BY <1>3, <1>5 DEF Probe, Discover, PiWorkflow, Scripted, RecordScripted,
                      RerunModule, Patch, DeleteMachine
  <1>6. CreateMachine \/ UNCHANGED vars => pc'[q] = pc[q]
    BY DEF CreateMachine, vars
  <1> QED BY <1>1, <1>4, <1>5, <1>6 DEF Next

LEMMA RerunsHoldKept == IInv /\ [Next]_vars => RerunsHoldTheLoop'
  <1> SUFFICES ASSUME IInv, [Next]_vars, NEW q \in Requests,
                      kind'[q] = "rerun", pc'[q] # "idle"
               PROVE  /\ run'[target'[q]].status # "none"
                      /\ pc'[q] = "open" =>
                           /\ dry'[q]
                           /\ loaded'[q].reruns = run'[target'[q]].reruns
    BY DEF RerunsHoldTheLoop
  <1> TypeOK
    BY DEF IInv
  <1>1. CASE pc[q] = "idle"
    <2>1. ~LoadMachine(q)
      BY DEF LoadMachine, Opens, TypeOK, Kinds
    <2>2. LoadRun(q)
      BY <1>1, <2>1, Opening
    <2>3. PICK t \in Requests :
            /\ run[t].status # "none"
            /\ target' = [target EXCEPT ![q] = t]
            /\ loaded' = [loaded EXCEPT ![q] =
                            [NothingLoaded EXCEPT !.reruns = run[t].reruns]]
      BY <2>2 DEF LoadRun
    <2>4. target'[q] = t /\ loaded'[q].reruns = run[t].reruns
      BY <2>3 DEF TypeOK, NothingLoaded
    <2>5. dry'[q] /\ run' = run
      BY <2>2 DEF LoadRun, Opens, TypeOK
    <2> QED BY <2>3, <2>4, <2>5
  <1>2. CASE pc[q] # "idle"
    <2> DEFINE t == target[q]
    <2>1. kind[q] = "rerun" /\ target'[q] = t /\ dry'[q] = dry[q] /\ t \in Requests
      BY <1>2, RequestsAreFixed DEF TypeOK
    <2>2. run[t].status # "none"
      BY <1>2, <2>1 DEF IInv, RerunsHoldTheLoop
    <2>3. run'[t].status # "none" /\ pc[t] = "ok"
      BY <2>1, <2>2, RunsAreKept
    <2>4. ASSUME pc'[q] = "open" PROVE dry'[q] /\ loaded'[q].reruns = run'[t].reruns
      <3>1. pc[q] = "open" /\ loaded'[q] = loaded[q]
        BY <1>2, <2>4, RequestsAreFixed
      <3>2. dry[q] /\ loaded[q].reruns = run[t].reruns
        BY <2>1, <3>1 DEF IInv, RerunsHoldTheLoop
      <3>3. ASSUME NEW r \in Requests, ReportStep(r) PROVE run'[t] = run[t]
        BY <2>1, <2>3, <3>3 DEF ReportStep, Reports, NewRun, TypeOK
      <3>4. ASSUME NEW r \in Requests, RerunModule(r) PROVE FALSE
        <4>1. r # q
          BY <2>4, <3>4 DEF RerunModule, Commits, Answer, TypeOK
        <4>2. LoopFree(r)
          BY <3>4 DEF RerunModule, Commits, Async
        <4> QED BY <2>1, <3>1, <3>2, <4>1, <4>2 DEF LoopFree, Async
      <3>5. ASSUME NEW r \in Requests, Probe(r) \/ Patch(r) \/ DeleteMachine(r)
            PROVE  run' = run
        BY <3>5 DEF Probe, Patch, DeleteMachine
      <3>6. CreateMachine => run' = run
        BY DEF CreateMachine
      <3>7. run'[t] = run[t]
        BY StepKinds, <3>3, <3>4, <3>5, <3>6 DEF Quiet
      <3> QED BY <2>1, <3>1, <3>2, <3>7
    <2> QED BY <2>1, <2>3, <2>4
  <1> QED BY <1>1, <1>2

LEMMA ModesKept == IInv /\ [Next]_vars => ModesAreKnown'
  <1> SUFFICES ASSUME IInv, [Next]_vars, NEW q \in Requests,
                      pc'[q] = "open", kind'[q] # "rerun"
               PROVE  loaded'[q].mode = mode' \/ q \in outdated'
    BY DEF ModesAreKnown
  <1> TypeOK
    BY DEF IInv
  <1>1. CASE pc[q] = "idle"
    <2>1. ~LoadRun(q)
      BY DEF LoadRun, Opens, TypeOK, Kinds, Async
    <2>2. LoadMachine(q)
      BY <1>1, <2>1, Opening
    <2> QED BY <2>2 DEF LoadMachine, Opens, TypeOK, machine
  <1>2. CASE pc[q] # "idle"
    <2>1. pc[q] = "open" /\ loaded'[q] = loaded[q] /\ kind[q] # "rerun"
      BY <1>2, RequestsAreFixed
    <2>2. loaded[q].mode = mode \/ q \in outdated
      BY <2>1 DEF IInv, ModesAreKnown
    <2>3. ~CreateMachine
      BY <2>1 DEF CreateMachine, IInv, NothingBeforeTheMachine
    <2>4. ASSUME NEW r \in Requests, Patch(r)
          PROVE  (mode' = mode /\ outdated' = outdated) \/ q \in outdated'
      BY <1>2, <2>4 DEF Patch
    <2>5. ASSUME NEW r \in Requests, Probe(r) \/ RerunModule(r) \/ DeleteMachine(r)
          PROVE  mode' = mode /\ outdated' = outdated
      BY <2>5 DEF Probe, RerunModule, DeleteMachine, machine
    <2>6. ASSUME NEW r \in Requests, ReportStep(r)
          PROVE  mode' = mode /\ outdated' = outdated
      BY <2>6 DEF ReportStep, Reports
    <2> QED BY StepKinds, <2>1, <2>2, <2>3, <2>4, <2>5, <2>6 DEF Quiet
  <1> QED BY <1>1, <1>2

-----------------------------------------------------------------------------
(* The properties.                                                          *)

LEMMA ProfileKept == IInv /\ [Next]_vars => ProfileHasASnapshot'
  <1> SUFFICES ASSUME IInv, [Next]_vars, Exists', profile' # "none"
               PROVE  \E r \in snapshots' : ProfileOf(r)' = profile'
    BY DEF ProfileHasASnapshot
  <1> TypeOK
    BY DEF IInv
  <1>1. ASSUME NEW r \in snapshots
        PROVE  r \in Requests /\ ProfileOf(r)' = ProfileOf(r)
    <2>1. r \in Requests /\ pc[r] # "idle"
      BY DEF IInv, RecordsAreAnswered, TypeOK
    <2> QED BY <2>1, RequestsAreFixed DEF ProfileOf
  <1>2. ASSUME Exists, profile' = profile, snapshots' = snapshots
        PROVE  \E r \in snapshots' : ProfileOf(r)' = profile'
    BY <1>1, <1>2 DEF IInv, ProfileHasASnapshot
  <1>3. ASSUME NEW r \in Requests, Exists, WriteProfile(r),
               pc[r] = "open"
        PROVE  \E q \in snapshots' : ProfileOf(q)' = profile'
    <2>1. r \in snapshots' /\ snapshots \subseteq snapshots'
      BY <1>3 DEF WriteProfile
    <2>2. ProfileOf(r)' = ProfileOf(r)
      BY <1>3, RequestsAreFixed DEF ProfileOf
    <2>3. CASE profile' = profile
      BY <1>1, <1>3, <2>1, <2>3 DEF IInv, ProfileHasASnapshot
    <2>4. CASE profile' = ProfileOf(r)
      BY <2>1, <2>2, <2>4
    <2> QED BY <1>3, <2>3, <2>4 DEF WriteProfile
  <1>4. ~CreateMachine
    BY DEF CreateMachine, IInv, NothingBeforeTheMachine
  <1>5. ASSUME Quiet PROVE Exists
    BY <1>5 DEF Exists, Quiet
  <1>6. ASSUME NEW r \in Requests, Probe(r)
        PROVE  Exists /\ WriteProfile(r) /\ pc[r] = "open"
    BY <1>6 DEF Probe, Commits
  <1>7. ASSUME NEW r \in Requests, ReportStep(r)
        PROVE  Exists /\ pc[r] = "open"
    BY <1>7 DEF ReportStep, Reports
  <1>8. ASSUME NEW r \in Requests, RerunModule(r)
        PROVE  Exists /\ profile' = profile /\ snapshots' = snapshots
    BY <1>8 DEF RerunModule, machine, Exists
  <1>9. ASSUME NEW r \in Requests, Patch(r)
        PROVE  Exists /\ profile' = profile /\ snapshots' = snapshots
    BY <1>9 DEF Patch
  <1>10. \A r \in Requests : ~DeleteMachine(r)
    BY DEF DeleteMachine, Exists
  <1> QED BY StepKinds, <1>2, <1>3, <1>4, <1>5, <1>6, <1>7, <1>8, <1>9, <1>10
          DEF Quiet

LEMMA OutlivesKept == IInv /\ [Next]_vars => NothingOutlivesTheMachine'
  <1> SUFFICES ASSUME IInv, [Next]_vars, status' = "deleted"
               PROVE  snapshots' = {} /\ \A q \in Requests : run'[q].status = "none"
    BY DEF NothingOutlivesTheMachine
  <1> TypeOK
    BY DEF IInv
  <1>1. ASSUME NEW r \in Requests, NEW s \in Reported, Exists, WriteStatus(r, s)
        PROVE  FALSE
    BY <1>1, StatusesAreReported DEF Exists, WriteStatus, TypeOK
  <1>2. CASE \E r \in Requests : DeleteMachine(r)
    BY <1>2 DEF DeleteMachine, Referenced
  <1>3. ~CreateMachine
    BY DEF CreateMachine
  <1>4. \A r \in Requests : ~Probe(r)
    BY <1>1 DEF Probe, Reported
  <1>5. \A r \in Requests : ~ReportStep(r)
    BY <1>1 DEF ReportStep, Reports
  <1>6. \A r \in Requests : ~Patch(r)
    <2> SUFFICES ASSUME NEW r \in Requests, Patch(r) PROVE FALSE
      OBVIOUS
    <2>1. \A s \in PatchStatuses : ~WriteStatus(r, s)
      BY <1>1, StatusesAssumption DEF Patch
    <2>2. status' = status /\ status # "deleted"
      BY <2>1 DEF Patch, Exists
    <2> QED BY <2>2
  <1>7. ASSUME NEW r \in Requests, RerunModule(r) PROVE FALSE
    <2>1. status = "deleted"
      BY <1>7 DEF RerunModule, machine
    <2>2. target[r] \in Requests /\ run[target[r]].status # "none"
      BY <1>7 DEF RerunModule, Commits, IInv, RerunsHoldTheLoop, TypeOK
    <2> QED BY <2>1, <2>2 DEF IInv, NothingOutlivesTheMachine
  <1>8. CASE Quiet
    BY <1>8 DEF Quiet, IInv, NothingOutlivesTheMachine
  <1> QED BY StepKinds, <1>2, <1>3, <1>4, <1>5, <1>6, <1>7, <1>8

LEMMA RerunsKept == IInv /\ [Next]_vars => RerunsAreKept'
  <1> SUFFICES ASSUME IInv, [Next]_vars, NEW q \in Requests,
                      kind'[q] = "rerun", pc'[q] = "ok"
               PROVE  q \in run'[target'[q]].reruns
    BY DEF RerunsAreKept
  <1> TypeOK
    BY DEF IInv
  <1>1. pc[q] # "idle"
    BY Opening DEF LoadMachine, LoadRun, Opens, TypeOK
  <1>2. kind[q] = "rerun" /\ target'[q] = target[q] /\ target[q] \in Requests
    BY <1>1, RequestsAreFixed DEF TypeOK
  <1>3. CASE pc[q] = "ok"
    <2>1. q \in run[target[q]].reruns
      BY <1>2, <1>3 DEF IInv, RerunsAreKept
    <2>2. run[target[q]].status # "none"
      BY <1>1, <1>2 DEF IInv, RerunsHoldTheLoop
    <2> QED BY <1>2, <2>1, <2>2, RunsAreKept
  <1>4. CASE pc[q] # "ok"
    <2>1. ASSUME NEW r \in Requests, NEW k, Commits(r, k), r # q PROVE FALSE
      BY <1>4, <2>1 DEF Commits, Answer, TypeOK
    <2>2. ASSUME NEW k, Commits(q, k) PROVE k = "rerun"
      BY <1>2, <2>2 DEF Commits
    <2>3. ASSUME NEW r \in Requests,
                 LoadMachine(r) \/ LoadRun(r) \/ MachineIsGone(r)
                 \/ RequestFails(r) \/ DeleteRefused(r)
          PROVE  FALSE
      BY <1>4, <2>3 DEF LoadMachine, LoadRun, Opens, MachineIsGone, RequestFails,
                        DeleteRefused, Answer, TypeOK
    <2>4. ~CreateMachine /\ ~UNCHANGED vars
      BY <1>4 DEF CreateMachine, vars
    <2>5. ASSUME NEW r \in Requests,
                 Probe(r) \/ Discover(r) \/ PiWorkflow(r) \/ Scripted(r)
                 \/ Patch(r) \/ DeleteMachine(r)
          PROVE  FALSE
      BY <2>1, <2>2, <2>5 DEF Probe, Discover, PiWorkflow, Scripted,
         RecordScripted, Patch, DeleteMachine
    <2>6. RerunModule(q)
      BY <2>1, <2>3, <2>4, <2>5 DEF Next, RerunModule
    <2>7. run[target[q]] \in Run
      BY <1>2 DEF TypeOK
    <2> DEFINE list == loaded[q].reruns \cup {q}
    <2>8. run'[target[q]] = [run[target[q]] EXCEPT !.status = "succeeded",
                                                   !.reruns = list]
      BY <1>2, <2>6 DEF RerunModule, TypeOK
    <2> QED BY <1>2, <2>7, <2>8 DEF Run
  <1> QED BY <1>3, <1>4

\* What backs a status goes on doing so while no snapshot is deleted.
LEMMA BackingStays ==
  ASSUME IInv, [Next]_vars, snapshots \subseteq snapshots', ~CreateMachine,
         NEW s, Backed(s)
  PROVE  Backed(s)'
  <1> TypeOK
    BY DEF IInv
  <1>1. ASSUME NEW r \in Requests, run[r].status # "none"
        PROVE  /\ kind'[r] = kind[r] /\ dry'[r] = dry[r]
               /\ run'[r].status # "none" /\ run'[r].passed = run[r].passed
    <2>1. pc[r] # "idle"
      BY <1>1, RunsAreKept
    <2> QED BY <1>1, <2>1, RunsAreKept, RequestsAreFixed
  <1>2. ASSUME NEW k, NEW d, NEW passed, Recorded(k, d, passed)
        PROVE  Recorded(k, d, passed)'
    BY <1>1, <1>2 DEF Recorded
  <1>3. ASSUME s = "profiled"
        PROVE  \E r \in snapshots' : kind'[r] = "probe"
    <2>1. PICK r \in snapshots : kind[r] = "probe"
      BY <1>3 DEF Backed
    <2>2. r \in Requests /\ pc[r] # "idle"
      BY DEF IInv, RecordsAreAnswered, TypeOK
    <2> QED BY <2>1, <2>2, RequestsAreFixed
  <1>4. ASSUME NEW v \in Verdicts, NEW r \in Requests, run[r].verdict = v,
               run[r].mode = mode \/ r \in outdated
        PROVE  run'[r].verdict = v /\ (run'[r].mode = mode' \/ r \in outdated')
    <2>1. run[r].status # "none" /\ pc[r] # "idle"
      BY <1>4, RunsAreKept DEF IInv, VerdictsHaveRuns, Verdicts
    <2>2. run'[r].verdict = v /\ run'[r].mode = run[r].mode
      BY <1>4, <2>1, RunsAreKept
    <2>3. ASSUME NEW q \in Requests, Patch(q)
          PROVE  (mode' = mode /\ outdated' = outdated) \/ r \in outdated'
      BY <2>1, <2>3 DEF Patch
    <2>4. ASSUME NEW q \in Requests, Probe(q) \/ RerunModule(q) \/ DeleteMachine(q)
          PROVE  mode' = mode /\ outdated' = outdated
      BY <2>4 DEF Probe, RerunModule, DeleteMachine, machine
    <2>5. ASSUME NEW q \in Requests, ReportStep(q)
          PROVE  mode' = mode /\ outdated' = outdated
      BY <2>5 DEF ReportStep, Reports
    <2> QED BY StepKinds, <1>4, <2>2, <2>3, <2>4, <2>5 DEF Quiet
  <1> QED BY <1>2, <1>3, <1>4 DEF Backed

LEMMA ReportsAreBacked ==
  ASSUME IInv, [Next]_vars, NEW r \in Requests,
         NEW passed \in BOOLEAN, NEW verdict \in Verdicts \cup {"none"},
         NEW s \in Reported,
         Reports(r, passed, verdict, s), Accounts(r, passed, verdict, s)
  PROVE  Backed(s)'
  <1> TypeOK
    BY DEF IInv
  <1>1. /\ kind'[r] = kind[r] /\ dry'[r] = dry[r] /\ dry[r] \in BOOLEAN
        /\ mode' = mode /\ outdated' = outdated
    BY DEF Reports, TypeOK
  <1>2. /\ run'[r].status # "none" /\ run'[r].passed = passed
        /\ run'[r].verdict = verdict /\ run'[r].mode = loaded[r].mode
    BY DEF Reports, NewRun, TypeOK
  <1>3. loaded[r].mode = mode \/ r \in outdated
    BY DEF Reports, IInv, ModesAreKnown
  <1>4. ASSUME NEW v \in Verdicts, NEW u \in Verdicts,
               DiscoveryStatus(v) = DiscoveryStatus(u)
        PROVE  v = u
    BY <1>4 DEF Verdicts, DiscoveryStatus
  <1>5. \A v \in Verdicts : DiscoveryStatus(v) \notin
          {"profiled", "agent_workflow_planned", "agent_workflow_failed",
           "bootstrap_failed", "ready"}
    BY DEF Verdicts, DiscoveryStatus
  <1>6. ASSUME NEW v \in Verdicts, s = DiscoveryStatus(v) PROVE Backed(s)'
    <2>1. verdict = v
      BY <1>4, <1>5, <1>6 DEF Accounts
    <2>2. run'[r].verdict = v /\ (run'[r].mode = mode' \/ r \in outdated')
      BY <1>1, <1>2, <1>3, <2>1
    <2> QED BY <1>4, <1>5, <1>6, <2>2 DEF Backed
  <1>7. ASSUME ~\E v \in Verdicts : s = DiscoveryStatus(v) PROVE Backed(s)'
    <2>1. \/ s = "agent_workflow_planned" /\ kind[r] = "pi" /\ dry[r] /\ passed
          \/ s = "agent_workflow_failed" /\ kind[r] = "pi" /\ ~passed
          \/ s = "bootstrap_failed" /\ kind[r] = "scripted" /\ ~passed
          \/ s = "ready" /\ kind[r] = "pi" /\ ~dry[r] /\ passed
          \/ s = "ready" /\ kind[r] = "scripted" /\ passed
      BY <1>7 DEF Accounts
    <2> QED BY <1>1, <1>2, <1>7, <2>1 DEF Backed, Recorded
  <1> QED BY <1>6, <1>7

LEMMA VerdictsKept == IInv /\ [Next]_vars => VerdictsHaveRuns'
  <1> SUFFICES ASSUME IInv, [Next]_vars, NEW q \in Requests,
                      run'[q].verdict # "none"
               PROVE  run'[q].status # "none"
    BY DEF VerdictsHaveRuns
  <1> TypeOK
    BY DEF IInv
  <1>1. CASE run[q].status # "none"
    BY <1>1, RunsAreKept
  <1>2. CASE run[q].status = "none"
    <2>1. run[q].verdict = "none"
      BY <1>2 DEF IInv, VerdictsHaveRuns
    <2>2. ASSUME NEW r \in Requests, ReportStep(r)
          PROVE  run'[q] = run[q] \/ run'[q].status # "none"
      BY <2>2 DEF ReportStep, Reports, NewRun, TypeOK
    <2>3. ASSUME NEW r \in Requests, RerunModule(r) PROVE run'[q] = run[q]
      <3>1. target[r] # q
        BY <1>2, <2>3 DEF RerunModule, Commits, IInv, RerunsHoldTheLoop
      <3> QED BY <2>3, <3>1 DEF RerunModule, TypeOK
    <2>4. ASSUME NEW r \in Requests, Probe(r) \/ Patch(r) \/ DeleteMachine(r)
          PROVE  run' = run
      BY <2>4 DEF Probe, Patch, DeleteMachine
    <2>5. CreateMachine => run' = run
      BY DEF CreateMachine
    <2> QED BY StepKinds, <2>1, <2>2, <2>3, <2>4, <2>5 DEF Quiet
  <1> QED BY <1>1, <1>2

LEMMA StatusKept == IInv /\ [Next]_vars => StatusIsRecorded'
  <1> SUFFICES ASSUME IInv, [Next]_vars, status' \notin patched'
               PROVE  Backed(status)'
    BY DEF StatusIsRecorded
  <1> TypeOK
    BY DEF IInv
  <1> PICK s : s = status'
    OBVIOUS
  <1> SUFFICES Backed(s)'
    BY DEF Backed
  <1>1. ASSUME status' = status, patched \subseteq patched',
               snapshots \subseteq snapshots', ~CreateMachine
        PROVE  Backed(s)'
    <2>1. Backed(s)
      BY <1>1 DEF IInv, StatusIsRecorded, Backed
    <2> QED BY <1>1, <2>1, BackingStays
  <1>2. ASSUME s \in {"created", "deleted"} PROVE Backed(s)'
    BY <1>2 DEF Backed, Verdicts, DiscoveryStatus
  <1>3. CASE CreateMachine
    BY <1>2, <1>3 DEF CreateMachine
  <1>4. CASE ~CreateMachine /\ Quiet
    BY <1>1, <1>4 DEF Quiet
  <1>5. ASSUME NEW r \in Requests, Probe(r) PROVE Backed(s)'
    <2>1. /\ snapshots' = snapshots \cup {r} /\ patched' = patched
          /\ ~CreateMachine
      BY <1>5 DEF Probe, WriteProfile, CreateMachine, Exists
    <2>2. CASE status' = status
      BY <1>1, <2>1, <2>2
    <2>3. CASE s = "profiled"
      <3>1. kind'[r] = "probe"
        BY <1>5, RequestsAreFixed DEF Probe, Commits
      <3> QED BY <2>1, <2>3, <3>1 DEF Backed, Verdicts, DiscoveryStatus
    <2> QED BY <1>5, <2>2, <2>3 DEF Probe, WriteStatus
  <1>6. ASSUME NEW r \in Requests, ReportStep(r),
               WriteProfile(r) \/ snapshots' = snapshots
        PROVE  Backed(s)'
    <2>1. PICK passed \in BOOLEAN, verdict \in Verdicts \cup {"none"},
               new \in Reported :
            Reports(r, passed, verdict, new) /\ Accounts(r, passed, verdict, new)
      BY <1>6 DEF ReportStep
    <2>2. /\ snapshots \subseteq snapshots' /\ patched' = patched
          /\ ~CreateMachine
      BY <1>6, <2>1 DEF Reports, WriteProfile, CreateMachine, Exists
    <2>3. CASE status' = status
      BY <1>1, <2>2, <2>3
    <2>4. CASE s = new
      BY <2>1, <2>4, ReportsAreBacked
    <2> QED BY <2>1, <2>3, <2>4 DEF Reports, WriteStatus
  <1>7. ASSUME ~CreateMachine, NEW r \in Requests, RerunModule(r) PROVE Backed(s)'
    BY <1>1, <1>7 DEF RerunModule, machine
  <1>8. ASSUME ~CreateMachine, NEW r \in Requests, Patch(r) PROVE Backed(s)'
    <2>1. snapshots' = snapshots /\ patched \subseteq patched'
      BY <1>8 DEF Patch
    <2>2. status' = status
      BY <1>8 DEF Patch, WriteStatus
    <2> QED BY <1>1, <1>8, <2>1, <2>2
  <1>9. ASSUME NEW r \in Requests, DeleteMachine(r) PROVE Backed(s)'
    BY <1>2, <1>9 DEF DeleteMachine
  <1> QED BY StepKinds, <1>3, <1>4, <1>5, <1>6, <1>7, <1>8, <1>9

-----------------------------------------------------------------------------
\* The inductive invariant of the machine environment (api/v1.py, the handlers
\* that report on a machine), for any requests.
THEOREM EnvironmentInvariance == Spec => []IInv
  <1>1. Init => IInv
    BY InitEnvironment
  <1>2. IInv /\ [Next]_vars => IInv'
    <2> SUFFICES ASSUME IInv, [Next]_vars PROVE IInv'
      OBVIOUS
    <2>1. TypeOK'
      BY TypeKept DEF IInv
    <2> QED BY <2>1, NothingBeforeKept, AnsweredKept, VerdictsKept, RerunsHoldKept,
               ModesKept, ProfileKept, OutlivesKept, StatusKept, RerunsKept
            DEF IInv
  <1> QED BY <1>1, <1>2, PTL DEF Spec

\* The profile on display is one that a committed snapshot holds (v1.py:994).
THEOREM ProfilesHaveSnapshots == Spec => []ProfileHasASnapshot
  <1> IInv => ProfileHasASnapshot
    BY DEF IInv
  <1> QED BY EnvironmentInvariance, PTL

\* DELETE leaves no snapshot and no run, whatever overlaps it (v1.py:970).
THEOREM DeletionIsComplete == Spec => []NothingOutlivesTheMachine
  <1> IInv => NothingOutlivesTheMachine
    BY DEF IInv
  <1> QED BY EnvironmentInvariance, PTL

\* A status that no PATCH has written is backed by a record of the same.
THEOREM StatusesAreRecorded == Spec => []StatusIsRecorded
  <1> IInv => StatusIsRecorded
    BY DEF IInv
  <1> QED BY EnvironmentInvariance, PTL

\* Reruns of modules of one run keep each other's results (v1.py:1159).
THEOREM RerunsStay == Spec => []RerunsAreKept
  <1> IInv => RerunsAreKept
    BY DEF IInv
  <1> QED BY EnvironmentInvariance, PTL
-----------------------------------------------------------------------------
(* The software on its host: MachineBootstrap.                              *)
(*                                                                          *)
(* Each action of MachineBootstrap conjoins one of MachineEnvironment or leaves  *)
(* its variables alone, so that what is proved of the latter holds here.      *)

LEMMA BootstrapStepIsAStep == [BNext]_bvars => [Next]_vars
  <1>1. ASSUME NEW r \in Requests, RecordBootstrap(r) PROVE Scripted(r)
    BY <1>1 DEF RecordBootstrap, Bootstrapping, OverSsh, Scripted
  <1> QED
    BY <1>1 DEF BNext, bvars, ApplyGoesOn, StartBootstrap, Apply, Verify,
                Elsewhere, Next

LEMMA EnvironmentHolds == BSpec => []IInv
  <1>1. BInit => Init
    BY DEF BInit
  <1>2. BSpec => Spec
    BY <1>1, BootstrapStepIsAStep, PTL DEF BSpec, Spec
  <1> QED BY <1>2, EnvironmentInvariance, PTL

-----------------------------------------------------------------------------
(* The machine itself.                                                      *)

LEMMA BootFacts ==
  ASSUME NEW b \in Boot
  PROVE  /\ b.plan \in Seq(Modules)
         /\ \A i \in DOMAIN b.plan : b.plan[i] \in Modules
         /\ DOMAIN b.plan = 1 .. Len(b.plan)
         /\ Len(b.plan) \in Nat /\ b.step \in Nat \ {0}
  <1>1. b.plan \in Seq(Modules)
    <2>1. b.plan \in Plans \cup {<<>>}
      BY DEF Boot
    <2>2. Plans \subseteq Seq(Modules) /\ <<>> \in Seq(Modules)
      BY PlansAssumption
    <2> QED BY <2>1, <2>2
  <1>2. b.step \in Nat \ {0}
    BY DEF Boot
  <1> QED BY <1>1, <1>2

LEMMA PlansAreSequences ==
  ASSUME HostType, NEW r \in Requests
  PROVE  /\ boot[r].plan \in Seq(Modules)
         /\ \A i \in DOMAIN boot[r].plan : boot[r].plan[i] \in Modules
         /\ DOMAIN boot[r].plan = 1 .. Len(boot[r].plan)
         /\ Len(boot[r].plan) \in Nat /\ boot[r].step \in Nat \ {0}
  BY BootFacts DEF HostType

\* Max of the exit codes of two commands.
LEMMA MaxOfTwo ==
  ASSUME NEW a \in ExitCodes, NEW b \in ExitCodes
  PROVE  /\ Max({a, b}) \in ExitCodes
         /\ Max({a, b}) >= a /\ Max({a, b}) >= b
  <1>1. \E x \in {a, b} : \A y \in {a, b} : x >= y
    BY DEF ExitCodes
  <1>2. /\ Max({a, b}) \in {a, b}
        /\ \A y \in {a, b} : Max({a, b}) >= y
    BY <1>1 DEF Max
  <1> QED BY <1>2

\* What StartBootstrap, Apply, ApplyGoesOn and Verify leave alone.
LEMMA HostSteps ==
  ASSUME [BNext]_bvars
  PROVE  \/ \E r \in Requests : StartBootstrap(r) \/ Apply(r) \/ Verify(r)
         \/ \E m \in Modules : ApplyGoesOn(m)
         \/ UNCHANGED <<boot, host>>
  BY DEF BNext, bvars, RecordBootstrap, Elsewhere

\* What Apply and Verify make of a bootstrap's record.
Applied(r, new) ==
  /\ boot' = [boot EXCEPT ![r] = new]
  /\ new.plan = boot[r].plan /\ new.step = boot[r].step
  /\ new.phase = "verify" /\ new.failed = boot[r].failed
  /\ boot[r].killed => new.killed
  /\ boot[r].missed => new.missed
  /\ Current(r) = "B5" /\ daemon' # "nvidia" => new.missed

LEMMA ApplyApplies ==
  ASSUME HostType, NEW r \in Requests, Apply(r)
  PROVE  /\ \E new \in Boot : Applied(r, new)
         /\ Current(r) \in Modules
         /\ running' \subseteq Modules
  <1> DEFINE m == Current(r)
  <1>1. m \in Modules
    BY PlansAreSequences DEF Apply, StepsLeft, Current
  <1>2. PICK detect \in ExitCodes, apply \in ExitCodes, late \in BOOLEAN :
          /\ running' = IF late THEN running \cup {m} ELSE running
          /\ boot' = [boot EXCEPT
               ![r].phase = "verify",
               ![r].worst = Max({detect, apply}),
               ![r].killed = @ \/ -1 \in {detect, apply},
               ![r].missed = @ \/ (m = "B5" /\ daemon' # "nvidia")]
    BY DEF Apply
  <1> DEFINE kill == boot[r].killed \/ -1 \in {detect, apply}
             miss == boot[r].missed \/ (m = "B5" /\ daemon' # "nvidia")
             worst == Max({detect, apply})
             new == [boot[r] EXCEPT !.phase = "verify", !.worst = worst,
                                    !.killed = kill, !.missed = miss]
  <1>3. boot[r] \in Boot /\ worst \in ExitCodes
    BY MaxOfTwo DEF HostType
  <1>4. kill \in BOOLEAN /\ miss \in BOOLEAN
    OBVIOUS
  <1>5. boot' = [boot EXCEPT ![r] = new]
    BY <1>2, <1>3 DEF HostType, Boot
  <1>6. (boot[r].killed => kill) /\ (boot[r].missed => miss)
        /\ (m = "B5" /\ daemon' # "nvidia" => miss)
    OBVIOUS
  <1> HIDE DEF kill, miss, worst
  <1>7. new \in Boot /\ Applied(r, new)
    BY <1>3, <1>4, <1>5, <1>6 DEF Boot, Applied
  <1>8. running' \subseteq Modules
    BY <1>1, <1>2 DEF HostType
  <1> QED BY <1>1, <1>7, <1>8

Checked(r, new) ==
  /\ boot' = [boot EXCEPT ![r] = new]
  /\ new.plan = boot[r].plan /\ new.step = boot[r].step + 1
  /\ new.phase = "apply" /\ new.missed = boot[r].missed
  /\ boot[r].killed => new.killed
  /\ boot[r].failed => new.failed
  /\ ~new.failed /\ ~new.killed => Verified(Current(r))

LEMMA VerifyChecks ==
  ASSUME HostType, NEW r \in Requests, Verify(r)
  PROVE  \E new \in Boot : Checked(r, new)
  <1>1. PICK verify \in ExitCodes :
          /\ verify = 0 => Verified(Current(r))
          /\ boot' = [boot EXCEPT
               ![r].step = NextStep(r, StepExitOf(r, verify)),
               ![r].phase = "apply",
               ![r].worst = 0,
               ![r].failed = @ \/ StepExitOf(r, verify) # 0,
               ![r].killed = @ \/ verify = -1]
    BY DEF Verify
  <1> DEFINE fail == boot[r].failed \/ StepExitOf(r, verify) # 0
             kill == boot[r].killed \/ verify = -1
             new == [boot[r] EXCEPT !.step = boot[r].step + 1, !.phase = "apply",
                                    !.worst = 0, !.failed = fail, !.killed = kill]
  <1>2. boot[r] \in Boot /\ boot[r].step \in Nat /\ boot[r].worst \in ExitCodes
    BY DEF HostType, Boot
  <1>3. kill \in BOOLEAN /\ fail \in BOOLEAN /\ 0 \in ExitCodes
    BY DEF ExitCodes
  <1>4. boot' = [boot EXCEPT ![r] = new]
    BY <1>1, <1>2 DEF HostType, Boot, NextStep
  <1>5. ~fail /\ ~kill => Verified(Current(r))
    <2> SUFFICES ASSUME ~fail, ~kill PROVE verify = 0
      BY <1>1
    <2>1. StepExitOf(r, verify) = 0
      OBVIOUS
    <2>2. StepExitOf(r, verify) >= verify
      BY <1>2, MaxOfTwo DEF StepExitOf
    <2>3. verify # -1
      OBVIOUS
    <2> QED BY <2>1, <2>2, <2>3 DEF ExitCodes
  <1>6. (boot[r].killed => kill) /\ (boot[r].failed => fail)
    OBVIOUS
  <1> HIDE DEF fail, kill
  <1>7. new \in Boot
    <2>1. boot[r].step + 1 \in Nat \ {0}
      BY <1>2
    <2> QED BY <1>2, <1>3, <2>1 DEF Boot
  <1>8. /\ new.plan = boot[r].plan /\ new.step = boot[r].step + 1
        /\ new.phase = "apply" /\ new.missed = boot[r].missed
        /\ new.failed = fail /\ new.killed = kill
    BY <1>2, <1>3 DEF Boot
  <1> HIDE DEF new
  <1>9. Checked(r, new)
    BY <1>4, <1>5, <1>6, <1>8 DEF Checked
  <1> QED BY <1>7, <1>9

LEMMA HostTypeKept == HostType /\ [BNext]_bvars => HostType'
  <1> SUFFICES ASSUME HostType, [BNext]_bvars PROVE HostType'
    OBVIOUS
  <1>1. ASSUME NEW r \in Requests, StartBootstrap(r) PROVE HostType'
    <2>1. PICK p \in Plans : boot' = [boot EXCEPT ![r].plan = p]
      BY <1>1 DEF StartBootstrap
    <2>2. [boot[r] EXCEPT !.plan = p] \in Boot
      BY DEF HostType, Boot
    <2>3. boot' = [boot EXCEPT ![r] = [boot[r] EXCEPT !.plan = p]]
      BY <2>1
    <2> QED BY <1>1, <2>2, <2>3 DEF StartBootstrap, HostType, host
  <1>2. ASSUME NEW r \in Requests, Apply(r) PROVE HostType'
    <2>1. boot' \in [Requests -> Boot] /\ running' \subseteq Modules
      BY <1>2, ApplyApplies DEF Applied, HostType
    <2>2. /\ present' \subseteq Modules /\ daemon' \in {"none", "basic", "nvidia"}
          /\ writer' \in Requests \cup {"nobody", "late"}
      BY <1>2, ApplyApplies DEF Apply, Files, Config, Written, HostType
    <2> QED BY <2>1, <2>2 DEF HostType
  <1>3. ASSUME NEW r \in Requests, Verify(r) PROVE HostType'
    <2>1. boot' \in [Requests -> Boot]
      BY <1>3, VerifyChecks DEF Checked, HostType
    <2>2. UNCHANGED host
      BY <1>3 DEF Verify
    <2> QED BY <2>1, <2>2 DEF HostType, host
  <1>4. ASSUME NEW m \in Modules, ApplyGoesOn(m) PROVE HostType'
    BY <1>4 DEF ApplyGoesOn, Files, Config, Written, HostType
  <1>5. CASE UNCHANGED <<boot, host>>
    BY <1>5 DEF host, HostType
  <1> QED BY HostSteps, <1>1, <1>2, <1>3, <1>4, <1>5

LEMMA HostTypeInit == BInit => HostType
  BY DEF BInit, HostType, Boot, NoBoot, ExitCodes

\* Every variable keeps its type, those of the requests and those of the
\* machine.
THEOREM BootstrapTypeCorrect == BSpec => []BTypeOK
  <1>1. BSpec => []HostType
    BY HostTypeInit, HostTypeKept, PTL DEF BSpec
  <1>2. IInv /\ HostType => BTypeOK
    BY DEF IInv, BTypeOK
  <1> QED BY <1>1, <1>2, EnvironmentHolds, PTL

\* What verify has seen stays: files are not removed, daemon.json is replaced.
LEMMA VerifiedStays ==
  ASSUME HostType, [BNext]_bvars, NEW m \in Modules, Verified(m)
  PROVE  Verified(m)'
  <1>1. ASSUME NEW n, Files(n), Config(n)
        PROVE  present \subseteq present' /\ (daemon # "none" => daemon' # "none")
    BY <1>1 DEF Files, Config, Written
  <1>2. present \subseteq present' /\ (daemon # "none" => daemon' # "none")
    BY HostSteps, <1>1 DEF StartBootstrap, Apply, Verify, ApplyGoesOn, host
  <1> QED BY <1>2 DEF Verified

-----------------------------------------------------------------------------
(* A bootstrap that passed.                                                 *)

BootInv ==
    /\ HostType
    /\ \A r \in Requests :
         \* A record is made after the last module.
         /\ pc[r] = "idle" => boot[r] = NoBoot
         /\ pc[r] = "ok" /\ OverSsh(r) => ~StepsLeft(r)
         /\ run[r].passed => pc[r] = "ok"
         /\ run[r].passed /\ OverSsh(r) => ~boot[r].failed
         \* What a bootstrap has verified still holds.
         /\ ~boot[r].failed /\ ~boot[r].killed =>
              \A i \in DOMAIN boot[r].plan :
                 i < boot[r].step => Verified(boot[r].plan[i])

LEMMA InitBoot == BInit => BootInv
  <1> SUFFICES ASSUME BInit PROVE BootInv
    OBVIOUS
  <1>1. HostType
    BY HostTypeInit
  <1> QED BY <1>1 DEF BInit, Init, BootInv, NoBoot, NoRun

LEMMA VerifiedKept ==
  ASSUME IInv, BootInv, [BNext]_bvars, NEW q \in Requests,
         ~boot'[q].failed, ~boot'[q].killed,
         NEW i \in DOMAIN boot'[q].plan, i < boot'[q].step,
         NEW m, m = boot'[q].plan[i]
  PROVE  Verified(m)'
  <1> HostType /\ HostType'
    BY HostTypeKept DEF BootInv
  <1>1. ASSUME boot'[q].plan = boot[q].plan, i < boot[q].step,
               ~boot[q].failed, ~boot[q].killed
        PROVE  Verified(m)'
    <2>1. Verified(m) /\ m \in Modules
      BY <1>1, PlansAreSequences DEF BootInv
    <2> QED BY <2>1, VerifiedStays
  <1>2. ASSUME NEW r \in Requests, StartBootstrap(r)
        PROVE  Verified(m)'
    <2>1. CASE q = r
      <3>1. boot[q] = NoBoot
        BY <1>2, <2>1 DEF StartBootstrap, LoadMachine, Opens, BootInv
      <3>2. boot'[q].step = 1
        BY <1>2, <2>1, <3>1 DEF StartBootstrap, HostType, NoBoot
      <3>3. i \in Nat \ {0}
        BY BootFacts DEF HostType
      <3> QED BY <3>2, <3>3
    <2>2. CASE q # r
      BY <1>1, <1>2, <2>2 DEF StartBootstrap, HostType
    <2> QED BY <2>1, <2>2
  <1>3. ASSUME NEW r \in Requests, Apply(r)
        PROVE  Verified(m)'
    <2>1. PICK new \in Boot : Applied(r, new)
      BY <1>3, ApplyApplies
    <2>2. boot'[q] = IF q = r THEN new ELSE boot[q]
      BY <2>1 DEF Applied, HostType
    <2> QED BY <1>1, <2>1, <2>2 DEF Applied
  <1>4. ASSUME NEW r \in Requests, Verify(r)
        PROVE  Verified(m)'
    <2>1. PICK new \in Boot : Checked(r, new)
      BY <1>4, VerifyChecks
    <2>2. boot'[q] = IF q = r THEN new ELSE boot[q]
      BY <2>1 DEF Checked, HostType
    <2>3. CASE q = r /\ i = boot[q].step
      <3>1. Verified(Current(q))
        BY <2>1, <2>2, <2>3 DEF Checked
      <3>2. m = Current(q)
        BY <2>1, <2>2, <2>3 DEF Checked, Current
      <3>3. present' = present /\ daemon' = daemon
        BY <1>4 DEF Verify, host
      <3> QED BY <3>1, <3>2, <3>3 DEF Verified
    <2>4. CASE q = r /\ i # boot[q].step
      <3>1. /\ ~boot[q].failed /\ ~boot[q].killed
            /\ boot'[q].plan = boot[q].plan /\ boot'[q].step = boot[q].step + 1
        BY <2>1, <2>2, <2>4 DEF Checked
      <3>2. i \in Nat /\ boot[q].step \in Nat
        BY <3>1, PlansAreSequences
      <3> QED BY <1>1, <2>4, <3>1, <3>2
    <2>5. CASE q # r
      BY <1>1, <2>2, <2>5
    <2> QED BY <2>3, <2>4, <2>5
  <1>5. ASSUME UNCHANGED boot PROVE Verified(m)'
    BY <1>1, <1>5
  <1> QED BY HostSteps, <1>2, <1>3, <1>4, <1>5 DEF ApplyGoesOn

\* Only StartBootstrap, Apply and Verify write a bootstrap's record, and they
\* leave the plan of any bootstrap that has been opened.
LEMMA StepsOfOthers ==
  ASSUME HostType, [BNext]_bvars, NEW q \in Requests
  PROVE  \/ StartBootstrap(q)
         \/ Apply(q) \/ Verify(q)
         \/ boot'[q] = boot[q]
  <1>1. ASSUME NEW r \in Requests, StartBootstrap(r), r # q PROVE boot'[q] = boot[q]
    BY <1>1 DEF StartBootstrap, HostType
  <1>2. ASSUME NEW r \in Requests, Apply(r), r # q PROVE boot'[q] = boot[q]
    BY <1>2, ApplyApplies DEF Applied, HostType
  <1>3. ASSUME NEW r \in Requests, Verify(r), r # q PROVE boot'[q] = boot[q]
    BY <1>3, VerifyChecks DEF Checked, HostType
  <1> QED BY HostSteps, <1>1, <1>2, <1>3 DEF ApplyGoesOn

\* How a bootstrap over SSH is answered.
LEMMA AnsweredBootstraps ==
  ASSUME TypeOK, [BNext]_bvars, NEW q \in Requests,
         pc[q] # "ok", pc'[q] = "ok", OverSsh(q)'
  PROVE  ~StepsLeft(q) /\ RecordBootstrap(q)
  <1>1. pc[q] = "open" /\ OverSsh(q)
    <2>1. pc[q] # "idle"
      BY BootstrapStepIsAStep, Opening DEF LoadMachine, LoadRun, Opens, TypeOK
    <2>2. kind'[q] = kind[q] /\ dry'[q] = dry[q]
      BY <2>1, BootstrapStepIsAStep, RequestsAreFixed
    <2>3. pc[q] # "error"
      <3> SUFFICES ASSUME pc[q] = "error" PROVE FALSE
        OBVIOUS
      <3>1. ASSUME NEW r \in Requests, NEW a, pc[r] = "open", Answer(r, a)
            PROVE  FALSE
        BY <3>1 DEF Answer, TypeOK
      <3>2. ASSUME NEW r \in Requests, LoadMachine(r) \/ LoadRun(r) PROVE FALSE
        BY <3>2 DEF LoadMachine, LoadRun, Opens, TypeOK
      <3>3. ASSUME NEW r \in Requests, NEW k, Commits(r, k) PROVE FALSE
        BY <3>1, <3>3 DEF Commits
      <3>4. ASSUME NEW r \in Requests,
                   MachineIsGone(r) \/ RequestFails(r) \/ DeleteRefused(r)
            PROVE  FALSE
        BY <3>1, <3>4 DEF MachineIsGone, RequestFails, DeleteRefused
      <3>5. ASSUME NEW r \in Requests,
                   Probe(r) \/ Discover(r) \/ PiWorkflow(r) \/ Scripted(r)
                   \/ RerunModule(r) \/ Patch(r) \/ DeleteMachine(r)
            PROVE  FALSE
        BY <3>3, <3>5 DEF Probe, Discover, PiWorkflow, Scripted, RecordScripted,
                          RerunModule, Patch, DeleteMachine
      <3> QED BY BootstrapStepIsAStep, <3>2, <3>4, <3>5
              DEF Next, CreateMachine, vars
    <2> QED BY <2>1, <2>2, <2>3 DEF OverSsh, TypeOK
  <1>2. ASSUME NEW r \in Requests, NEW k, Commits(r, k) PROVE r = q
    BY <1>1, <1>2 DEF Commits, Answer, TypeOK
  <1>3. ASSUME NEW k, Commits(q, k) PROVE k = "scripted"
    BY <1>1, <1>3 DEF Commits, OverSsh
  <1>4. ASSUME NEW r \in Requests, LoadMachine(r) \/ LoadRun(r)
                 \/ MachineIsGone(r) \/ RequestFails(r) \/ DeleteRefused(r)
        PROVE  FALSE
    BY <1>1, <1>4 DEF LoadMachine, LoadRun, Opens, MachineIsGone, RequestFails,
                      DeleteRefused, Answer, TypeOK
  <1>5. ASSUME NEW r \in Requests, Elsewhere(r) PROVE FALSE
    <2>1. \/ Probe(r) \/ Discover(r) \/ PiWorkflow(r)
          \/ (dry[r] /\ Scripted(r))
          \/ RerunModule(r) \/ Patch(r) \/ DeleteMachine(r)
      BY <1>4, <1>5 DEF Elsewhere
    <2> QED BY <1>1, <1>2, <1>3, <2>1 DEF Probe, Discover, PiWorkflow, Scripted,
            RecordScripted, RerunModule, Patch, DeleteMachine, OverSsh
  <1>6. ASSUME UNCHANGED pc PROVE FALSE
    BY <1>6
  <1>7. PICK r \in Requests : RecordBootstrap(r)
    BY <1>4, <1>5, <1>6 DEF BNext, bvars, vars, CreateMachine, ApplyGoesOn,
       StartBootstrap, Apply, Verify
  <1> QED BY <1>2, <1>7 DEF RecordBootstrap, RecordScripted

LEMMA PassedRuns ==
  ASSUME IInv, [BNext]_bvars, NEW q \in Requests, run'[q].passed, ~run[q].passed
  PROVE  /\ pc[q] = "open" /\ pc'[q] = "ok"
         /\ OverSsh(q)' /\ RecordBootstrap(q) => ~boot[q].failed
  <1> TypeOK /\ [Next]_vars
    BY BootstrapStepIsAStep DEF IInv
  <1>1. ASSUME NEW r \in Requests, ReportStep(r)
        PROVE  q = r /\ pc[r] = "open" /\ pc'[r] = "ok"
    BY <1>1 DEF ReportStep, Reports, NewRun, TypeOK
  <1>2. ASSUME NEW r \in Requests, RerunModule(r) PROVE FALSE
    <2>1. run' = [run EXCEPT ![target[r]].status = "succeeded",
                             ![target[r]].reruns = loaded[r].reruns \cup {r}]
      BY <1>2 DEF RerunModule
    <2>2. run[q] \in Run
      BY DEF TypeOK
    <2>3. run'[q].passed = run[q].passed
      BY <2>1, <2>2 DEF TypeOK, Run
    <2> QED BY <2>3
  <1>3. ASSUME NEW r \in Requests, Probe(r) \/ Patch(r) \/ DeleteMachine(r)
        PROVE  FALSE
    BY <1>3 DEF Probe, Patch, DeleteMachine
  <1>4. pc[q] = "open" /\ pc'[q] = "ok"
    BY StepKinds, <1>1, <1>2, <1>3 DEF Quiet, CreateMachine
  <1>5. ASSUME RecordBootstrap(q) PROVE ~boot[q].failed
    <2>1. run' = [run EXCEPT ![q] =
              [status |-> IF ~boot[q].failed THEN "succeeded" ELSE "failed",
               passed |-> ~boot[q].failed, verdict |-> "none",
               mode |-> loaded[q].mode, reruns |-> {}]]
      BY <1>5 DEF RecordBootstrap, RecordScripted, NewRun
    <2> QED BY <2>1 DEF TypeOK
  <1> QED BY <1>4, <1>5

LEMMA BootKept == IInv /\ BootInv /\ [BNext]_bvars => BootInv'
  <1> SUFFICES ASSUME IInv, BootInv, [BNext]_bvars PROVE BootInv'
    OBVIOUS
  <1> TypeOK /\ TypeOK' /\ [Next]_vars /\ HostType /\ HostType'
    BY BootstrapStepIsAStep, TypeKept, HostTypeKept DEF IInv, BootInv
  <1> SUFFICES ASSUME NEW q \in Requests
               PROVE  /\ pc'[q] = "idle" => boot'[q] = NoBoot
                      /\ pc'[q] = "ok" /\ OverSsh(q)' => ~StepsLeft(q)'
                      /\ run'[q].passed => pc'[q] = "ok"
                      /\ run'[q].passed /\ OverSsh(q)' => ~boot'[q].failed
                      /\ ~boot'[q].failed /\ ~boot'[q].killed =>
                           \A i \in DOMAIN boot'[q].plan :
                              i < boot'[q].step => Verified(boot[q].plan[i])'
    BY DEF BootInv
  <1>1. ~boot'[q].failed /\ ~boot'[q].killed =>
          \A i \in DOMAIN boot'[q].plan :
             i < boot'[q].step => Verified(boot[q].plan[i])'
    <2> SUFFICES ASSUME ~boot'[q].failed, ~boot'[q].killed,
                        NEW i \in DOMAIN boot'[q].plan, i < boot'[q].step
                 PROVE  Verified(boot[q].plan[i])'
      OBVIOUS
    <2> PICK m : m = boot'[q].plan[i]
      OBVIOUS
    <2>1. Verified(m)'
      BY VerifiedKept
    <2> QED BY <2>1 DEF Verified
  <1>3. ASSUME pc[q] # "open", pc'[q] # "open" \/ pc[q] # "idle"
        PROVE  boot'[q] = boot[q]
    BY <1>3, StepsOfOthers DEF StartBootstrap, LoadMachine, Opens, TypeOK,
       Apply, Verify, Bootstrapping
  <1>4. pc'[q] = "idle" => boot'[q] = NoBoot
    <2>1. pc'[q] = "idle" => pc[q] = "idle"
      BY RequestsAreFixed
    <2> QED BY <1>3, <2>1 DEF BootInv
  <1>5. ASSUME run'[q].passed PROVE pc'[q] = "ok"
    BY <1>5, PassedRuns, RequestsAreFixed DEF BootInv
  <1>6. ASSUME pc'[q] = "ok", OverSsh(q)'
        PROVE  ~StepsLeft(q)' /\ (run'[q].passed => ~boot'[q].failed)
    <2>1. CASE pc[q] = "ok"
      <3>1. boot'[q] = boot[q] /\ OverSsh(q)
        BY <1>3, <1>6, <2>1, RequestsAreFixed DEF OverSsh
      <3>2. run'[q].passed => run[q].passed
        BY <2>1, PassedRuns
      <3> QED BY <2>1, <3>1, <3>2 DEF BootInv, StepsLeft
    <2>2. CASE pc[q] # "ok"
      <3>1. ~StepsLeft(q) /\ RecordBootstrap(q)
        BY <1>6, <2>2, AnsweredBootstraps
      <3>2. boot' = boot
        BY <3>1 DEF RecordBootstrap
      <3>3. run'[q].passed => ~boot[q].failed
        BY <1>6, <2>2, <3>1, PassedRuns DEF BootInv
      <3> QED BY <3>1, <3>2, <3>3 DEF StepsLeft
    <2> QED BY <2>1, <2>2
  <1> QED BY <1>1, <1>4, <1>5, <1>6

\* A bootstrap recorded as passed (v1.py:1107-1126), none of whose commands was
\* killed, has left what its modules verify (steps.py), for good.
THEOREM PassedBootstrapsHold == BSpec => []PassedBootstrapHolds
  <1>1. IInv /\ BootInv => PassedBootstrapHolds
    <2> SUFFICES ASSUME IInv, BootInv, NEW r \in Requests,
                        run[r].passed, OverSsh(r), ~boot[r].killed,
                        NEW m \in Range(boot[r].plan)
                 PROVE  Verified(m)
      BY DEF PassedBootstrapHolds
    <2>1. ~boot[r].failed /\ ~StepsLeft(r)
      BY DEF BootInv
    <2>2. PICK i \in DOMAIN boot[r].plan : m = boot[r].plan[i]
      BY DEF Range
    <2>3. i < boot[r].step
      BY <2>1, PlansAreSequences DEF StepsLeft, BootInv
    <2> QED BY <2>1, <2>2, <2>3 DEF BootInv
  <1> QED BY <1>1, InitBoot, BootKept, EnvironmentHolds, PTL DEF BSpec

-----------------------------------------------------------------------------
(* daemon.json.                                                             *)

\* Module k of the plan has been applied.
WasApplied(r, k) ==
    k < boot[r].step \/ (k = boot[r].step /\ boot[r].phase = "verify")

\* The last writer of a daemon.json without the runtime is a bootstrap that
\* missed a write, or has a B2 after every B5 that it has applied.
WriterInv ==
    daemon = "basic" /\ writer # "late" =>
        /\ writer \in Requests
        /\ pc[writer] # "idle" /\ OverSsh(writer)
        /\ \/ boot[writer].missed
           \/ \A k \in DOMAIN boot[writer].plan :
                WasApplied(writer, k) /\ boot[writer].plan[k] = "B5" =>
                  \E i \in DOMAIN boot[writer].plan :
                    k < i /\ boot[writer].plan[i] = "B2"

LEMMA WriterKept ==
  IInv /\ BootInv /\ WriterInv /\ [BNext]_bvars => WriterInv'
  <1> SUFFICES ASSUME IInv, BootInv, WriterInv, [BNext]_bvars,
                      daemon' = "basic", writer' # "late"
               PROVE  WriterInv'
    BY DEF WriterInv
  <1> TypeOK /\ [Next]_vars /\ HostType /\ HostType'
    BY BootstrapStepIsAStep, HostTypeKept DEF IInv, BootInv
  \* A step that leaves daemon.json and its writer's record.
  <1>1. ASSUME daemon = "basic", writer' = writer,
               boot'[writer] = boot[writer]
        PROVE  WriterInv'
    <2>1. /\ writer \in Requests /\ pc[writer] # "idle" /\ OverSsh(writer)
          /\ pc'[writer] # "idle" /\ kind'[writer] = kind[writer]
          /\ dry'[writer] = dry[writer]
      BY <1>1, RequestsAreFixed DEF WriterInv
    <2> QED BY <1>1, <2>1 DEF WriterInv, OverSsh, WasApplied
  <1>2. ASSUME NEW r \in Requests, StartBootstrap(r) PROVE WriterInv'
    <2>1. daemon' = daemon /\ writer' = writer /\ pc[r] = "idle"
      BY <1>2 DEF StartBootstrap, host, LoadMachine, Opens
    <2>2. writer # r /\ writer \in Requests
      BY <2>1 DEF WriterInv
    <2> QED BY <1>1, <1>2, <2>1, <2>2 DEF StartBootstrap, HostType
  <1>3. ASSUME NEW r \in Requests, Apply(r) PROVE WriterInv'
    <2> DEFINE m == Current(r)
    <2>1. /\ pc[r] = "open" /\ OverSsh(r) /\ StepsLeft(r)
          /\ pc' = pc /\ kind' = kind /\ dry' = dry
          /\ daemon' \in {daemon, Written(m)}
          /\ writer' = IF Written(m) = daemon' /\ m \in {"B2", "B5"}
                       THEN r ELSE writer
      BY <1>3 DEF Apply, Bootstrapping, Config, vars, request
    <2>2. PICK new \in Boot : Applied(r, new)
      BY <1>3, ApplyApplies
    <2>3. /\ boot'[r] = new
          /\ \A q \in Requests \ {r} : boot'[q] = boot[q]
      BY <2>2 DEF Applied, HostType
    <2>4. /\ new.plan = boot[r].plan /\ new.step = boot[r].step
          /\ new.phase = "verify" /\ (boot[r].missed => new.missed)
          /\ m = "B5" => new.missed
      BY <2>2 DEF Applied
    <2>5. /\ boot[r].step \in DOMAIN boot[r].plan
          /\ m = boot[r].plan[boot[r].step]
          /\ DOMAIN boot[r].plan \subseteq Nat
      BY <2>1, PlansAreSequences DEF StepsLeft, Current
    <2>6. CASE m = "B2"
      <3>1. writer' = r
        BY <2>1, <2>6 DEF Written
      <3>2. ASSUME NEW k \in DOMAIN new.plan, WasApplied(r, k)',
                   new.plan[k] = "B5"
            PROVE  \E i \in DOMAIN new.plan : k < i /\ new.plan[i] = "B2"
        <4>1. k # boot[r].step
          BY <2>4, <2>5, <2>6, <3>2
        <4>2. k < boot[r].step
          BY <2>3, <2>4, <3>2, <4>1 DEF WasApplied
        <4> QED BY <2>4, <2>5, <2>6, <4>2
      <3> QED BY <2>1, <2>3, <3>1, <3>2 DEF WriterInv, OverSsh
    <2>7. CASE m = "B5"
      <3>1. writer' = writer /\ daemon = "basic"
        BY <2>1, <2>7 DEF Written
      <3>2. CASE writer = r
        BY <2>1, <2>3, <2>4, <2>7, <3>1, <3>2 DEF WriterInv, OverSsh
      <3>3. CASE writer # r
        BY <1>1, <2>3, <3>1, <3>3 DEF WriterInv
      <3> QED BY <3>2, <3>3
    <2>8. CASE m \notin {"B2", "B5"}
      <3>1. writer' = writer /\ daemon = "basic"
        BY <2>1, <2>8 DEF Written
      <3>2. CASE writer = r
        <4>1. ASSUME NEW k \in DOMAIN new.plan, WasApplied(r, k)',
                     new.plan[k] = "B5"
              PROVE  WasApplied(r, k)
          <5>1. k # boot[r].step
            BY <2>4, <2>5, <2>8, <4>1
          <5> QED BY <2>3, <2>4, <4>1, <5>1 DEF WasApplied
        <4> QED BY <2>1, <2>3, <2>4, <3>1, <3>2, <4>1 DEF WriterInv, OverSsh
      <3>3. CASE writer # r
        BY <1>1, <2>3, <3>1, <3>3 DEF WriterInv
      <3> QED BY <3>2, <3>3
    <2> QED BY <2>6, <2>7, <2>8
  <1>4. ASSUME NEW r \in Requests, Verify(r) PROVE WriterInv'
    <2>1. daemon' = daemon /\ writer' = writer /\ boot[r].phase = "verify"
          /\ pc' = pc /\ kind' = kind /\ dry' = dry
      BY <1>4 DEF Verify, host, vars, request
    <2>2. PICK new \in Boot : Checked(r, new)
      BY <1>4, VerifyChecks
    <2>3. /\ boot'[r] = new
          /\ \A q \in Requests \ {r} : boot'[q] = boot[q]
      BY <2>2 DEF Checked, HostType
    <2>4. /\ new.plan = boot[r].plan /\ new.step = boot[r].step + 1
          /\ new.phase = "apply" /\ new.missed = boot[r].missed
          /\ boot[r].step \in Nat /\ DOMAIN boot[r].plan \subseteq Nat
      BY <2>2, PlansAreSequences DEF Checked
    <2>5. CASE writer = r
      <3>1. ASSUME NEW k \in DOMAIN new.plan, WasApplied(r, k)'
            PROVE  WasApplied(r, k)
        BY <2>1, <2>3, <2>4, <3>1 DEF WasApplied
      <3> QED BY <2>1, <2>3, <2>4, <2>5, <3>1 DEF WriterInv, OverSsh
    <2>6. CASE writer # r
      BY <1>1, <2>1, <2>3, <2>6 DEF WriterInv
    <2> QED BY <2>5, <2>6
  <1>5. ASSUME NEW m \in Modules, ApplyGoesOn(m) PROVE WriterInv'
    BY <1>1, <1>5 DEF ApplyGoesOn
  <1>6. CASE UNCHANGED <<boot, host>>
    BY <1>1, <1>6 DEF host
  <1> QED BY HostSteps, <1>2, <1>3, <1>4, <1>5, <1>6

\* A daemon.json without the NVIDIA runtime (steps.py, B2 and B5) is owed to
\* one bootstrap or to a command that was given up, however many overlap.
THEOREM MissingRuntimesAreExplained == BSpec => []MissingRuntimeIsExplained
  <1>1. BInit => WriterInv
    BY DEF BInit, WriterInv
  <1>2. IInv /\ BootInv /\ WriterInv => MissingRuntimeIsExplained
    <2> SUFFICES ASSUME IInv, BootInv, WriterInv,
                        daemon = "basic", writer # "late",
                        pc[writer] # "error",
                        ~(pc[writer] = "open" /\ StepsLeft(writer)),
                        WillConfigure(writer), ~boot[writer].missed
                 PROVE  FALSE
      BY DEF MissingRuntimeIsExplained
    <2>1. writer \in Requests /\ pc[writer] # "idle" /\ OverSsh(writer)
      BY DEF WriterInv
    <2>2. ~StepsLeft(writer)
      BY <2>1 DEF IInv, TypeOK, BootInv
    <2>3. PICK k \in DOMAIN boot[writer].plan :
            /\ boot[writer].plan[k] = "B5"
            /\ \A i \in DOMAIN boot[writer].plan :
                 boot[writer].plan[i] = "B2" => i < k
      BY DEF WillConfigure
    <2>4. WasApplied(writer, k) /\ DOMAIN boot[writer].plan \subseteq Nat
      BY <2>1, <2>2, PlansAreSequences DEF StepsLeft, WasApplied, BootInv
    <2>5. PICK i \in DOMAIN boot[writer].plan :
            k < i /\ boot[writer].plan[i] = "B2"
      BY <2>3, <2>4 DEF WriterInv
    <2> QED BY <2>3, <2>4, <2>5
  <1>3. IInv /\ BootInv /\ WriterInv /\ [BNext]_bvars => WriterInv'
    BY WriterKept
  <1> QED BY <1>1, <1>2, <1>3, InitBoot, BootKept, EnvironmentHolds, PTL DEF BSpec
=============================================================================
