------------------------- MODULE MachineEnvironment -------------------------
(***************************************************************************)
(* One machine and the requests that report on it (api/v1.py): probe,       *)
(* safe discovery, Pi workflow bootstrap, scripted bootstrap, rerun of a    *)
(* bootstrap module, PATCH and DELETE.  Each request loads its row in a     *)
(* session of its own, works (over SSH or in the Pi process when it is not  *)
(* a dry run), and commits the columns whose value differs from the one it  *)
(* loaded.  No row is locked and no version is compared.                    *)
(*                                                                          *)
(* Async handlers share one event loop: a dry run never suspends, so no     *)
(* other async handler runs inside it.  PATCH and DELETE run in threads.    *)
(* Foreign keys are those of PostgreSQL, the configured database.           *)
(***************************************************************************)
EXTENDS Integers, FiniteSets, FiniteSetsExt

CONSTANTS
    Requests,
    RuntimeModes,   \* those that a client sends
    PatchStatuses   \* statuses that a PATCH writes

ASSUME ModesAssumption ==
    /\ "container" \in RuntimeModes
    /\ RuntimeModes \subseteq {"container", "bare_metal", "both"}

Sync == {"patch", "delete"}
Async == {"probe", "discover", "pi", "scripted", "rerun"}
Kinds == Sync \cup Async

Verdicts == {"ready", "partially_ready", "blocked"}
DiscoveryStatus(v) ==
    CASE v = "ready" -> "discovery_ready"
      [] v = "partially_ready" -> "discovery_partially_ready"
      [] v = "blocked" -> "discovery_blocked"

Reported == {"created", "profiled", "ready", "agent_workflow_planned",
             "agent_workflow_failed", "bootstrap_failed"}
            \cup {DiscoveryStatus(v) : v \in Verdicts}

ASSUME StatusesAssumption == PatchStatuses \subseteq Reported

VARIABLES
    pc,         \* idle, open (row loaded), ok or error (answered)
    kind, dry,  \* what each request asks for
    target,     \* the run that a rerun extends
    loaded,     \* what its session read when it was opened
    status, profile, mode,  \* columns of the machine row
    snapshots,  \* requests that committed a MachineSnapshot
    run,        \* the BootstrapRun row each request committed
    patched,    \* statuses that a PATCH has written
    outdated    \* requests that opened before the mode was last changed

request == <<kind, dry, target, loaded>>
machine == <<status, profile, mode>>
vars == <<pc, request, machine, snapshots, run, patched, outdated>>

\* passed: every recorded step has exit code 0; reruns: the step results that
\* rerun-module has appended.
Run == [status : {"none", "succeeded", "failed"}, passed : BOOLEAN,
        verdict : Verdicts \cup {"none"}, mode : RuntimeModes,
        reruns : SUBSET Requests]

NoRun == [status |-> "none", passed |-> FALSE, verdict |-> "none",
          mode |-> "container", reruns |-> {}]

\* A dry-run profile is the same for every request of its kind.
Profiles == {"none", "fake_probe", "fake_discover"} \cup Requests

ProfileOf(r) == IF ~dry[r] THEN r
                ELSE IF kind[r] = "probe" THEN "fake_probe"
                ELSE "fake_discover"

NothingLoaded == [status |-> "absent", profile |-> "none",
                  mode |-> "container", snapshots |-> {}, reruns |-> {}]

TypeOK ==
    /\ pc \in [Requests -> {"idle", "open", "ok", "error"}]
    /\ kind \in [Requests -> Kinds]
    /\ dry \in [Requests -> BOOLEAN]
    /\ target \in [Requests -> Requests]
    /\ loaded \in [Requests -> [status : Reported \cup {"absent"},
                                profile : Profiles, mode : RuntimeModes,
                                snapshots : SUBSET Requests,
                                reruns : SUBSET Requests]]
    /\ status \in Reported \cup {"absent", "deleted"}
    /\ profile \in Profiles
    /\ snapshots \subseteq Requests
    /\ run \in [Requests -> Run]
    /\ mode \in RuntimeModes
    /\ patched \subseteq PatchStatuses
    /\ outdated \subseteq Requests

Exists == status \notin {"absent", "deleted"}

Init ==
    /\ pc = [r \in Requests |-> "idle"]
    /\ kind = [r \in Requests |-> "patch"]
    /\ dry = [r \in Requests |-> FALSE]
    /\ target = [r \in Requests |-> r]
    /\ loaded = [r \in Requests |-> NothingLoaded]
    /\ status = "absent"
    /\ profile = "none"
    /\ snapshots = {}
    /\ run = [r \in Requests |-> NoRun]
    /\ mode = "container"
    /\ patched = {}
    /\ outdated = {}

-----------------------------------------------------------------------------
\* POST /machines.
CreateMachine ==
    /\ status = "absent"
    /\ status' = "created"
    /\ mode' \in RuntimeModes
    /\ UNCHANGED <<pc, request, profile, snapshots, run, patched, outdated>>

\* A dry run holds the event loop from its load to its commit.
LoopFree(r) ==
    \A o \in Requests \ {r} :
        ~(pc[o] = "open" /\ dry[o] /\ kind[o] \in Async)

Opens(r, k, d) ==
    /\ pc[r] = "idle"
    /\ k \in Async => LoopFree(r)
    /\ pc' = [pc EXCEPT ![r] = "open"]
    /\ kind' = [kind EXCEPT ![r] = k]
    /\ dry' = [dry EXCEPT ![r] = d]
    /\ UNCHANGED <<machine, snapshots, run, patched, outdated>>

\* session.get(Machine, id); DELETE also loads the snapshots it cascades to.
LoadMachine(r) ==
    /\ Exists
    /\ \E k \in Kinds \ {"rerun"}, d \in BOOLEAN :
         /\ k \in Sync => ~d
         /\ Opens(r, k, d)
    /\ loaded' = [loaded EXCEPT ![r] = [status |-> status, profile |-> profile,
                      mode |-> mode, snapshots |-> snapshots, reruns |-> {}]]
    /\ UNCHANGED target

\* session.get(BootstrapRun, id); the machine row is not read.
LoadRun(r) ==
    /\ Opens(r, "rerun", TRUE)
    /\ \E q \in Requests :
         /\ run[q].status # "none"
         /\ target' = [target EXCEPT ![r] = q]
         /\ loaded' = [loaded EXCEPT ![r] =
                         [NothingLoaded EXCEPT !.reruns = run[q].reruns]]

\* The answer; the session is closed and forgets its rows.
Answer(r, answer) ==
    /\ pc' = [pc EXCEPT ![r] = answer]
    /\ loaded' = [loaded EXCEPT ![r] = NothingLoaded]
    /\ UNCHANGED <<kind, dry, target>>

\* The UPDATE of a row that was deleted matches nothing (StaleDataError), and
\* the INSERT of a row that refers to it breaks a foreign key: rolled back.
MachineIsGone(r) ==
    /\ pc[r] = "open"
    /\ kind[r] \in Kinds \ {"rerun"}
    /\ ~Exists
    /\ Answer(r, "error")
    /\ UNCHANGED <<machine, snapshots, run, patched, outdated>>

\* SSH, Pi settings, credential or database failure, or the process stops.
RequestFails(r) ==
    /\ pc[r] = "open"
    /\ Answer(r, "error")
    /\ UNCHANGED <<machine, snapshots, run, patched, outdated>>

Commits(r, k) ==
    /\ pc[r] = "open"
    /\ kind[r] = k
    /\ k \in Async => LoopFree(r)
    /\ Answer(r, "ok")

\* A column is in the UPDATE only if it differs from what the session loaded.
WriteStatus(r, s) == status' = IF s = loaded[r].status THEN status ELSE s

\* Mutant: a dry run keeps no snapshot.
WriteProfileOfRealRuns(r) ==
    /\ profile' = IF ProfileOf(r) = loaded[r].profile
                  THEN profile ELSE ProfileOf(r)
    /\ snapshots' = IF dry[r] THEN snapshots ELSE snapshots \cup {r}

WriteProfile(r) ==
    /\ profile' = IF ProfileOf(r) = loaded[r].profile
                  THEN profile ELSE ProfileOf(r)
    /\ snapshots' = snapshots \cup {r}

\* A failing probe command yields an empty entry, so a probe never fails.
Probe(r) ==
    /\ Exists
    /\ Commits(r, "probe")
    /\ WriteStatus(r, "profiled")
    /\ WriteProfile(r)
    /\ UNCHANGED <<mode, run, patched, outdated>>

NewRun(r, passed, verdict) ==
    run' = [run EXCEPT ![r] =
              [status |-> IF passed THEN "succeeded" ELSE "failed",
               passed |-> passed, verdict |-> verdict,
               mode |-> loaded[r].mode, reruns |-> {}]]

Facts == [identity : BOOLEAN, gpu : BOOLEAN, python : BOOLEAN,
          docker : BOOLEAN, data : BOOLEAN]

\* discovery.py evaluate_discovery.
Evaluate(runtime_mode, f) ==
    LET blocking == ~f.identity \/ ~f.gpu \/ ~f.python
                    \/ (runtime_mode = "container" /\ ~f.docker)
        warning == (runtime_mode = "both" /\ ~f.docker) \/ ~f.data
    IN  IF blocking THEN "blocked"
        ELSE IF warning THEN "partially_ready" ELSE "ready"

\* api/v1.py _discovery_step: only a required command fails the step.
DiscoveryPassed(f) == f.identity

\* The verdict is for the mode that was read before the commands were sent.
Discover(r) ==
    /\ Exists
    /\ Commits(r, "discover")
    /\ \E f \in Facts :
         /\ dry[r] => \A fact \in DOMAIN f : f[fact]
         /\ NewRun(r, DiscoveryPassed(f), Evaluate(loaded[r].mode, f))
         /\ WriteStatus(r, DiscoveryStatus(Evaluate(loaded[r].mode, f)))
    /\ WriteProfile(r)
    /\ UNCHANGED <<mode, patched, outdated>>

-----------------------------------------------------------------------------
\* Exit codes: 0, positive (an error, 124 on timeout, 127, 255), negative (the
\* command was killed by a signal).
ExitCodes == {-1, 0, 1}
Phases == {"detect", "apply", "verify"}

\* steps.py run_step and _pi_environment_workflow_step.
StepExit(results) == Max({results[p] : p \in Phases})

\* The dry run exits 2 when Pi is disabled; verify repeats apply's exit code.
PiResults(isDry) ==
    {res \in [Phases -> ExitCodes] :
        /\ res["detect"] = 0
        /\ res["verify"] = res["apply"]
        /\ isDry => res["apply"] # -1}

\* Mutant: a planned workflow counts as an executed one.
PiPlanIsReady(r) ==
    /\ Exists
    /\ Commits(r, "pi")
    /\ \E res \in PiResults(dry[r]) :
         LET passed == StepExit(res) = 0
         IN  /\ NewRun(r, passed, "none")
             /\ WriteStatus(r, IF passed THEN "ready"
                               ELSE "agent_workflow_failed")
    /\ UNCHANGED <<profile, mode, snapshots, patched, outdated>>

PiWorkflow(r) ==
    /\ Exists
    /\ Commits(r, "pi")
    /\ \E res \in PiResults(dry[r]) :
         LET passed == StepExit(res) = 0
         IN  /\ NewRun(r, passed, "none")
             /\ WriteStatus(r, IF ~passed THEN "agent_workflow_failed"
                               ELSE IF dry[r] THEN "agent_workflow_planned"
                               ELSE "ready")
    /\ UNCHANGED <<profile, mode, snapshots, patched, outdated>>

RecordScripted(r, passed) ==
    /\ Exists
    /\ Commits(r, "scripted")
    /\ NewRun(r, passed, "none")
    /\ WriteStatus(r, IF passed THEN "ready" ELSE "bootstrap_failed")
    /\ UNCHANGED <<profile, mode, snapshots, patched, outdated>>

\* run_steps; the fake executor of a dry run returns 0.  MachineBootstrap says
\* what the modules do over SSH.
Scripted(r) ==
    \E passed \in BOOLEAN :
        /\ dry[r] => passed
        /\ RecordScripted(r, passed)

\* Always a dry run; the run becomes succeeded whatever it was, and its list
\* of steps is replaced by the loaded list with the new result appended.
RerunModule(r) ==
    /\ Commits(r, "rerun")
    /\ run' = [run EXCEPT ![target[r]].status = "succeeded",
                          ![target[r]].reruns = loaded[r].reruns \cup {r}]
    /\ UNCHANGED <<machine, snapshots, patched, outdated>>

\* PATCH with a status field (the body may say anything), a runtime_mode,
\* which stands for every column that a report copies.
Patch(r) ==
    /\ Exists
    /\ Commits(r, "patch")
    /\ \/ \E s \in PatchStatuses : WriteStatus(r, s) /\ patched' = patched \cup {s}
       \/ UNCHANGED <<status, patched>>
    /\ \/ /\ \E m \in RuntimeModes \ {loaded[r].mode} : mode' = m
          /\ outdated' = {q \in Requests : pc[q] # "idle"}
       \/ UNCHANGED <<mode, outdated>>
    /\ UNCHANGED <<profile, snapshots, run>>

\* Mutant: the foreign key of bootstrap_runs is missing.
ReferencedBySnapshots(r) == snapshots # loaded[r].snapshots

\* The cascade deletes the snapshots that were loaded; any other row that
\* refers to the machine makes the DELETE break a foreign key.
Referenced(r) == snapshots # loaded[r].snapshots
                 \/ \E q \in Requests : run[q].status # "none"

DeleteMachine(r) ==
    /\ Exists
    /\ ~Referenced(r)
    /\ Commits(r, "delete")
    /\ status' = "deleted"
    /\ snapshots' = {}
    /\ UNCHANGED <<profile, mode, run, patched, outdated>>

DeleteRefused(r) ==
    /\ pc[r] = "open"
    /\ kind[r] = "delete"
    /\ Exists
    /\ Referenced(r)
    /\ Answer(r, "error")
    /\ UNCHANGED <<machine, snapshots, run, patched, outdated>>

-----------------------------------------------------------------------------
Next ==
    \/ CreateMachine
    \/ \E r \in Requests :
         \/ LoadMachine(r) \/ LoadRun(r) \/ MachineIsGone(r) \/ RequestFails(r)
         \/ Probe(r) \/ Discover(r) \/ PiWorkflow(r) \/ Scripted(r)
         \/ RerunModule(r) \/ Patch(r)
         \/ DeleteMachine(r) \/ DeleteRefused(r)

Spec == Init /\ [][Next]_vars

-----------------------------------------------------------------------------
(* Properties.                                                              *)

\* Whatever else happens to the row meanwhile, the profile a machine shows is
\* one that a committed snapshot of it holds.
ProfileHasASnapshot ==
    Exists /\ profile # "none" => \E r \in snapshots : ProfileOf(r) = profile

\* No snapshot and no run survives its machine, although a machine may be
\* deleted while a probe or a bootstrap of it is under way.
NothingOutlivesTheMachine ==
    status = "deleted" => snapshots = {}
                          /\ \A r \in Requests : run[r].status = "none"

\* A status that was not written by hand is accounted for by a committed
\* record that says the same, even after reports have overtaken each other.
\* The steps count, not the status of the run, which a rerun overwrites.  A
\* verdict was reached for the machine's present runtime mode, unless the mode
\* was changed after the discovery had read it.
Recorded(k, d, passed) ==
    \E r \in Requests : run[r].status # "none" /\ kind[r] = k /\ dry[r] \in d
                        /\ run[r].passed = passed

Backed(s) ==
    /\ s = "profiled" => \E r \in snapshots : kind[r] = "probe"
    /\ s = "agent_workflow_planned" => Recorded("pi", {TRUE}, TRUE)
    /\ s = "agent_workflow_failed" => Recorded("pi", BOOLEAN, FALSE)
    /\ s = "bootstrap_failed" => Recorded("scripted", BOOLEAN, FALSE)
    /\ s = "ready" => \/ Recorded("pi", {FALSE}, TRUE)
                      \/ Recorded("scripted", BOOLEAN, TRUE)
    /\ \A v \in Verdicts : s = DiscoveryStatus(v) =>
         \E r \in Requests : /\ run[r].verdict = v
                             /\ run[r].mode = mode \/ r \in outdated

StatusIsRecorded == status \notin patched => Backed(status)

\* Two reruns of modules of the same run both keep their step results.
RerunsAreKept ==
    \A r \in Requests : kind[r] = "rerun" /\ pc[r] = "ok" =>
        r \in run[target[r]].reruns

=============================================================================
