-------------------------- MODULE MachineBootstrap --------------------------
(***************************************************************************)
(* MachineEnvironment with the machine itself: the scripted bootstraps that  *)
(* are not dry runs, module by module (steps.py), and what their commands    *)
(* leave on the machine.  A module is detect, apply, verify, each over a     *)
(* connection of its own with a timeout of 30 s; nothing keeps two           *)
(* bootstraps off one machine.                                               *)
(*                                                                          *)
(* Modules B2 and B5 both write /etc/docker/daemon.json, B5 with the NVIDIA  *)
(* runtime.  Verify of B5 asks only whether the file exists.                 *)
(***************************************************************************)
EXTENDS MachineEnvironment, Sequences

CONSTANTS
    Modules,        \* the modules of a scripted bootstrap, e.g. {"B1", "B2"}
    Plans           \* lists of modules that a client may ask for

ASSUME PlansAssumption == Plans \subseteq Seq(Modules) \ {<<>>}

VARIABLES
    boot,       \* what each bootstrap has done so far
    present,    \* modules whose own files are on the machine
    daemon,     \* what daemon.json holds
    writer,     \* the bootstrap that wrote it last, or "late"
    running     \* modules whose apply goes on after its call gave up

host == <<present, daemon, writer, running>>
bvars == <<vars, boot, host>>

\* step: index in the plan; worst: the greatest exit code of the module so far;
\* missed: a write of daemon.json by B5 failed; killed: an exit code was -1.
Boot == [plan : Plans \cup {<<>>}, step : Nat \ {0}, phase : {"apply", "verify"},
         worst : ExitCodes, failed : BOOLEAN, missed : BOOLEAN,
         killed : BOOLEAN]

NoBoot == [plan |-> <<>>, step |-> 1, phase |-> "apply", worst |-> 0,
           failed |-> FALSE, missed |-> FALSE, killed |-> FALSE]

HostType ==
    /\ boot \in [Requests -> Boot]
    /\ present \subseteq Modules
    /\ daemon \in {"none", "basic", "nvidia"}
    /\ writer \in Requests \cup {"nobody", "late"}
    /\ running \subseteq Modules

BTypeOK == TypeOK /\ HostType

BInit ==
    /\ Init
    /\ boot = [r \in Requests |-> NoBoot]
    /\ present = {}
    /\ daemon = "none"
    /\ writer = "nobody"
    /\ running = {}

OverSsh(r) == kind[r] = "scripted" /\ ~dry[r]
Bootstrapping(r) == pc[r] = "open" /\ OverSsh(r)
Current(r) == boot[r].plan[boot[r].step]
StepsLeft(r) == boot[r].step <= Len(boot[r].plan)

-----------------------------------------------------------------------------
\* resolve_bootstrap_steps: the list of the client, or that of the profile.
StartBootstrap(r) ==
    /\ LoadMachine(r)
    /\ OverSsh(r)'
    /\ \E p \in Plans : boot' = [boot EXCEPT ![r].plan = p]
    /\ UNCHANGED host

Written(m) == CASE m = "B2" -> "basic" [] m = "B5" -> "nvidia" [] OTHER -> daemon

\* What the commands of a module may have done when they stop early.
Files(m) == present' \in {present, present \cup {m}}
Config(m) == daemon' \in {daemon, Written(m)}

\* The exit code of an apply is that of its last command: that of B3, B4 and
\* B7 tells whether the module's files are there, that of B2 whether daemon.json
\* was written; that of B1, B5 and B6 tells nothing of what verify tests.
Complete(m) ==
    /\ m \in {"B3", "B4", "B7"} => m \in present'
    /\ m = "B2" => daemon' = "basic"

\* detect, whose answer only counts for the exit code, and apply.  A call that
\* fails may have had its effect, part of it, or may have it later.
Apply(r) ==
    /\ Bootstrapping(r) /\ StepsLeft(r) /\ boot[r].phase = "apply"
    /\ LoopFree(r)
    /\ LET m == Current(r) IN
       /\ Files(m) /\ Config(m)
       /\ \E detect, apply \in ExitCodes, late \in BOOLEAN :
            /\ apply = 0 => Complete(m)
            /\ late => apply = 1
            /\ running' = IF late THEN running \cup {m} ELSE running
            /\ boot' = [boot EXCEPT
                 ![r].phase = "verify",
                 ![r].worst = Max({detect, apply}),
                 ![r].killed = @ \/ -1 \in {detect, apply},
                 ![r].missed = @ \/ (m = "B5" /\ daemon' # "nvidia")]
       /\ writer' = IF Written(m) = daemon' /\ m \in {"B2", "B5"} THEN r ELSE writer
    /\ UNCHANGED vars

\* The rest of an apply whose call was given up.
ApplyGoesOn(m) ==
    /\ m \in running
    /\ running' = running \ {m}
    /\ Files(m) /\ Config(m)
    /\ writer' = IF daemon' # daemon THEN "late" ELSE writer
    /\ UNCHANGED <<vars, boot>>

\* The condition that the module's verify_command tests.
Verified(m) == IF m = "B5" THEN daemon # "none" ELSE m \in present

\* Mutant: the exit code of verify is not part of the step's.
StepExitWithoutVerify(r, verify) == boot[r].worst

StepExitOf(r, verify) == Max({boot[r].worst, verify})

\* Mutant: the first module that fails ends the bootstrap.
NextStepUnlessFailed(r, exit) ==
    IF exit = 0 THEN boot[r].step + 1 ELSE Len(boot[r].plan) + 1

NextStep(r, exit) == boot[r].step + 1

Verify(r) ==
    /\ Bootstrapping(r) /\ StepsLeft(r) /\ boot[r].phase = "verify"
    /\ LoopFree(r)
    /\ \E verify \in ExitCodes :
         /\ verify = 0 => Verified(Current(r))
         /\ boot' = [boot EXCEPT
              ![r].step = NextStep(r, StepExitOf(r, verify)),
              ![r].phase = "apply",
              ![r].worst = 0,
              ![r].failed = @ \/ StepExitOf(r, verify) # 0,
              ![r].killed = @ \/ verify = -1]
    /\ UNCHANGED <<vars, host>>

\* Mutant: the machine is ready whatever the steps returned.
RecordsReady(r) ==
    /\ Bootstrapping(r) /\ ~StepsLeft(r)
    /\ Exists /\ Commits(r, "scripted")
    /\ NewRun(r, ~boot[r].failed, "none")
    /\ WriteStatus(r, "ready")
    /\ UNCHANGED <<profile, mode, snapshots, patched, outdated, boot, host>>

RecordBootstrap(r) ==
    /\ Bootstrapping(r) /\ ~StepsLeft(r)
    /\ RecordScripted(r, ~boot[r].failed)
    /\ UNCHANGED <<boot, host>>

\* The other requests do not touch the machine itself.
Elsewhere(r) ==
    /\ \/ LoadMachine(r) /\ ~OverSsh(r)'
       \/ LoadRun(r)
       \/ MachineIsGone(r) /\ (Bootstrapping(r) => ~StepsLeft(r))
       \/ RequestFails(r) \/ Probe(r) \/ Discover(r) \/ PiWorkflow(r)
       \/ dry[r] /\ Scripted(r)
       \/ RerunModule(r) \/ Patch(r) \/ DeleteMachine(r) \/ DeleteRefused(r)
    /\ UNCHANGED <<boot, host>>

-----------------------------------------------------------------------------
BNext ==
    \/ CreateMachine /\ UNCHANGED <<boot, host>>
    \/ \E m \in Modules : ApplyGoesOn(m)
    \/ \E r \in Requests :
         \/ StartBootstrap(r) \/ Apply(r) \/ Verify(r) \/ RecordBootstrap(r)
         \/ Elsewhere(r)

BSpec == BInit /\ [][BNext]_bvars

-----------------------------------------------------------------------------
(* Properties.                                                              *)

\* A bootstrap that was recorded as passed, and none of whose commands was
\* killed by a signal, has left what each of its modules verifies, and no other
\* bootstrap of the machine takes it away again, whatever overlaps or is cut
\* off.  (A kill hides behind the max() of the exit codes.)
PassedBootstrapHolds ==
    \A r \in Requests :
        run[r].passed /\ OverSsh(r) /\ ~boot[r].killed =>
            \A m \in Range(boot[r].plan) : Verified(m)

\* A daemon.json without the NVIDIA runtime, which another bootstrap may have
\* written there and reported as passed, is owed to one bootstrap: it is still
\* under way, was cut off, was not asked for B5 after its last B2, or could not
\* write the file again; or the rest of a command that was given up wrote it.
WillConfigure(r) ==
    \E k \in DOMAIN boot[r].plan :
        /\ boot[r].plan[k] = "B5"
        /\ \A i \in DOMAIN boot[r].plan : boot[r].plan[i] = "B2" => i < k

MissingRuntimeIsExplained ==
    daemon = "basic" /\ writer # "late" =>
        \/ pc[writer] = "error"
        \/ pc[writer] = "open" /\ StepsLeft(writer)
        \/ ~WillConfigure(writer)
        \/ boot[writer].missed
=============================================================================
