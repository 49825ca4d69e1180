---------------------------- MODULE RemoteRuns ----------------------------
(***************************************************************************)
(* benchmark.py run_remote_benchmark: the commands that one or several      *)
(* benchmark runs send over SSH to the same machine, and what they leave    *)
(* there: server processes, the port the server listens on, the benchmark   *)
(* process and the result file.  Nothing in the code keeps two runs off one *)
(* machine, and the port and the result path have one default each.         *)
(*                                                                          *)
(* Every executor.run opens its own connection.  A call may fail before it  *)
(* has an effect, or after it (a timeout: exit code 124; a lost connection: *)
(* 255); `lost` remembers the calls whose effect the run never heard of.    *)
(***************************************************************************)
EXTENDS Naturals, FiniteSets

CONSTANTS
    Runs,
    NoRun,          \* nobody: a free port, a result file that does not exist
    Paths,          \* result files on the machine
    PathOf,         \* the result_path of each run's plan
    Serving,        \* runs whose plan has a serve_command
    Piped           \* runs whose bench_command ends in "| tee" (sglang)

ASSUME RunAssumption == NoRun \notin Runs
ASSUME PathAssumption == PathOf \in [Runs -> Paths]
ASSUME PlanAssumption == Piped \subseteq Serving /\ Serving \subseteq Runs

VARIABLES
    pc,         \* the next await of the coroutine
    outcome,    \* "status" of the returned dictionary
    server,     \* the process started by serve_command; stopping: was sent SIGTERM
    port,       \* the run whose server listens
    bench,      \* the remote process of bench_command
    target,     \* the run whose server the benchmark has measured
    file,       \* the run that wrote each result file last
    raw,        \* the run whose file was read back
    lost,       \* the calls that failed without the run knowing their effect
    alone       \* no other run or leftover shared the machine with this run

remote == <<server, port, bench, target, file>>
vars == <<pc, outcome, server, port, bench, target, file, raw, lost, alone>>

Maybe == Runs \cup {NoRun}
Live == {"mkdir", "start", "warmup", "bench", "stream", "drain", "kill",
         "unwind", "cat"}

TypeOK ==
    /\ pc \in [Runs -> Live \cup {"idle", "done", "aborted"}]
    /\ outcome \in [Runs -> {"none", "succeeded", "failed"}]
    /\ server \in [Runs -> {"none", "up", "stopping", "down"}]
    /\ port \in Maybe
    /\ bench \in [Runs -> {"none", "running", "ok", "failed"}]
    /\ target \in [Runs -> Maybe]
    /\ file \in [Paths -> Maybe]
    /\ raw \in [Runs -> Maybe]
    /\ lost \in [Runs -> SUBSET {"start", "kill", "stream", "abort"}]
    /\ alone \in [Runs -> BOOLEAN]

Init ==
    /\ pc = [r \in Runs |-> "idle"]
    /\ outcome = [r \in Runs |-> "none"]
    /\ server = [r \in Runs |-> "none"]
    /\ port = NoRun
    /\ bench = [r \in Runs |-> "none"]
    /\ target = [r \in Runs |-> NoRun]
    /\ file = [p \in Paths |-> NoRun]
    /\ raw = [r \in Runs |-> NoRun]
    /\ lost = [r \in Runs |-> {}]
    /\ alone = [r \in Runs |-> FALSE]

Goto(r, l) == pc' = [pc EXCEPT ![r] = l]
Loses(r, c) == lost' = [lost EXCEPT ![r] = @ \cup {c}]

Alive(r) == server[r] \in {"up", "stopping"}
Busy(r) == pc[r] \in Live \/ Alive(r) \/ bench[r] = "running"

\* A job starts.
Begin(r) ==
    /\ pc[r] = "idle"
    /\ Goto(r, "mkdir")
    /\ alone' = [s \in Runs |-> IF s = r THEN \A o \in Runs : ~Busy(o)
                                ELSE alone[s] /\ pc[s] \notin Live]
    /\ UNCHANGED <<outcome, remote, raw, lost>>

\* mkdir -p of the result directory.
Mkdir(r) ==
    /\ pc[r] = "mkdir"
    /\ Goto(r, IF r \in Serving THEN "start" ELSE "bench")
    /\ UNCHANGED <<outcome, remote, raw, lost, alone>>

\* The server process: it listens if the port is free, else it exits.
Launch(r) ==
    /\ server' = [server EXCEPT ![r] = IF port = NoRun THEN "up" ELSE "down"]
    /\ port' = IF port = NoRun THEN r ELSE port
    /\ UNCHANGED <<bench, target, file>>

\* nohup serve_command & echo $!: the last line of stdout is the server's pid.
StartServer(r) ==
    /\ pc[r] = "start"
    /\ Launch(r)
    /\ Goto(r, "warmup")
    /\ UNCHANGED <<outcome, raw, lost, alone>>

\* The call fails after the shell has forked: the run returns without a pid.
StartServerUnheard(r) ==
    /\ pc[r] = "start"
    /\ Launch(r)
    /\ Loses(r, "start")
    /\ Goto(r, "done")
    /\ outcome' = [outcome EXCEPT ![r] = "failed"]
    /\ UNCHANGED <<raw, alone>>

\* mkdir or the start of the server exits non-zero without an effect.
SetupFails(r) ==
    /\ pc[r] \in {"mkdir", "start"}
    /\ Goto(r, "done")
    /\ outcome' = [outcome EXCEPT ![r] = "failed"]
    /\ UNCHANGED <<remote, raw, lost, alone>>

\* sleep 10; its result is not looked at.
Warmup(r) ==
    /\ pc[r] = "warmup"
    /\ Goto(r, "bench")
    /\ UNCHANGED <<outcome, remote, raw, lost, alone>>

\* The bench command starts against whatever listens on the port; tee
\* truncates the result file first.
StartBench(r) ==
    /\ pc[r] = "bench"
    /\ Goto(r, "stream")
    /\ bench' = [bench EXCEPT ![r] = "running"]
    /\ target' = [target EXCEPT ![r] = IF r \in Serving THEN port ELSE r]
    /\ file' = IF r \in Piped THEN [file EXCEPT ![PathOf[r]] = r] ELSE file
    /\ UNCHANGED <<outcome, server, port, raw, lost, alone>>

AfterBench(r) == IF r \in Serving THEN "kill" ELSE "cat"

\* The connection for the bench command cannot be opened: exit code 255.
BenchUnreachable(r) ==
    /\ pc[r] = "bench"
    /\ Goto(r, AfterBench(r))
    /\ outcome' = [outcome EXCEPT ![r] = "failed"]
    /\ UNCHANGED <<remote, raw, lost, alone>>

\* The remote process ends: with success it has written its result file.  A
\* server that died or was never there makes it fail.
BenchSucceeds(r) ==
    /\ bench[r] = "running"
    /\ target[r] # NoRun
    /\ r \in Serving => target[r] = port
    /\ bench' = [bench EXCEPT ![r] = "ok"]
    /\ file' = [file EXCEPT ![PathOf[r]] = r]
    /\ UNCHANGED <<pc, outcome, server, port, target, raw, lost, alone>>

BenchFails(r) ==
    /\ bench[r] = "running"
    /\ bench' = [bench EXCEPT ![r] = "failed"]
    /\ UNCHANGED <<pc, outcome, server, port, target, file, raw, lost, alone>>

\* Mutant: the exit status of the benchmark is not looked at.
StreamEndsUnchecked(r) ==
    /\ pc[r] = "stream"
    /\ bench[r] \in {"ok", "failed"}
    /\ Goto(r, AfterBench(r))
    /\ outcome' = [outcome EXCEPT ![r] = "succeeded"]
    /\ UNCHANGED <<remote, raw, lost, alone>>

\* stream returns the exit status: that of tee in a pipeline.
StreamEnds(r) ==
    /\ pc[r] = "stream"
    /\ bench[r] \in {"ok", "failed"}
    /\ Goto(r, AfterBench(r))
    /\ outcome' = [outcome EXCEPT ![r] =
                     IF bench[r] = "ok" \/ r \in Piped
                     THEN "succeeded" ELSE "failed"]
    /\ UNCHANGED <<remote, raw, lost, alone>>

\* The connection breaks (255); the remote process may live on.
StreamBreaks(r) ==
    /\ pc[r] = "stream"
    /\ Loses(r, "stream")
    /\ Goto(r, AfterBench(r))
    /\ outcome' = [outcome EXCEPT ![r] = "failed"]
    /\ UNCHANGED <<remote, raw, alone>>

\* Mutant: no timeout while the remote process runs.
NoTimeoutWhileRunning(r) ==
    /\ pc[r] = "stream"
    /\ bench[r] # "running"
    /\ Goto(r, "drain")
    /\ outcome' = [outcome EXCEPT ![r] = "failed"]
    /\ UNCHANGED <<remote, raw, lost, alone>>

\* timeout_seconds: kill, then wait for the channel to close without a limit.
StreamTimesOut(r) ==
    /\ pc[r] = "stream"
    /\ Goto(r, "drain")
    /\ outcome' = [outcome EXCEPT ![r] = "failed"]
    /\ UNCHANGED <<remote, raw, lost, alone>>

StreamDrained(r) ==
    /\ pc[r] = "drain"
    /\ Goto(r, AfterBench(r))
    /\ bench' = [bench EXCEPT ![r] = IF @ = "running" THEN "failed" ELSE @]
    /\ UNCHANGED <<outcome, server, port, target, file, raw, lost, alone>>

\* The channel closes because the connection breaks: the kill may never have
\* arrived.
DrainBreaks(r) ==
    /\ pc[r] = "drain"
    /\ Loses(r, "stream")
    /\ Goto(r, AfterBench(r))
    /\ UNCHANGED <<outcome, remote, raw, alone>>

\* Mutant: the kill follows the stream without try / finally.
CancelWithoutFinally(r) ==
    /\ pc[r] \in {"bench", "stream", "drain"}
    /\ Goto(r, "aborted")
    /\ outcome' = [outcome EXCEPT ![r] = "none"]
    /\ UNCHANGED <<remote, raw, lost, alone>>

\* The worker's alarm cancels the coroutine inside the try block: the finally
\* clause still kills the server.
Cancel(r) ==
    /\ pc[r] \in {"bench", "stream", "drain"}
    /\ Goto(r, IF r \in Serving THEN "unwind" ELSE "aborted")
    /\ outcome' = [outcome EXCEPT ![r] = "none"]
    /\ UNCHANGED <<remote, raw, lost, alone>>

\* It cancels it elsewhere, even while the server is being started, or the
\* process dies: nothing is cleaned up.
Abort(r) ==
    /\ pc[r] \in Live
    /\ Goto(r, "aborted")
    /\ \/ UNCHANGED remote
       \/ pc[r] = "start" /\ Launch(r)
    /\ Loses(r, "abort")
    /\ outcome' = [outcome EXCEPT ![r] = "none"]
    /\ UNCHANGED <<raw, alone>>

\* finally: kill pid || true.
AfterKill(r) == IF pc[r] = "unwind" THEN "aborted" ELSE "cat"

\* The signal is sent and nobody waits for its effect: until the server (or a
\* child of it that has the socket) ends, if it ever does, it has the port and
\* answers.
KillServer(r) ==
    /\ pc[r] \in {"kill", "unwind"}
    /\ Goto(r, AfterKill(r))
    /\ server' = [server EXCEPT ![r] = IF @ = "up" THEN "stopping" ELSE @]
    /\ UNCHANGED <<outcome, port, bench, target, file, raw, lost, alone>>

\* The kill does not get through; its result is ignored.
KillFails(r) ==
    /\ pc[r] \in {"kill", "unwind"}
    /\ Loses(r, "kill")
    /\ Goto(r, AfterKill(r))
    /\ UNCHANGED <<outcome, remote, raw, alone>>

\* cat result_path || true
ReadResult(r) ==
    /\ pc[r] = "cat"
    /\ Goto(r, "done")
    /\ \/ raw' = [raw EXCEPT ![r] = file[PathOf[r]]]
       \/ UNCHANGED raw
    /\ UNCHANGED <<outcome, remote, lost, alone>>

\* The server ends, of the signal or by itself (out of memory, a crash of the
\* model).
ServerEnds(r) ==
    /\ Alive(r)
    /\ server' = [server EXCEPT ![r] = "down"]
    /\ port' = NoRun
    /\ UNCHANGED <<pc, outcome, bench, target, file, raw, lost, alone>>

-----------------------------------------------------------------------------
Step(r) ==
    \/ Mkdir(r) \/ StartServer(r) \/ Warmup(r) \/ StartBench(r)
    \/ StreamEnds(r) \/ StreamTimesOut(r) \/ KillServer(r) \/ KillFails(r)
    \/ ReadResult(r)

Environment(r) ==
    \/ Begin(r) \/ StartServerUnheard(r) \/ SetupFails(r)
    \/ BenchUnreachable(r) \/ BenchSucceeds(r) \/ BenchFails(r)
    \/ StreamBreaks(r) \/ StreamDrained(r) \/ DrainBreaks(r) \/ Cancel(r)
    \/ Abort(r) \/ ServerEnds(r)

Next == \E r \in Runs : Step(r) \/ Environment(r)

Spec == Init /\ [][Next]_vars

\* Each command has a timeout, so each await but the drain comes back.
FairSpec == Spec /\ \A r \in Runs : WF_vars(Step(r))

-----------------------------------------------------------------------------
(* Properties.                                                              *)

\* Whether a run returned or was cancelled inside its try block, its server has
\* ended or was told to, unless a reply was lost on the way or the run was cut
\* off where nothing cleans up.  That it does end is not for the code to say.
LeakedServerIsExplained ==
    \A r \in Runs : server[r] = "up" /\ pc[r] \in {"done", "aborted"} =>
        lost[r] \cap {"start", "kill", "abort"} # {}

\* With the machine to itself, the servers of earlier runs included, a succeeded
\* vLLM run measured its own server and reads back its own result, never a stale
\* file.
ExclusiveRunReportsItself ==
    \A r \in Runs \ Piped :
        outcome[r] = "succeeded" /\ pc[r] \in {"cat", "done"} /\ alone[r] =>
            target[r] = r /\ (pc[r] = "done" => raw[r] \in {r, NoRun})

\* Each run uses RemoteExecutor.stream, for its benchmark, as StreamCall
\* promises.  The command that the call sees is the pipeline: with tee at its
\* end it always ends with success.
Call(r) == INSTANCE StreamCall WITH
    call <- CASE pc[r] \in {"idle", "mkdir", "start", "warmup", "bench"} -> "idle"
              [] pc[r] = "stream" -> "waiting"
              [] pc[r] = "drain" -> "draining"
              [] pc[r] \in {"kill", "cat", "done"} -> "returned"
              [] OTHER -> "dropped",
    process <- IF bench[r] = "failed" /\ r \in Piped THEN "ok" ELSE bench[r],
    code <- CASE outcome[r] = "succeeded" -> "zero"
              [] outcome[r] = "failed" /\ pc[r] # "drain" -> "nonzero"
              [] OTHER -> "none"

ImplementsStreamCall ==
    /\ \A r \in Runs : Call(r)!Init
    /\ [][\A r \in Runs : Call(r)!Next \/ UNCHANGED Call(r)!vars]_vars

\* Every run that was started returns or raises, except while it waits for a
\* channel that the other side never closes.
EveryRunReturns ==
    \A r \in Runs : pc[r] = "mkdir" ~> pc[r] \in {"done", "aborted", "drain"}

=============================================================================
