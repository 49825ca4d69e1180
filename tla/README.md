# InferenceLab in TLA+

InferenceLab (`src/`) is a control plane for inference benchmarks: a FastAPI
backend over PostgreSQL, RQ workers over Redis, an S3 bucket, and machines
reached by SSH. The code is small; what can go wrong in it is not in any single
function. It is in two processes writing one row, in commands whose reply is
lost, in handlers that read a row, wait an hour for SSH, and write it back.
These modules model that part. Paths below are relative to
`src/backend/src/inflab/` unless they start with `src/`.

## The system

| Part | State | Operations | Interacts with |
|---|---|---|---|
| Jobs API (`api/v1.py` 1321-1431) | `jobs` rows | create in mode fake, remote_inline, remote_rq; list, get, logs, progress | RQ queue, remote runs, artifacts |
| Queue adapters (`jobs.py`) | Redis list | `FakeQueue.enqueue`, `RQQueue.enqueue_importable` | worker processes |
| Worker task (`worker_tasks.py`) | job row, session | `run_remote_benchmark_job` | remote run, artifacts |
| Artifact persistence (`benchmark_artifacts.py`, `object_store.py`) | `artifacts` rows, S3 objects | put an object, flush a row, per entry | caller's transaction |
| Remote run (`benchmark.py`, `executor.py`) | processes, port and files of a machine | mkdir, serve, stream, kill, cat | SSH |
| Machine environment (`api/v1.py` 892-1165, `probe.py`, `discovery.py`, `steps.py`, `agent_executor.py`) | `machines`, `machine_snapshots`, `bootstrap_runs` | create, PATCH, DELETE, probe, discovery, Pi bootstrap, scripted bootstrap, rerun | SSH, the Pi process |
| Experiments and reports (`api/v1.py` 1437-1846, `reports.py`, `company_report.py`) | `experiments`, trials, metrics, `reports` | create, plan, cancel, copy, compare, report, export | tuning |
| Tuning (`tuning.py`) | none | matrix, candidates, pruning, tuning loop | experiments |
| Agent settings (`api/v1.py` 386-460, 840-884) | one `agent_runtime_settings` row, environment | get, put, validate | Pi and LLM calls |
| Demo data (`demo_data.py`) | all tables | seed at start-up and by POST | |
| Sessions (`db/session.py`) | connection pool | one session per request or job | everything |
| Frontend, plugins, schemas, configuration, logging, migrations, deployment | | | |

What makes a part correct, and what makes it hard:

* **Jobs.** A row that says queued or running must have somebody who will
  finish it; a job is run once; what a finished job links exists, and what it
  does not link is explained in its log. Request handler and worker write the
  same row without a lock; the object store is not transactional; the worker can
  be interrupted between any two of its steps.
* **Remote runs.** The server that a run starts goes away with it; a result is
  the run's own. Every command can fail with or without its effect, RQ's alarm
  can strike at any await, and nothing keeps two runs off one machine.
* **Machine environment.** What the row says is backed by a committed record.
  Handlers overlap for as long as SSH takes, and write back only the columns
  that differ from what they loaded before.
* **Experiments.** Every record an experiment cites exists and agrees with it.
  Creation is one transaction, but readers use several queries, a machine can be
  deleted in between, and a copy is committed before its response fails.
* **Settings.** A stored key survives a PUT that does not name one, and a call
  uses the key of its settings. PUTs overlap on one row, and the key travels
  through `os.environ`, which all threads share.
* **Tuning.** Budget, order and completeness of a plan; the best of a run.
* **Demo data.** Check-then-insert by name, without a unique constraint.
* **Sessions.** A connection is held across SSH calls, and a handler on the event
  loop that waits for one blocks those that could give one back.

## Modules

| Module | Models |
|---|---|
| `JobLifecycle` | what a client that polls a job may observe: the abstract specification |
| `BenchmarkJobs` | request handler, Redis list, worker, artifact persistence |
| `BenchmarkJobsInvariant`, `BenchmarkJobsProofs` | its inductive invariant and the proofs |
| `StreamCall` | what a caller of `RemoteExecutor.stream` may rely on: the abstract specification |
| `SshStream`, `SshStreamProofs` | `AsyncSSHExecutor.stream`, its two reader tasks and the channel |
| `RemoteRuns` | the commands of several benchmark runs on one machine |
| `RemoteRunsInvariant`, `RemoteRunsProofs` | its inductive invariant and the proofs |
| `MachineEnvironment` | one machine row, its snapshots and runs, under overlapping requests |
| `MachineEnvironmentInvariant` | its inductive invariant |
| `MachineBootstrap` | the same with the bootstraps command by command and the machine they change |
| `MachineProofs` | the proofs about both |
| `AgentSettings`, `AgentSettingsProofs` | the settings row, PUTs, and LLM calls whose key goes through the environment |
| `TuningLoop` | the tuning loop over any plan |
| `Planning` | matrix, candidates, pruning, budget; extends `TuningLoop`, which runs its plans |
| `Experiments` | experiments, trials, metrics, jobs, reports, and the deletion of machines |
| `ExperimentsProofs` | the proofs about experiments, the plans they are given and the loop that runs them |
| `DemoSeed`, `DemoSeedProofs` | overlapping, failing and repeated seeding |
| `ConnectionPool`, `ConnectionPoolProofs` | event loop, threads and connections shared by all handlers |
| `*MC` | instances for TLC: model values, symmetry, restricted next-state relations |

Definitions whose comment starts with "Mutant" are not part of a specification.
Each is a plausible wrong version of the definition that follows it; putting it
in that definition's place must make the property named in `PROJECT.json` fail.

### BenchmarkJobs

`api[j]` is the position of the request handler, `worker[j]` that of the process
that runs the benchmark (an RQ work-horse, or the handler itself in mode
remote_inline), `session[j]` what that process has assigned and flushed but not
committed, and `status`, `result`, `links`, `notes` the committed columns of the
row. The columns are separate because SQLAlchemy puts only changed columns into
an UPDATE: the handler's second commit (`jobs.py:64`) carries `result` alone and
leaves the status a worker has written meanwhile.

* `CommitQueuedRow`, `PushToRedis`, `RecordRqId` are the three steps of
  `enqueue_importable`; `PushWithLostReply` and `RequestFails` are how they go
  wrong. `FakeJob` is the whole of mode fake: one transaction.
* `Dequeue` is RQ: a free worker takes the oldest id, at most once. RQ is
  outside the repository; no retry is configured, and an id that was popped is
  not pushed again.
* `WorkerStart` .. `WorkerReturn` are the commits and the calls of
  `run_remote_benchmark_job` and of `persist_remote_benchmark_artifacts`, entry
  by entry. `ExceptCommit` is the except branch; it also commits the artifact
  rows that were flushed before the exception, because nothing rolls back.
* `UploadFails` may or may not have stored the object. `PersistRaises` and
  `LateTimeout` are the RQ alarm (180 s by default, while a benchmark may run
  for 3600 s) outside an upload and after the last commit. `WorkerDies` is a
  crash, an alarm before the try block, or a database error.

Abstractions: the result column has one value per writer; a log line matters only
if it reports a failed upload; the two uploaded entries are `log` and `metrics`.

`JobLifecycle` has five actions. `Recant` and `DropLinks` are there because the
code needs them: a late alarm rewrites a published success to failed, and the
handler's second commit can drop links. Everything else a client sees moves
forward: created, started, finished together with its links.

### RemoteRuns

`pc[r]` is the await at which `run_remote_benchmark` stands. A machine has one
port (the plan's default) and result files; `server[r]` and `bench[r]` are the
remote processes, `port` names the run whose server listens, `target[r]` the run
whose server a benchmark talks to, `file[p]` who wrote a file last. `lost[r]`
remembers calls whose effect the run never heard of, and `alone[r]` whether
nothing else of any run was on the machine during this run; both exist for the
properties only. The finally clause is `KillServer`/`KillFails` reached from
`kill` (normal) or `unwind` (cancelled). `kill pid || true` is a signal and no more:
the server is `stopping` from then on, still has its port and still answers until
`ServerEnds`, which nothing makes happen; it may ignore the signal, take its time, or
have a child that keeps the socket. The next run on the machine may meet it there. `Piped` runs are sglang's, whose command
ends in `| tee`, so that `StreamEnds` reports success whatever the benchmark did.
`StreamTimesOut` and `StreamDrained` are separate since the code waits for the
channel to close without a limit; `DrainBreaks` ends that wait when the connection
breaks, with the command perhaps still running.

The stream steps are not free inventions of this module: `Call(r)` maps a run to a
`StreamCall`, and `ImplementsStreamCall` says that every run, beside all others,
makes only the steps that `StreamCall` allows.

### StreamCall and SshStream

`StreamCall` is the contract of `stream` for one command: zero only if the command
ended with success; any other answer may leave it running; after a timeout the
caller drains. `SshStream` is `executor.py:274-332`: `pc` is the await of the
coroutine, `reader` the two tasks, `read` the lines they have passed to `on_line`,
`received` the lines that have arrived. It implements the contract with `gather`
mapped to waiting and `kill` to draining, so that the two modules together say that
`RemoteRuns` may treat the stream as it does. asyncssh, the network and the SSH
server are external: lines wait in a buffer of `Window` lines that both streams
share, the close of the channel comes behind the data, and a broken connection shows
itself to each reader after the lines that have arrived. `GatherRaises` is `gather`
leaving the slower reader alone; it may go on appending after the answer 255.

### MachineEnvironment

A request opens a session and loads its row (`LoadMachine`, `LoadRun`), works,
and commits in one action (`Probe`, `Discover`, `PiWorkflow`, `Scripted`,
`RerunModule`, `Patch`, `DeleteMachine`) or answers with an error. `loaded`
is what its session read. `WriteStatus` and `WriteProfile` leave a column alone
when the new value equals the loaded one, as the unit of work does. `LoopFree`
says that an async handler in a dry run holds the event loop from load to commit
(no await in it suspends); PATCH and DELETE are threads and interleave anywhere.
`MachineIsGone` and `Referenced` are PostgreSQL's foreign keys: the tests use
SQLite, which does not enforce them. A run row keeps whether its
steps passed, apart from its own status, which a rerun overwrites. `StepExit` is
the maximum of the phases' exit codes, which hides a negative code (killed by a
signal) behind a 0. `mode` is the runtime mode, which a PATCH changes while a
discovery works with the one it has loaded; it stands for every column a report
copies. `outdated` and `patched` are history: who opened before the last change of
the mode, and which statuses a PATCH has written.

### MachineBootstrap

`MachineBootstrap` extends `MachineEnvironment`. In place of `Scripted` without a
dry run it has `StartBootstrap`, then `Apply` and `Verify` for each module of the
plan (`steps.py` `run_steps`, `run_step`), and `RecordBootstrap`. `present` are the
modules whose own files are on the machine, `daemon` what `/etc/docker/daemon.json`
holds, which B2 and B5 both write. A call that fails may have had its effect, part
of it, or, after the timeout of 30 s, may have it later (`running`, `ApplyGoesOn`).
`Complete` says for each apply command what its exit code 0 implies: the
commands are joined by `;`, so that only the last one counts. `Verified` is the
condition of each verify command; that of B5 asks only whether daemon.json exists.
`writer`, `missed` and `killed` are history. Detect commands end in `|| true` and
change nothing; only their exit code enters, through the maximum.

Each action conjoins one of `MachineEnvironment`, or leaves its variables alone:
`RecordBootstrap` is a `Scripted`. So this is an extension, not an implementation to
be checked; the proofs use it to carry the invariant over.

### AgentSettings

`row` is the one row of `agent_runtime_settings`, `environ` the two variables of
the API process that `LiteLLMCandidateProvider.generate` assigns. A PUT is
`LoadForPut` and `CommitPut`; `Assigned` is what the handler sets on the record it
loaded, `ChangedColumns` what the UPDATE then carries. `PutCollides` is the
primary key refusing the second of two first PUTs. A call is `StartPlanning`
(settings read), `SetEnviron` and `CallLLM`. `Restart` loses requests and
environment. `last` and `disturbed` are history: what the last commit asked for
while PUTs did not overlap, and whether another call of the same provider
assigned the variable during this one. Base URL, Pi options and the encryption
of the key are left out: columns like `model`, and a bijection.

### TuningLoop and Planning

`TuningLoop` takes the plans as a function `PlanOf` on `PlanRequests` and a runner
that returns any score or raises. A score is what `float()` makes of it, NaN included:
no comparison with `NaN` holds (`IsNumber` in `Better`). `Planning` says what they are
(`PlanningAssumption`): `PlanCandidates` is `plan_candidates`, with Python's slice
(`Cut`) for budgets of either sign, `MatrixCases` the 4 x 5 cases of the standard
matrix and `StandardMatrix` these in the order of the code's sort (`InOrder`, which
is a sort because no two cases agree in context and concurrency), `Offered` the
order in which candidates are collected, `Kept` the condition of `heuristic_prune` and
`Pruned` its loop; `Point` is a candidate that takes the defaults of `FrameworkParams`.
Two candidates come from `random.Random(7)`; the values it yields are written down.
`PlanningAssumption` also says that what an LLM adds is valid as `FrameworkParams`:
`CandidateSet` has validated it (`llm_provider.py:72`). Parameters that planning neither computes
nor inspects are left out.

### Experiments

All handlers are threads with one session; the id of a request is the id of the
rows it inserts. `InsertExperiment` is the flush, which makes PostgreSQL lock the
machine row (`Locked`) until `CommitCreate` or `PlanFails`; `DELETE` waits for the
lock and is then refused if a row refers to the machine. `CommitCopy` ends in
`failed`: the commit succeeds, the response model does not accept the status.
`UnreadableIsAFailedCopy` says that no other row is in that state.
`ReadTrials`/`JoinMetrics` and `ReadMetrics`/`CommitReport` are the separate
queries of the company table and of a report; under READ COMMITTED other commits
fall between them.

### DemoSeed

A seeder walks `pc` through the look-ups of `seed_demo_data`. `draft` is what its
session has added, `Commit` inserts it. Each look-up sees what is committed by
then. `Rename` is a PATCH of the machine's name, after which a seeder makes a new
machine but finds the old snapshot and experiments. `edited` are the columns of each
machine that differ from the demo data (status, runtime mode, profile, fingerprint),
which `Edit` changes as a PATCH, a probe or a bootstrap does. `SelectMachine` assigns all
of them on a machine that it finds, and `reset` is what differs from what was loaded and
is therefore written by `Commit`. `complete` and `serial`
are history, for the properties.

### ConnectionPool

`held` is who has a connection, `loop` the asynchronous request that blocks the
event loop, `Free` when none does. A request is accepted, connects (`Connect`, or
`TimesOut` after 30 s), works in a thread or awaits SSH with its connection,
commits and connects again for the refresh. A
synchronous handler that waits blocks its thread, an asynchronous one the loop.
`get_session` is a synchronous generator, so three parties end a request: the loop
hears that the handler is through and dispatches the close (`Exit`), a thread runs the
finally clause and returns the connection (`Close`, also while the loop is blocked),
the loop sends the answer (`Answer`). FastAPI runs these closes outside the limit of
the worker threads. `Stalled` is the state in which the loop waits for a
connection and each connection belongs to a request that waits for the loop or for its
machine; a close that is already with its thread prevents it.
`StandstillIsExplained` says that this is the only circle.

## Runs

| Run | Instance | Shows |
|---|---|---|
| `jobs_safety` | 2 jobs of any mode, 2 workers, symmetric jobs | delivery once, no stranded row without a fault, links lead to stored objects, no silent loss, unlinked artifacts are explained, and refinement of `JobLifecycle` |
| `jobs_liveness` | 2 queued jobs, 1 worker | a queued job ends unless its request or its process failed |
| `jobs_links` | 1 job, 1 worker | violation: a succeeded job loses its links |
| `remote_runs` | a vLLM and an sglang run, one result file | leaks are explained; a run that was alone reports itself; each run returns, is aborted, or waits for a channel to close, and implements `StreamCall`; servers end when they like |
| `ssh_stream` | 3 lines on each stream, a window of 2 | the answer comes after the log, the log is frozen then, the call comes back, and implements `StreamCall` |
| `machine_safety` | 2 requests of any kind, plans B2 and B2, B5; 2 runtime modes, 2 patched statuses | status and profile are backed by records, deletion leaves nothing behind, a passed bootstrap holds, and a lost NVIDIA runtime is explained |
| `settings_safety` | 2 threads, 2 keys, 7 payloads (new, blank, removed and contradictory keys, a missing model) | a blank PUT keeps the key, undisturbed calls send theirs, the row is the last PUT's, validation predicts the key |
| `settings_stale` | the same, payloads of the settings panel | violation: a removed key is still sent |
| `planning` | 1 to 40 GPUs, 15 budgets from -25 to 21, LLM answers kept and pruned, 3 scores and NaN | order and fit of the matrix, completeness of intelligent plans; best is the first maximum, whatever the runner does, unless its first score is NaN |
| `experiments_safety` | 5 requests, 2 machines, 0 to 2 trials | evidence is reachable, machines are kept, reports and tables are whole, only failed copies cannot be shown |
| `seed_safety` | 4 seeders, renaming, edits of one column | serial seeding is idempotent, the data set is whole, a complete one gets no rows and loses only edits |
| `pool` | 2 synchronous and 3 asynchronous requests, 2 connections, 1 thread | refusals need a crowd, there is one circle, a stall ends by its timeout, every request is answered or waits for its own machine |

**Bounds.** Two jobs are enough for everything that involves the queue: order,
a busy worker, two workers at once; jobs share no other state. Two runs are a run
and its disturber; a third only adds more of the same. Plans without a server take a
part of the same path; the proofs cover them. Three lines are more than the
window of two, so that each stream can fill it, alone or together with the other.
Two requests on a machine are a report and what overtakes it, two
bootstraps that overlap, a bootstrap and a deletion; with the machine itself in
the state, three do not fit. A third request matters for two reruns of one
run; the theorems of `MachineProofs` hold for any number of requests, plans and modules, and the inductive invariant was also
checked by TLC with three requests before it was proved. B2 and B5 are the modules
that share a file; the others differ from them by less. Two
threads and two keys are a call or a PUT and what runs into it; a thread serves
requests without end. Budgets stand on both sides of 0, of the number of offered
candidates and of the matrix, which `Cut` distinguishes; on plans of more than four
candidates (`MaxScored`) the runner scores 0 throughout, since the choice of the
best depends on the others only through the best so far and whether the first is NaN. Five requests reach a
copy of a copy with a cancellation and a deletion beside it. Four seeders are two
that overlap, one after a renaming, and one that finds everything; the four columns
that a seeder sets back go the same way, and one of them stands for all. Three
asynchronous requests are more than connections, so that two can wait for machines or
the loop while the third blocks it, and two synchronous ones are more than threads. No counter is bounded: every
process takes finitely many steps or returns to idle. The proofs lift the bounds
for every component; what of each of them is proved is said below. Type invariants that are proved are not repeated in the runs. All runs switch the deadlock check off: when every
request has been answered and every process has ended, the system is at rest.

**Fairness.** `BenchmarkJobs`: weak fairness of each handler step, of the worker
taking the head of the queue, and of each worker step. The event loop and the
work-horse keep executing, RQ workers poll for as long as they run, and the remote
run returns because each command has a timeout. Crashes are not fair, and
none is required. `RemoteRuns`: weak fairness of each step of a run, for the same
reason; closing a killed channel (`StreamDrained`) is up to the machine and has
none, which is why `EveryRunReturns` allows waiting there. The environment (a
server or a benchmark ending) is not fair either. `ConnectionPool`: weak fairness
of each request's steps but the answer of its machine. Threads and the loop run, and the
pool's timeout expires (`pool_timeout`, SQLAlchemy's 30 s). An SSH command may never
answer: `process.wait_closed()` (`executor.py:303`) and `create_process` have no limit.
Such a request keeps its connection, which is why `EveryRequestIsAnswered` excepts it, and
it only.
`SshStream`: weak fairness of the coroutine and of each
reader (the event loop), of the timeout as one of the coroutine's steps, and of the
SSH server, of which it is assumed that it forwards data and signals and closes the
channel of an ended command while the connection holds. That is an assumption about
the machine, not about this code; `RemoteRuns` does without it. The command itself
need neither write nor end. In `ConnectionPool`
the fairness is per request, not per action: an awaited step is enough, and
which of them is taken is left open. Liveness is checked without
symmetry.

## What the checks found

* **Lost links** (`jobs_links`). `enqueue_importable` writes the RQ id into
  `result` after the job is in Redis. A worker that finishes first loses its
  whole result, links included, while the status stays succeeded
  (`jobs.py:63-65`; `src/docs/api.md:42` promises the links).
* **A removed key is sent** (`settings_stale`). The variable that an earlier call
  set stays in the process, and a call whose settings hold no key leaves it
  there (`llm_provider.py`; `src/docs/api.md:146`: clearing removes the key).

Other disagreements with the documentation are visible in the modules and have no
run of their own; the properties are stated with the exception:

* `copy_experiment` commits the status `created`, which `ExperimentRead` does not
  accept (`schemas.py:488`): the copy's response and from then on every list of
  experiments fail (`src/docs/api.md:14` lists copying and comparing).
  `UnreadableIsAFailedCopy` says which rows are concerned.
* A repeated bootstrap should mostly report `skipped` or `unchanged`
  (`src/docs/e2e_acceptance.md:96`); `run_step` knows `changed` and `failed` only,
  and B2 of the second one takes the NVIDIA runtime away until its B5
  (`MissingRuntimeIsExplained`).
* Nothing keeps two runs off one machine (`src/modelbench_agent_requirements_2.md:520`:
  one machine, one test). `ExclusiveRunReportsItself` says what is guaranteed
  where a run is alone.
* PATCH makes any machine ready (`src/docs/modes_i18n_autoresearch.md:135`: no ready
  without an execution record). `StatusIsRecorded` excepts patched statuses.
* A Pi process killed by a signal counts as success, since `max` hides its negative
  exit code (`api/v1.py:327`; `src/docs/api.md:79`). `StepExit` computes that.
* For a draft that clears the key the validation reports none, also if the default
  key of the environment is in force once it is saved (`api/v1.py:460-468`); for a
  draft that clears the key and names one it reports one that is not stored.
  `ValidationPredictsTheKey` excepts both.
* The standard matrix skips the pruning that its label claims (`api/v1.py:765`).
  `IntelligentPlanIsComplete` is about the other mode.
* A trial that scores NaN as the first one stays the best of its loop, since
  `score > best` never holds (`tuning.py:175`, `182`). `BestIsFirstMaximum` says so.
* A kill is not awaited (`benchmark.py:225-227`): the server may still have the port when
  the next run starts, also after a run that succeeded. `ExclusiveRunReportsItself` counts
  such a server as company.
* Seeding sets status, runtime mode, profile and fingerprint of the demo machine back to
  those of the demo, whatever a PATCH, a probe or a bootstrap has found
  (`demo_data.py:101-105`). `SeedingAgainAddsNothing` allows this and no other change.
* Overlapping seeders insert two demo machines (`src/docs/api.md:20`: idempotent).
  `SerialSeedingIsIdempotent` excepts overlaps.

## Proofs

Every invariant that a run checks is proved for all values of the constants, and so are
all action properties and the refinements.
The theorems assume of the constants what the ASSUMEs of the modules say, which TLC
evaluates on the instances. The proofs have the same shape throughout: an inductive
invariant, one lemma per action and conjunct it can disturb, and a temporal
conclusion. The invariants were checked by TLC on the instances of the runs first.

### Jobs: `BenchmarkJobsProofs`

For every set of jobs and every positive number of workers (`WorkersAssumption`): the
type invariant, the five safety invariants of `jobs_safety` and the
refinement of `JobLifecycle`. None of the invariants is inductive as it stands; `IInv` adds

* `HandlerInv`: for each position of the handler, which status the row has and
  whether the worker can have started (`queued` and nobody, before the push);
* `WorkerInv`: for each position of the worker, the status it has written;
* `StoreInv`: nothing is linked or recorded before the final status, and flushed
  rows have their objects;
* `SessionInv`: the loop over entries accounts for every entry, as linked, as
  noted, or as still to do.

The refinement maps each step under `IInv` to a step of `JobLifecycle` or to a stutter.

### Remote runs: `RemoteRunsProofs`

For every set of runs, plans and result files (`RunAssumption`, `PathAssumption`,
`PlanAssumption`: names are distinct, each run has a path, only serving plans are
piped): the type invariant, `LeakedServerIsExplained`,
`ExclusiveRunReportsItself` and `ImplementsStreamCall`. `RunInv` adds that a server is
alive, told to stop or not, exactly when it
owns the port, that a run with a server that was not told to stop is still in charge of
it or has lost a reply, that a run that has been alone has nobody beside it, what bench,
target and file are at each position, and (`CallInv`) which outcome of the call
and which answer of the benchmark go with it.

### Streams: `SshStreamProofs`

For any number of lines and any window of unread lines
(`LinesAssumption`): the type invariant, `AnswerComesAfterTheLog`, `LogIsFrozen` and
the refinement of `StreamCall`. `StreamInv` adds where the lines are (`Flow`: logged,
buffered in the channel, or not yet written, in this order), that a channel closes
behind the data (`ChannelInv`), that a reader that ended has seen the channel closed
and emptied it, or was cancelled (`ReaderInv`), and what the coroutine has awaited
at each position (`CoroutineInv`).

### Machines: `MachineProofs`

The first part is about `MachineEnvironment`: for any requests, machines, modes and statuses
(`ModesAssumption`, `StatusesAssumption`), `ProfileHasASnapshot`,
`NothingOutlivesTheMachine`, `StatusIsRecorded` and `RerunsAreKept`. `IInv` adds that
a session that has not loaded its machine has written nothing
(`NothingBeforeTheMachine`), that a record with a verdict belongs to an answered
bootstrap (`RecordsAreAnswered`, `VerdictsHaveRuns`), that a rerun holds the event
loop (`RerunsHoldTheLoop`) and that loaded modes and statuses are known ones
(`ModesAreKnown`). `RerunsAreKept` needs three requests to be put at risk, more than
the run has, and is therefore proved only.

The second part is about `MachineBootstrap`: the type invariant, `PassedBootstrapHolds`
and `MissingRuntimeIsExplained` for any plans of steps
(`PlansAssumption`). Each step of `MachineBootstrap` is a step of
`MachineEnvironment` or a stutter, so the invariant of the latter holds of it
(`EnvironmentHolds`) and is used in the rest. `BootInv` adds that what a bootstrap has
verified still holds while it goes on, and that one recorded as passed has failed
nowhere and has no steps left; `WriterInv` that whoever left a `daemon.json` without
the NVIDIA runtime has applied B5 only before a later B2, or has missed it.

### Settings: `AgentSettingsProofs`

For any threads, keys, drafts and defaults
(`SettingsAssumption`, `DraftAssumption`: the values are of their types, the
markers for "none" are not keys or rows): the type invariant,
`UndisturbedCallSendsItsKey`, `BlankPutKeepsTheKey`, `ValidationPredictsTheKey` and
`RowIsTheLastPut`. `SettingsInv` adds that a caller between `SetEnviron` and `CallLLM`
finds its own key in the variable that litellm reads, or is disturbed, and that a PUT
that loaded a row still finds one, since the row is never deleted.
`BlankPutKeepsTheKey` and `ValidationPredictsTheKey` are action properties; their
proofs follow the UPDATE column by column. `RowIsTheLastPut` needs `PutsAreAlone`: as
long as no two PUTs have overlapped, the one that is open has read the present row and
no other is open, so that the columns it leaves alone are those it has seen.

### Experiments, plans and the tuning loop: `ExperimentsProofs`

For any machines, requests and trial counts
(`CountAssumption`, `NothingAssumption`, `RowAssumption`: the marker is neither a
name nor a row): `TypeOK`, `EvidenceIsReachable`, `MachineIsKept`,
`ReportIsAccurate`, `TableIsWhole` and
`UnreadableIsAFailedCopy`. The invariant adds `Fresh` (a request that has not committed owns
no rows, so that a commit overwrites nothing that was cited), `Loaded` (what a copy
has read still exists, and differs from the row by its status at most) and
`Paired` (trials and metrics of an experiment are the same indices at any moment,
and do not change once a reader has seen them).

For any numbers of GPUs, budgets and LLM answers (`PlanningAssumption`):
`MatrixIsProgressive` and `MatrixFitsTheMachine`. The sort is not taken on trust:
the rank of a case (how many come before it) is injective since the order is total on
the keys (`RanksDiffer`), an injection of n cases into 0..n-1 is onto, hence every
place has exactly one case (`EveryPlaceHasACase`) and no case is lost (`NoCaseIsLost`).
A cut keeps a prefix for budgets of either sign (`StandardPlans`), and batching keeps
at least one context because every context of the matrix fits under the cap.

For the same constants `IntelligentPlanIsComplete`: the plan has everything that was
offered and is not pruned, each once and in the order of the offer, up to the budget, or
without as many at the end as a negative budget says.
`Pruned` is a recursive function, and what a recursion returns for every list is an
induction over data, which the library's theorems cannot give here, since they take a
predicate as a parameter. `CountingUp` gets the one that is needed from finite sets
instead: a set of numbers that has 0 and the successor of each member below n has all
of 0..n, because what it left out would be finite and closed under the predecessor,
and an injection of a finite set into itself is onto. From it `KeptUpTo` relates each step of the loop to the set
of kept positions before it, and `PlaceOf`, the position of a kept candidate among the
kept, is strictly increasing (`PlacesAdvance`) and takes every place (`PlacesAreTaken`).
`PruningKeepsTheOrder` says for every list whatever that pruning returns the
candidates it keeps, each once and in their order. TLC compares the two definitions on the requests
of `planning_safety` through the property.

`TrialsWithinBudget` follows for every mode, runner and answer: a loop starts no more
trials than a budget that is not negative pays for (`TrialsStayWithinBudget`).

For every plan and every set of scores, integers and NaN (`LoopAssumption`):
`BestIsFirstMaximum`. `LoopInv` is the type invariant, the bound by
the plan, and the property itself, which is inductive together with them.

### Connections: `ConnectionPoolProofs`

For any finite set of requests and any positive size of the pool and number of threads
(`PoolAssumption`): the type invariant, `RefusedOnlyWhenCrowded`,
`OnlyTheTimeoutEndsAStall` and `StandstillIsExplained`. `PoolInv` adds that a connection is held in the
stages between obtaining and giving it back, and maybe while it is closed (`HeldWhileConnected`), that threads run
synchronous handlers and only asynchronous ones await SSH (`StageFitsKind`), that the
loop is blocked by exactly the asynchronous request that waits for a connection
(`LoopIsBlocked`), and that `crowded` is set if there have been more requests in
flight than connections (`CrowdIsNoticed`). A request that is refused is in flight and holds nothing
while all connections are held by others in flight, so there are more of them than
connections (`OneMoreThanHeld`). For `StandstillIsExplained`: if nobody goes on and the
loop is free, nothing waits for the loop, hence no thread is taken but by requests that
wait for a connection, all of which are with requests that await their machines; if the
loop is blocked, whoever blocks it waits for a connection, and none belongs to a thread
at work.

### Demo data: `DemoSeedProofs`

For any number of seeders, however they overlap, fail and are interrupted by renamings and other edits: the type
invariant, `DemoDataIsWhole`, `SeedingAgainAddsNothing` and
`SerialSeedingIsIdempotent`. `SeedInv` adds that whatever a session will not insert it
has found, and that rows, once found, stay (`Found`, which relies on demo machines
that were renamed as well), that a session which found everything drafts nothing
(`NothingToAdd`, `NothingDrafted`), and that snapshots are of demo machines
(`SnapshotsAreOfDemo`). `SerialInv` adds, for seeders that did not overlap and no renaming, that there is
no data or one set of it (`SerialData`), that one session is open at most, and that
it drafts everything or nothing.

### The safety halves of the liveness properties

Liveness under fairness and ENABLED are outside the prover. What makes the liveness
properties true is not, and is proved:

| Property, checked by TLC | Somebody can take a step | Steps come to an end |
|---|---|---|
| `EveryQueuedJobEnds` | `NobodyStarves`: while a job waits, some job can go on | `JobsTakeFewSteps`: each step advances one job, by at most 12 in all |
| `EveryRunReturns` | | `RunsTakeFewSteps`: a run, its server and its benchmark take at most 14 |
| `StreamComesBack` | `BuffersNeverBlock`: a full buffer always has a reader | `CallsAreFinite`: at most 11 + 6 `MaxLines` |
| `EveryRequestIsAnswered` | `StandstillsAreExplained`: requests that do not go on wait for machines, or for the timeout that ends a stall (`StallsEndByTimeout`) | `StepsAreProgress`: each step takes one request to a later stage |

The predicates that say who can take a step (`CanGoOn`, `CoroutineCanGoOn` and the
like) are written as conditions on the state; TLC has compared them with ENABLED of
the fair actions on the instances of the runs. `GoesOn` of the pool leaves the
timeout out, so that its standstills are the states that only a timeout or a machine
ends. `BuffersNeverBlock` needs one more
invariant, `ReadersAreOn`: as long as the channel is open both readers are at work. A
run needs no such theorem, since it waits for no other run; it may wait for a
machine that does not close a channel, which `EveryRunReturns` allows.

### Only model-checked

The four liveness properties as temporal formulas: `EveryQueuedJobEnds`,
`EveryRunReturns`, `StreamComesBack` and `EveryRequestIsAnswered`. Their safety halves
are in the table above.

## Plan

In this order:

1. A composition of `BenchmarkJobs` and `RemoteRuns` in which `RunBenchmark` is the
   outcome of a run, so that a leaked server or a foreign result can be related to
   what the job row says.
2. `Catalog`: uploads whose objects are stored under a key made of kind and name,
   the distribution of a model over SSH, and the export of a report.
3. The settings panel's draft in the frontend, against concurrent PUTs.

## Not modelled

The frontend (a client that awaits each call), plugins and command texts
(formatting), parsers of benchmark output, what an LLM answers (any sequence of
candidates), encryption and redaction of text, configuration, logging, middleware,
error formatting, migrations and deployment files: no state that two actors share,
or pure conversions. Models and uploaded artifacts: no handler updates or
deletes a row, so that the rows need no model. An upload puts its object under a key
made of kind and name before its row commits (`api/v1.py:1293-1318`), so that a second
upload of the same name replaces the content behind an earlier row, and an export of a
report (`api/v1.py:1831-1860`) likewise; both are planned as `Catalog`. Of settings,
the Pi options are left out. The read-only endpoints have no effect, except where
several of their queries must agree (`Experiments`).
