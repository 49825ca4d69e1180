--------------------------- MODULE BenchmarkJobs ---------------------------
(***************************************************************************)
(* Benchmark jobs from the HTTP request to the final database row:          *)
(*   - api/v1.py create_benchmark_job, in its modes remote_rq,              *)
(*     remote_inline and fake;                                              *)
(*   - jobs.py RQQueue.enqueue_importable: commit the row, push the job id  *)
(*     to Redis, commit the RQ id into the row;                             *)
(*   - worker_tasks.py run_remote_benchmark_job, in a work-horse process;   *)
(*   - benchmark_artifacts.py persist_remote_benchmark_artifacts: put an    *)
(*     object, flush an artifact row, entry by entry, inside the worker's   *)
(*     transaction.                                                         *)
(* The remote run itself is one step here (RunBenchmark); RemoteRuns        *)
(* models its commands.                                                     *)
(*                                                                          *)
(* A database row is kept per column (status, result, links, notes) because *)
(* SQLAlchemy writes the columns a session changed and no others: the       *)
(* request handler and the worker write the same row without a lock.        *)
(***************************************************************************)
EXTENDS Naturals, Sequences, FiniteSets

CONSTANTS
    Jobs,       \* one per submitted request
    Workers     \* number of RQ worker processes

ASSUME WorkersAssumption == Workers \in Nat \ {0}

Kinds == {"log", "metrics"}     \* the two entries that are uploaded

VARIABLES
    api,        \* the request handler of a job
    queue,      \* the Redis list of job ids
    worker,     \* the process that runs the benchmark (work-horse or handler)
    session,    \* its uncommitted view of the job
    status, result, links, notes,   \* the committed columns of the job row
    artifacts,  \* committed rows of the artifact table, by job
    objects     \* objects in the S3 bucket, by job

rowVars == <<status, result, links, notes>>
storeVars == <<artifacts, objects>>
vars == <<api, queue, worker, session, status, result, links, notes,
          artifacts, objects>>

Terminal == {"succeeded", "failed"}
Active == {"dequeued", "running", "persist", "commit", "return",
           "recant", "except"}

\* status: the value the next commit writes; result: "kept" when the session
\* has not assigned the column; content: the non-empty entries of the remote
\* result; todo: those not handled yet; rows: artifact rows flushed but not
\* committed (and the refs list); notes: upload failures appended to the logs.
Session ==
    [status : Terminal, result : {"kept", "remote", "linked"},
     content : SUBSET Kinds, todo : SUBSET Kinds, rows : SUBSET Kinds,
     notes : SUBSET Kinds]

FreshSession == [status |-> "failed", result |-> "kept", content |-> {},
                 todo |-> {}, rows |-> {}, notes |-> {}]

TypeOK ==
    /\ api \in [Jobs -> {"idle", "enqueue", "record", "done", "error",
                         "inline", "fake"}]
    /\ queue \in Seq(Jobs)
    /\ worker \in [Jobs -> Active \cup {"none", "done", "dead"}]
    /\ session \in [Jobs -> Session]
    /\ status \in [Jobs -> {"absent", "queued", "running"} \cup Terminal]
    /\ result \in [Jobs -> {"empty", "rq_id", "remote", "linked", "fake"}]
    /\ links \in [Jobs -> SUBSET Kinds]
    /\ notes \in [Jobs -> SUBSET Kinds]
    /\ artifacts \in [Jobs -> SUBSET Kinds]
    /\ objects \in [Jobs -> SUBSET Kinds]

Init ==
    /\ api = [j \in Jobs |-> "idle"]
    /\ queue = <<>>
    /\ worker = [j \in Jobs |-> "none"]
    /\ session = [j \in Jobs |-> FreshSession]
    /\ status = [j \in Jobs |-> "absent"]
    /\ result = [j \in Jobs |-> "empty"]
    /\ links = [j \in Jobs |-> {}]
    /\ notes = [j \in Jobs |-> {}]
    /\ artifacts = [j \in Jobs |-> {}]
    /\ objects = [j \in Jobs |-> {}]

-----------------------------------------------------------------------------
(* The request handler.                                                     *)

\* remote_rq, first commit: the row becomes visible as queued.
CommitQueuedRow(j) ==
    /\ api[j] = "idle"
    /\ api' = [api EXCEPT ![j] = "enqueue"]
    /\ status' = [status EXCEPT ![j] = "queued"]
    /\ UNCHANGED <<queue, worker, session, result, links, notes, storeVars>>

\* Mutant: the id goes to a queue that no worker listens on.
PushToWrongQueue(j) ==
    /\ api[j] = "enqueue"
    /\ api' = [api EXCEPT ![j] = "record"]
    /\ UNCHANGED <<queue, worker, session, rowVars, storeVars>>

\* queue.enqueue returned: a worker may already be running the job when the
\* handler goes on to its second commit.
PushToRedis(j) ==
    /\ api[j] = "enqueue"
    /\ api' = [api EXCEPT ![j] = "record"]
    /\ queue' = Append(queue, j)
    /\ UNCHANGED <<worker, session, rowVars, storeVars>>

\* Mutant: the handler retries a push whose reply was lost.
PushIsRetried(j) ==
    /\ api[j] = "enqueue"
    /\ queue' = Append(queue, j)
    /\ UNCHANGED <<api, worker, session, rowVars, storeVars>>

\* Redis stored the job and the reply was lost: HTTP 500, yet the job runs.
PushWithLostReply(j) ==
    /\ api[j] = "enqueue"
    /\ api' = [api EXCEPT ![j] = "error"]
    /\ queue' = Append(queue, j)
    /\ UNCHANGED <<worker, session, rowVars, storeVars>>

\* Redis refused, the second commit failed, or the API process died.
RequestFails(j) ==
    /\ api[j] \in {"enqueue", "record"}
    /\ api' = [api EXCEPT ![j] = "error"]
    /\ UNCHANGED <<queue, worker, session, rowVars, storeVars>>

\* Mutant: the second commit writes the status column as well.
RecordRqIdAndStatus(j) ==
    /\ api[j] = "record"
    /\ api' = [api EXCEPT ![j] = "done"]
    /\ status' = [status EXCEPT ![j] = "queued"]
    /\ result' = [result EXCEPT ![j] = "rq_id"]
    /\ links' = [links EXCEPT ![j] = {}]
    /\ UNCHANGED <<queue, worker, session, notes, storeVars>>

\* Second commit: job.result = {"rq_job_id": ...}.  The UPDATE carries the
\* result column alone, whatever the worker has committed meanwhile.
RecordRqId(j) ==
    /\ api[j] = "record"
    /\ api' = [api EXCEPT ![j] = "done"]
    /\ result' = [result EXCEPT ![j] = "rq_id"]
    /\ links' = [links EXCEPT ![j] = {}]
    /\ UNCHANGED <<queue, worker, session, status, notes, storeVars>>

\* fake: FakeQueue.enqueue inserts the finished row in one transaction.
FakeJob(j) ==
    /\ api[j] = "idle"
    /\ api' = [api EXCEPT ![j] = "fake"]
    /\ \E s \in Terminal :
         /\ status' = [status EXCEPT ![j] = s]
         /\ result' = [result EXCEPT
                         ![j] = IF s = "succeeded" THEN "fake" ELSE "empty"]
    /\ UNCHANGED <<queue, worker, session, links, notes, storeVars>>

\* remote_inline: the handler itself runs the benchmark; no row exists yet.
StartInline(j) ==
    /\ api[j] = "idle"
    /\ api' = [api EXCEPT ![j] = "inline"]
    /\ worker' = [worker EXCEPT ![j] = "running"]
    /\ UNCHANGED <<queue, session, rowVars, storeVars>>

-----------------------------------------------------------------------------
(* The worker.                                                              *)

\* A process that ends takes its session with it (session.close()); what the
\* remote result held is remembered for NoSilentLoss.
CloseSession(j) ==
    session' = [session EXCEPT
                  ![j] = [FreshSession EXCEPT !.content = session[j].content]]

IsInline(j) == api[j] = "inline"

BusyWorkers == {j \in Jobs : worker[j] \in Active /\ ~IsInline(j)}

\* RQ hands the oldest id to a free worker and forgets it.
Dequeue(j) ==
    /\ queue # <<>>
    /\ j = Head(queue)
    /\ Cardinality(BusyWorkers) < Workers
    /\ queue' = Tail(queue)
    /\ worker' = [worker EXCEPT ![j] = "dequeued"]
    /\ UNCHANGED <<api, session, rowVars, storeVars>>

\* The first commit of the worker; without a row it raises.
WorkerStart(j) ==
    /\ worker[j] = "dequeued"
    /\ IF status[j] = "absent"
       THEN /\ worker' = [worker EXCEPT ![j] = "dead"]
            /\ UNCHANGED status
       ELSE /\ worker' = [worker EXCEPT ![j] = "running"]
            /\ status' = [status EXCEPT ![j] = "running"]
    /\ UNCHANGED <<api, queue, session, result, links, notes, storeVars>>

\* run_remote_benchmark returned; the job attributes are assigned in the
\* session, nothing is committed.
RunBenchmark(j) ==
    /\ worker[j] = "running"
    /\ worker' = [worker EXCEPT ![j] = "persist"]
    /\ \E s \in Terminal, c \in SUBSET Kinds :
         session' = [session EXCEPT ![j] =
             [status |-> s, result |-> "remote", content |-> c, todo |-> c,
              rows |-> {}, notes |-> {}]]
    /\ UNCHANGED <<api, queue, rowVars, storeVars>>

\* Machine or model deleted meanwhile, no credential, or the RQ timeout.
RunRaises(j) ==
    /\ worker[j] = "running"
    /\ ~IsInline(j)
    /\ worker' = [worker EXCEPT ![j] = "except"]
    /\ UNCHANGED <<api, queue, session, rowVars, storeVars>>

NextEntry(j) == IF "log" \in session[j].todo THEN "log" ELSE "metrics"

\* One entry of the loop: put_object succeeds, then the artifact row is
\* flushed into the open transaction and its reference collected.
UploadEntry(j) ==
    /\ worker[j] = "persist"
    /\ session[j].todo # {}
    /\ objects' = [objects EXCEPT ![j] = @ \cup {NextEntry(j)}]
    /\ session' = [session EXCEPT
                     ![j].todo = @ \ {NextEntry(j)},
                     ![j].rows = @ \cup {NextEntry(j)}]
    /\ UNCHANGED <<api, queue, worker, rowVars, artifacts>>

\* Mutant: the failed upload is swallowed without a log line.
UploadFailsSilently(j) ==
    /\ worker[j] = "persist"
    /\ session[j].todo # {}
    /\ session' = [session EXCEPT ![j].todo = @ \ {NextEntry(j)}]
    /\ UNCHANGED <<api, queue, worker, rowVars, storeVars>>

\* Mutant: the artifact row is added although the upload failed.
UploadFailsButIsRecorded(j) ==
    /\ worker[j] = "persist"
    /\ session[j].todo # {}
    /\ session' = [session EXCEPT
                     ![j].todo = @ \ {NextEntry(j)},
                     ![j].rows = @ \cup {NextEntry(j)}]
    /\ UNCHANGED <<api, queue, worker, rowVars, storeVars>>

\* The upload raises, before or after the object is stored (a lost reply, or
\* the RQ timeout, which this handler swallows too): a log line, and on.
UploadFails(j) ==
    /\ worker[j] = "persist"
    /\ session[j].todo # {}
    /\ \/ UNCHANGED objects
       \/ objects' = [objects EXCEPT ![j] = @ \cup {NextEntry(j)}]
    /\ session' = [session EXCEPT
                     ![j].todo = @ \ {NextEntry(j)},
                     ![j].notes = @ \cup {NextEntry(j)}]
    /\ UNCHANGED <<api, queue, worker, rowVars, artifacts>>

\* Mutant: job.result["artifacts"] = refs, a change inside the JSON value that
\* the session does not see.
LinkInPlace(j) ==
    /\ worker[j] = "persist"
    /\ session[j].todo = {}
    /\ worker' = [worker EXCEPT ![j] = "commit"]
    /\ UNCHANGED <<api, queue, session, rowVars, storeVars>>

\* job.result = {**job.result, "artifacts": artifact_refs}
LinkArtifacts(j) ==
    /\ worker[j] = "persist"
    /\ session[j].todo = {}
    /\ worker' = [worker EXCEPT ![j] = "commit"]
    /\ session' = [session EXCEPT ![j].result = "linked"]
    /\ UNCHANGED <<api, queue, rowVars, storeVars>>

\* The object store cannot be built, or the RQ timeout strikes outside an
\* upload while the session can still commit, possibly between the storing of
\* an object and the flush of its row.
PersistRaises(j) ==
    /\ worker[j] \in {"persist", "commit"}
    /\ ~IsInline(j)
    /\ worker' = [worker EXCEPT ![j] = "except"]
    /\ \/ UNCHANGED objects
       \/ /\ session[j].todo # {}
          /\ objects' = [objects EXCEPT ![j] = @ \cup {NextEntry(j)}]
    /\ UNCHANGED <<api, queue, session, rowVars, artifacts>>

\* What the session's commit writes to the row and to the artifact table.
FlushSession(j, s) ==
    /\ status' = [status EXCEPT ![j] = s]
    /\ result' = [result EXCEPT ![j] = IF session[j].result = "kept"
                                       THEN @ ELSE session[j].result]
    /\ links' = [links EXCEPT ![j] =
         IF session[j].result = "linked" THEN session[j].rows
         ELSE IF session[j].result = "kept" THEN @ ELSE {}]
    /\ notes' = [notes EXCEPT ![j] = session[j].notes]
    /\ artifacts' = [artifacts EXCEPT ![j] = session[j].rows]

\* The last commit: row, links and artifact rows in one transaction.
WorkerCommit(j) ==
    /\ worker[j] = "commit"
    /\ worker' = [worker EXCEPT ![j] = "return"]
    /\ FlushSession(j, session[j].status)
    /\ UNCHANGED <<api, queue, session, objects>>

\* `return job.result` reads the row again and leaves the try block.
WorkerReturn(j) ==
    /\ worker[j] = "return"
    /\ worker' = [worker EXCEPT ![j] = "done"]
    /\ CloseSession(j)
    /\ UNCHANGED <<api, queue, rowVars, storeVars>>

\* The RQ timeout strikes between that commit and the return: the except
\* branch then rewrites the status of a job that has already been published.
LateTimeout(j) ==
    /\ worker[j] = "return"
    /\ ~IsInline(j)
    /\ worker' = [worker EXCEPT ![j] = "recant"]
    /\ UNCHANGED <<api, queue, session, rowVars, storeVars>>

\* Mutant: the except branch sets the status and does not commit.
ExceptWithoutCommit(j) ==
    /\ worker[j] = "except"
    /\ worker' = [worker EXCEPT ![j] = "done"]
    /\ CloseSession(j)
    /\ UNCHANGED <<api, queue, rowVars, storeVars>>

\* except Exception: status failed, commit, raise.  The commit also carries
\* artifact rows that were flushed before the exception.
ExceptCommit(j) ==
    /\ worker[j] = "except"
    /\ worker' = [worker EXCEPT ![j] = "done"]
    /\ FlushSession(j, "failed")
    /\ CloseSession(j)
    /\ UNCHANGED <<api, queue, objects>>

RecantCommit(j) ==
    /\ worker[j] = "recant"
    /\ worker' = [worker EXCEPT ![j] = "done"]
    /\ status' = [status EXCEPT ![j] = "failed"]
    /\ CloseSession(j)
    /\ UNCHANGED <<api, queue, result, links, notes, storeVars>>

\* Crash of the process, the RQ timeout before the try block, or a database
\* error (a failed flush leaves the session unusable, so that the except
\* branch raises as well).  The transaction is rolled back; objects stay.  RQ
\* has no retry configured: the job goes to its failed registry, the row is
\* left as it is.
WorkerDies(j) ==
    /\ worker[j] \in Active
    /\ worker' = [worker EXCEPT ![j] = "dead"]
    /\ CloseSession(j)
    /\ UNCHANGED <<api, queue, rowVars, storeVars>>

-----------------------------------------------------------------------------
RequestStep(j) == PushToRedis(j) \/ PushWithLostReply(j) \/ RecordRqId(j)

WorkerStep(j) ==
    \/ WorkerStart(j) \/ RunBenchmark(j) \/ UploadEntry(j) \/ UploadFails(j)
    \/ LinkArtifacts(j) \/ WorkerCommit(j) \/ WorkerReturn(j)
    \/ ExceptCommit(j) \/ RecantCommit(j)

Fault(j) == RequestFails(j) \/ RunRaises(j) \/ PersistRaises(j)
            \/ LateTimeout(j) \/ WorkerDies(j)

Submit(j) == CommitQueuedRow(j) \/ FakeJob(j) \/ StartInline(j)

Next == \E j \in Jobs :
    Submit(j) \/ RequestStep(j) \/ Dequeue(j) \/ WorkerStep(j) \/ Fault(j)

Spec == Init /\ [][Next]_vars

\* The event loop and the workers keep running, and every remote command has
\* a timeout, so each of their steps is taken once it stays possible.
Fairness == \A j \in Jobs :
    WF_vars(RequestStep(j)) /\ WF_vars(Dequeue(j)) /\ WF_vars(WorkerStep(j))

FairSpec == Spec /\ Fairness

-----------------------------------------------------------------------------
(* Properties.                                                              *)

Elements(q) == {q[i] : i \in 1..Len(q)}
NoRepeats(q) == \A i, k \in 1..Len(q) : q[i] = q[k] => i = k

Queued == Elements(queue)

\* A job id is delivered at most once, and never before its row is committed
\* and visible as queued: no second worker repeats a benchmark, and no worker
\* meets "job not found" (worker_tasks.py).
QueueDeliversOnce ==
    /\ NoRepeats(queue)
    /\ \A j \in Queued : worker[j] = "none" /\ status[j] = "queued"

\* A row that says queued or running has somebody who will finish it, or a
\* request or process that visibly failed: no fault-free schedule of handler,
\* queue and worker strands a job.
InFlight(j) == api[j] = "enqueue" \/ j \in Queued \/ worker[j] \in Active

NoRowStrandedWithoutAFault ==
    \A j \in Jobs : status[j] \in {"queued", "running"} =>
        InFlight(j) \/ worker[j] = "dead" \/ api[j] = "error"

\* Every artifact a job links to is a committed row, and the object it names
\* was stored before: a reader never follows a link into nothing.
LinkedArtifactsAreStored ==
    \A j \in Jobs : links[j] \subseteq artifacts[j]
                    /\ artifacts[j] \subseteq objects[j]

\* "If object storage is unavailable, the benchmark result is preserved and
\* the artifact upload failure is appended to the job logs" (docs/api.md):
\* whenever a job carries links, each non-empty entry of the remote result is
\* linked or its failed upload is in the logs.
NoSilentLoss ==
    \A j \in Jobs : result[j] = "linked" =>
        session[j].content = links[j] \cup notes[j]

\* An artifact row that its job does not link can only come from a job that
\* failed while persisting, or whose result the request handler overwrote.
UnlinkedArtifactsAreExplained ==
    \A j \in Jobs : artifacts[j] \subseteq links[j]
                    \/ status[j] = "failed" \/ result[j] = "rq_id"

\* "Remote benchmark logs and raw result text are uploaded as best-effort S3
\* artifacts and linked from the job result" (docs/api.md): what was uploaded
\* for a succeeded job is linked from it.
UploadedIsLinked ==
    \A j \in Jobs : status[j] = "succeeded" => artifacts[j] \subseteq links[j]

\* A job that was queued reaches a final status unless its request or its
\* process failed: no job starves behind others in the queue.
EveryQueuedJobEnds ==
    \A j \in Jobs : status[j] = "queued" ~>
        status[j] \in Terminal \/ worker[j] = "dead" \/ api[j] = "error"

\* The job keeps the promise of JobLifecycle.
Lifecycle == INSTANCE JobLifecycle
ImplementsLifecycle == Lifecycle!Spec

=============================================================================
