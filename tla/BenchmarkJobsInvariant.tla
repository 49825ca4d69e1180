----------------------- MODULE BenchmarkJobsInvariant -----------------------
(***************************************************************************)
(* The inductive invariant of BenchmarkJobs.  The properties of interest    *)
(* relate the committed row to what others can still do to it; they become  *)
(* inductive once it is known, for each position of the request handler and *)
(* of the worker, which status the row has and what the session holds.      *)
(***************************************************************************)
EXTENDS BenchmarkJobs

\* Where the handler of a remote_rq request has got to.
Enqueued(j) == api[j] \in {"record", "done", "error"}

\* The row and the worker, by the position of the request handler.
HandlerInv(j) ==
    /\ api[j] = "idle" =>
         worker[j] = "none" /\ status[j] = "absent" /\ result[j] = "empty"
    /\ api[j] = "enqueue" => worker[j] = "none" /\ status[j] = "queued"
    /\ api[j] = "fake" => worker[j] = "none" /\ status[j] \in Terminal
    /\ api[j] = "inline" =>
         worker[j] \in {"running", "persist", "commit", "return", "done", "dead"}
    /\ Enqueued(j) => status[j] # "absent"
    /\ Enqueued(j) /\ worker[j] = "none" =>
         status[j] = "queued" /\ (j \in Queued \/ api[j] = "error")

\* The row, by the position of the worker.
WorkerInv(j) ==
    /\ worker[j] = "dequeued" => status[j] = "queued"
    /\ worker[j] \in {"running", "persist", "commit", "except"} =>
         status[j] = IF IsInline(j) THEN "absent" ELSE "running"
    /\ worker[j] \in {"return", "recant", "done"} => status[j] \in Terminal

\* Nothing is published before the final status.
StoreInv(j) ==
    /\ links[j] \subseteq artifacts[j]
    /\ artifacts[j] \subseteq objects[j]
    /\ session[j].rows \subseteq objects[j]
    /\ status[j] \notin Terminal =>
         /\ links[j] = {}
         /\ artifacts[j] = {}
         /\ result[j] \in {"empty", "rq_id"}
    /\ \/ artifacts[j] \subseteq links[j]
       \/ status[j] = "failed"
       \/ result[j] = "rq_id"

\* The loop over the entries of the remote result accounts for each of them.
SessionInv(j) ==
    /\ worker[j] = "persist" =>
         /\ session[j].content =
              session[j].rows \cup session[j].notes \cup session[j].todo
         /\ session[j].result = "remote"
    /\ worker[j] = "commit" => session[j].result = "linked"
    /\ session[j].result = "linked" =>
         session[j].content = session[j].rows \cup session[j].notes
    /\ result[j] = "linked" => session[j].content = links[j] \cup notes[j]

IInv ==
    /\ TypeOK
    /\ QueueDeliversOnce
    /\ \A j \in Queued : Enqueued(j)
    /\ \A j \in Jobs : /\ HandlerInv(j)
                       /\ WorkerInv(j)
                       /\ StoreInv(j)
                       /\ SessionInv(j)

=============================================================================
