------------------------- MODULE RemoteRunsInvariant -------------------------
(***************************************************************************)
(* The inductive invariant of RemoteRuns.  A leak is explained and a result *)
(* is the run's own because of where each run has got to, which server owns *)
(* the port, and what being alone on the machine excludes.                  *)
(***************************************************************************)
EXTENDS RemoteRuns

Early == {"idle", "mkdir", "start", "warmup", "bench"}
AfterStart == {"stream", "drain", "kill", "unwind", "cat"}
InCharge == {"warmup", "bench", "stream", "drain", "kill", "unwind"}

\* The server of a run, by the position of the run.
ServerInv(r) ==
    /\ pc[r] \in {"idle", "mkdir", "start"} => server[r] = "none"
    /\ pc[r] \in {"start", "warmup"} => r \in Serving
    /\ Alive(r) <=> port = r
    /\ Alive(r) => r \in Serving
    /\ server[r] = "up" =>
         pc[r] \in InCharge \/ lost[r] \cap {"start", "kill", "abort"} # {}

\* A run that has been alone so far has nobody beside it.
AloneInv(r) ==
    alone[r] /\ pc[r] \in Live => \A o \in Runs \ {r} : ~Busy(o)

\* What the run is about to report.
ReportInv(r) ==
    /\ pc[r] \in Early => bench[r] = "none" /\ outcome[r] # "succeeded"
    /\ pc[r] \in {"stream", "drain"} => outcome[r] # "succeeded"
    /\ pc[r] # "done" => raw[r] = NoRun
    /\ bench[r] # "none" /\ r \notin Serving => target[r] = r
    /\ r \notin Piped =>
         /\ outcome[r] = "succeeded" /\ pc[r] \in {"kill", "cat"} =>
              bench[r] = "ok"
         /\ alone[r] /\ bench[r] = "ok" /\ pc[r] \in AfterStart =>
              target[r] = r /\ file[PathOf[r]] = r
         /\ alone[r] /\ outcome[r] = "succeeded" /\ pc[r] = "done" =>
              target[r] = r /\ raw[r] \in {r, NoRun}

\* What the run's call of stream has answered so far.
CallInv(r) ==
    /\ pc[r] \in Early => bench[r] = "none" /\ outcome[r] = "none"
    /\ pc[r] \in {"stream", "drain"} => bench[r] # "none"
    /\ pc[r] = "drain" => outcome[r] = "failed"
    /\ pc[r] \in {"kill", "cat", "done"} => outcome[r] # "none"
    /\ pc[r] \in {"stream", "unwind", "aborted"} => outcome[r] = "none"

RunInv ==
    /\ TypeOK
    /\ \A r \in Runs : ServerInv(r) /\ AloneInv(r) /\ ReportInv(r)

=============================================================================
