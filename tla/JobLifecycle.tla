---------------------------- MODULE JobLifecycle ----------------------------
(***************************************************************************)
(* What a benchmark job promises to a client that polls                     *)
(* GET /api/v1/jobs/{id}: the status moves forward only, the artifact links *)
(* a job shows were published together with its final status, and they name *)
(* artifact rows that exist.  The two ways in which the implementation is   *)
(* weaker than a plain state machine are spelled out as actions: a late     *)
(* timeout may turn a published success into a failure (Recant), and the    *)
(* request handler that enqueued the job may drop the links (DropLinks).    *)
(***************************************************************************)
CONSTANTS Jobs, Kinds

VARIABLES status, links, artifacts

vars == <<status, links, artifacts>>

Terminal == {"succeeded", "failed"}
Status == {"absent", "queued", "running"} \cup Terminal

TypeOK ==
    /\ status \in [Jobs -> Status]
    /\ links \in [Jobs -> SUBSET Kinds]
    /\ artifacts \in [Jobs -> SUBSET Kinds]

Init ==
    /\ status = [j \in Jobs |-> "absent"]
    /\ links = [j \in Jobs |-> {}]
    /\ artifacts = [j \in Jobs |-> {}]

Create(j) ==
    /\ status[j] = "absent"
    /\ status' = [status EXCEPT ![j] = "queued"]
    /\ UNCHANGED <<links, artifacts>>

Start(j) ==
    /\ status[j] = "queued"
    /\ status' = [status EXCEPT ![j] = "running"]
    /\ UNCHANGED <<links, artifacts>>

\* A worker finishes a running job; an inline or fake job appears finished.
Finish(j) ==
    /\ status[j] \in {"absent", "running"}
    /\ \E s \in Terminal, published, linked \in SUBSET Kinds :
         /\ linked \subseteq published
         /\ s = "succeeded" => linked = published
         /\ status' = [status EXCEPT ![j] = s]
         /\ links' = [links EXCEPT ![j] = linked]
         /\ artifacts' = [artifacts EXCEPT ![j] = published]

Recant(j) ==
    /\ status[j] \in Terminal
    /\ status' = [status EXCEPT ![j] = "failed"]
    /\ UNCHANGED <<links, artifacts>>

DropLinks(j) ==
    /\ status[j] # "absent"
    /\ links' = [links EXCEPT ![j] = {}]
    /\ UNCHANGED <<status, artifacts>>

Next == \E j \in Jobs :
    Create(j) \/ Start(j) \/ Finish(j) \/ Recant(j) \/ DropLinks(j)

Spec == Init /\ [][Next]_vars

=============================================================================
