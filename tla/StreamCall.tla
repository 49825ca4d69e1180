----------------------------- MODULE StreamCall -----------------------------
(***************************************************************************)
(* What a caller of RemoteExecutor.stream (executor.py) may rely on, for    *)
(* one remote command.  The answer is zero only for a command that ended     *)
(* with success.  Any other answer says little: the command was not sent,    *)
(* it failed, the connection broke, or it was killed after its timeout, and  *)
(* it may still be running.  After the timeout the caller waits for the      *)
(* other side without a limit (draining).                                    *)
(***************************************************************************)
VARIABLES
    call,       \* idle, waiting, draining, returned, or dropped by its caller
    process,    \* the remote command: none, running, ok, failed
    code        \* the answer: none, zero, nonzero

vars == <<call, process, code>>

Ended == {"ok", "failed"}

Init == call = "idle" /\ process = "none" /\ code = "none"

Send ==
    /\ call = "idle" /\ process = "none"
    /\ call' = "waiting" /\ process' = "running"
    /\ UNCHANGED code

\* The remote command ends, whether or not somebody still listens.
End ==
    /\ process = "running"
    /\ process' \in Ended
    /\ UNCHANGED <<call, code>>

Answer(c) == call' = "returned" /\ code' = c

Return ==
    /\ call = "waiting" /\ process \in Ended
    /\ Answer(IF process = "ok" THEN "zero" ELSE "nonzero")
    /\ UNCHANGED process

\* Nothing was sent, or the connection broke.
Break ==
    /\ call \in {"idle", "waiting"}
    /\ Answer("nonzero")
    /\ UNCHANGED process

TimeOut ==
    /\ call = "waiting"
    /\ call' = "draining"
    /\ UNCHANGED <<process, code>>

\* The channel is closed: the command was killed, or the connection is gone.
Drain ==
    /\ call = "draining"
    /\ Answer("nonzero")
    /\ \/ UNCHANGED process
       \/ process = "running" /\ process' \in Ended

\* The caller is cancelled, or its process dies.
Drop ==
    /\ call # "dropped"
    /\ call' = "dropped" /\ code' = "none"
    /\ UNCHANGED process

Next == Send \/ End \/ Return \/ Break \/ TimeOut \/ Drain \/ Drop

Spec == Init /\ [][Next]_vars

=============================================================================
