------------------------------ MODULE SshStream ------------------------------
(***************************************************************************)
(* AsyncSSHExecutor.stream (executor.py 274-332): one remote command whose  *)
(* output lines are passed on while they arrive.  The coroutine waits, with  *)
(* a timeout, for the channel to close; two tasks meanwhile read stdout and  *)
(* stderr, and call on_line for each line.  Both share the event loop, so    *)
(* that every step between two awaits is atomic.                             *)
(*                                                                          *)
(* External: asyncssh and the SSH server.  The session buffers what has      *)
(* arrived and stops receiving while Window lines have not been read; the    *)
(* close of the channel comes behind the data.  When the connection breaks,  *)
(* a reader gets the lines received so far and then an exception.            *)
(***************************************************************************)
EXTENDS Naturals

CONSTANTS
    MaxLines,   \* bound: lines the command writes to each stream
    Window      \* unread lines at which the session stops receiving

ASSUME LinesAssumption == MaxLines \in Nat /\ Window \in Nat \ {0}

Streams == {"stdout", "stderr"}

VARIABLES
    pc,         \* the next await of the coroutine
    code,       \* the exit code it has answered
    reader,     \* the two tasks
    read,       \* lines they have read and passed to on_line
    received,   \* lines of each stream that have arrived
    channel,    \* as the client sees it
    killed,     \* process.kill() was sent
    process, written    \* the remote command and the lines it has written

client == <<pc, code, reader, read>>
remote == <<process, written>>
vars == <<client, received, channel, killed, remote>>

TypeOK ==
    /\ pc \in {"idle", "wait", "gather", "kill", "returned", "dropped"}
    /\ code \in {"none", "zero", "nonzero", "124", "255"}
    /\ reader \in [Streams -> {"none", "reading", "ended", "raised", "cancelled"}]
    /\ written \in [Streams -> 0 .. MaxLines]
    /\ received \in [Streams -> 0 .. MaxLines]
    /\ read \in [Streams -> 0 .. MaxLines]
    /\ channel \in {"none", "open", "closed", "lost"}
    /\ killed \in BOOLEAN
    /\ process \in {"none", "running", "ok", "failed"}

Init ==
    /\ pc = "idle"
    /\ code = "none"
    /\ reader = [s \in Streams |-> "none"]
    /\ read = [s \in Streams |-> 0]
    /\ received = [s \in Streams |-> 0]
    /\ channel = "none"
    /\ killed = FALSE
    /\ process = "none"
    /\ written = [s \in Streams |-> 0]

Answer(c) == pc' = "returned" /\ code' = c

-----------------------------------------------------------------------------
(* The remote command, the SSH server and the network.                      *)

Write(s) ==
    /\ process = "running"
    /\ written[s] < MaxLines
    /\ written' = [written EXCEPT ![s] = @ + 1]
    /\ UNCHANGED <<client, received, channel, killed, process>>

Exit ==
    /\ process = "running"
    /\ process' \in {"ok", "failed"}
    /\ UNCHANGED <<client, received, channel, killed, written>>

\* Room in the session's buffer, which the two streams share.
Room == received["stdout"] - read["stdout"] + received["stderr"] - read["stderr"]
        < Window

Receive(s) ==
    /\ channel = "open" /\ Room
    /\ received[s] < written[s]
    /\ received' = [received EXCEPT ![s] = @ + 1]
    /\ UNCHANGED <<client, channel, killed, remote>>

CloseChannel ==
    /\ channel = "open" /\ Room
    /\ process \in {"ok", "failed"}
    /\ received = written
    /\ channel' = "closed"
    /\ UNCHANGED <<client, received, killed, remote>>

\* The connection breaks, also over a line that is not UTF-8.
Break ==
    /\ channel = "open"
    /\ channel' = "lost"
    /\ UNCHANGED <<client, received, killed, remote>>

SignalArrives ==
    /\ killed
    /\ channel = "open" /\ process = "running"
    /\ process' = "failed"
    /\ UNCHANGED <<client, received, channel, killed, written>>

-----------------------------------------------------------------------------
(* The coroutine and its two tasks.                                         *)

\* Connection, create_process, and the two create_task.
Start ==
    /\ pc = "idle"
    /\ pc' = "wait"
    /\ reader' = [s \in Streams |-> "reading"]
    /\ channel' = "open"
    /\ process' = "running"
    /\ UNCHANGED <<code, read, received, killed, written>>

Unreachable ==
    /\ pc = "idle"
    /\ Answer("255")
    /\ UNCHANGED <<reader, read, received, channel, killed, remote>>

\* read_lines: sink.append and on_line.
ReadLine(s) ==
    /\ reader[s] = "reading"
    /\ read[s] < received[s]
    /\ read' = [read EXCEPT ![s] = @ + 1]
    /\ UNCHANGED <<pc, code, reader, received, channel, killed, remote>>

ReaderEnds(s) ==
    /\ reader[s] = "reading"
    /\ channel # "open" /\ read[s] = received[s]
    /\ reader' = [reader EXCEPT ![s] =
                    IF channel = "closed" THEN "ended" ELSE "raised"]
    /\ UNCHANGED <<pc, code, read, received, channel, killed, remote>>

\* process.wait_closed() comes back.
WaitClosed ==
    /\ pc = "wait"
    /\ channel # "open"
    /\ pc' = "gather"
    /\ UNCHANGED <<code, reader, read, received, channel, killed, remote>>

\* Mutant: the readers are cancelled together with the command.
TimeoutCancelsReaders ==
    /\ pc = "wait"
    /\ pc' = "kill" /\ killed' = TRUE
    /\ reader' = [s \in Streams |-> "cancelled"]
    /\ UNCHANGED <<code, read, received, channel, remote>>

\* wait_for raises: process.kill(), which a closed channel may refuse (OSError).
TimesOut ==
    /\ pc = "wait"
    /\ \/ pc' = "kill" /\ killed' = TRUE /\ UNCHANGED code
       \/ channel # "open" /\ Answer("255") /\ UNCHANGED killed
    /\ UNCHANGED <<reader, read, received, channel, remote>>

\* Mutant: the readers are left alone.
DrainedWithReaders ==
    /\ pc = "kill"
    /\ channel # "open"
    /\ Answer("124")
    /\ UNCHANGED <<reader, read, received, channel, killed, remote>>

\* The second wait_closed(), without a timeout, then cancel() of both tasks.
Drained ==
    /\ pc = "kill"
    /\ channel # "open"
    /\ Answer("124")
    /\ reader' = [s \in Streams |-> IF reader[s] = "reading" THEN "cancelled"
                                    ELSE reader[s]]
    /\ UNCHANGED <<read, received, channel, killed, remote>>

\* Mutant: the answer does not wait for the readers.
ReturnUngathered ==
    /\ pc = "gather"
    /\ channel = "closed"
    /\ Answer(IF process = "ok" THEN "zero" ELSE "nonzero")
    /\ UNCHANGED <<reader, read, received, channel, killed, remote>>

\* Mutant: a status that never arrived counts as 0.
GatherWithoutStatus ==
    /\ pc = "gather"
    /\ \A s \in Streams : reader[s] \in {"ended", "raised"}
    /\ Answer(IF process = "failed" THEN "nonzero" ELSE "zero")
    /\ UNCHANGED <<reader, read, received, channel, killed, remote>>

\* gather of the two tasks: the exit status of the command.
Gathered ==
    /\ pc = "gather"
    /\ \A s \in Streams : reader[s] = "ended"
    /\ Answer(IF process = "ok" THEN "zero" ELSE "nonzero")
    /\ UNCHANGED <<reader, read, received, channel, killed, remote>>

\* gather raises with the first task that raised; the other one goes on.
GatherRaises ==
    /\ pc = "gather"
    /\ \E s \in Streams : reader[s] = "raised"
    /\ Answer("255")
    /\ UNCHANGED <<reader, read, received, channel, killed, remote>>

\* The caller is cancelled at an await: the connection is closed on the way out.
Cancel ==
    /\ pc \in {"wait", "gather", "kill"}
    /\ pc' = "dropped"
    /\ channel' = IF channel = "open" THEN "lost" ELSE channel
    /\ UNCHANGED <<code, reader, read, received, killed, remote>>

-----------------------------------------------------------------------------
Coroutine == WaitClosed \/ TimesOut \/ Drained \/ Gathered \/ GatherRaises
Reader(s) == ReadLine(s) \/ ReaderEnds(s)
Server == SignalArrives \/ CloseChannel \/ \E s \in Streams : Receive(s)
Environment == \/ Start \/ Unreachable \/ Exit \/ Break \/ Cancel
               \/ \E s \in Streams : Write(s)

Next == Coroutine \/ Server \/ Environment \/ \E s \in Streams : Reader(s)

Spec == Init /\ [][Next]_vars

\* The event loop runs what is ready, and the timeout expires.  Of the server
\* it is assumed that it forwards data and signals and closes the channel of a
\* command that has ended, as long as the connection holds.
FairSpec == /\ Spec
            /\ WF_vars(Coroutine) /\ WF_vars(Server)
            /\ \A s \in Streams : WF_vars(Reader(s))

-----------------------------------------------------------------------------
(* Properties.                                                              *)

\* An answer that carries the exit status of the command comes after every
\* line of it, of both streams, has been passed on.
AnswerComesAfterTheLog ==
    code \in {"zero", "nonzero"} => read = written

\* Once such an answer, or that of a timeout, is given, no line is added to
\* the log: the caller reads the list while nobody appends to it.  (After a
\* broken connection the slower reader may still add some.)
LogIsFrozen ==
    [][(code \in {"zero", "nonzero", "124"}) => read' = read]_vars

\* However much the command writes, and to whichever stream, the call comes
\* back: buffers that fill up block neither the close nor the kill.
StreamComesBack == pc = "wait" ~> pc \in {"returned", "dropped"}

\* The stream keeps the promise of StreamCall.
Contract == INSTANCE StreamCall WITH
    call <- CASE pc = "idle" -> "idle"
              [] pc \in {"wait", "gather"} -> "waiting"
              [] pc = "kill" -> "draining"
              [] OTHER -> pc,
    code <- IF code \in {"124", "255"} THEN "nonzero" ELSE code

ImplementsStreamCall == Contract!Spec

=============================================================================
