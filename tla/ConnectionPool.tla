--------------------------- MODULE ConnectionPool ---------------------------
(***************************************************************************)
(* Requests, the event loop, the worker threads and the database connections *)
(* they share (db/session.py:15-55; the handlers of api/v1.py).              *)
(*                                                                          *)
(* A session takes a connection with its first statement and keeps it until   *)
(* commit or close; the refresh after a commit takes one again.  The engine   *)
(* has a bounded pool, and whoever finds it empty blocks for up to 30 s.       *)
(* Synchronous handlers block a worker thread.  Asynchronous ones (probe,     *)
(* discovery, bootstrap, distribution, inline benchmark) run on the event     *)
(* loop: they block everything that needs it, and keep their connection while *)
(* they await SSH.                                                            *)
(*                                                                          *)
(* get_session is a synchronous generator: when a handler is through, the     *)
(* loop hands its finally clause to a thread (not one of the worker threads),  *)
(* which returns the connection, and the loop then ends the request.          *)
(***************************************************************************)
EXTENDS FiniteSets, Naturals

CONSTANTS
    SyncRequests, AsyncRequests,
    PoolSize,       \* pool_size + max_overflow, 15 by default
    Threads,        \* worker threads, 40 by default
    Free

Requests == SyncRequests \cup AsyncRequests

ASSUME PoolAssumption ==
    /\ PoolSize \in Nat \ {0} /\ Threads \in Nat \ {0}
    /\ SyncRequests \cap AsyncRequests = {} /\ Free \notin Requests
    /\ IsFiniteSet(Requests)

VARIABLES
    pc,
    held,       \* requests that hold a connection
    loop,       \* the asynchronous request that blocks the event loop, or Free
    crowded     \* history: more sessions in use than connections

vars == <<pc, held, loop, crowded>>

\* begin: waits for its first connection; work: runs in a thread; ssh, resume:
\* awaits SSH, has its result; refresh: committed, waits for a connection again;
\* ok, failed: the handler is through, has raised; closing, closed: a thread
\* closes the session, has closed it.
Stages == {"new", "begin", "work", "ssh", "resume", "refresh", "ok", "failed",
           "closing", "closed", "answered"}

TypeOK ==
    /\ pc \in [Requests -> Stages]
    /\ held \subseteq Requests
    /\ Cardinality(held) <= PoolSize
    /\ loop \in AsyncRequests \cup {Free}
    /\ crowded \in BOOLEAN

Init ==
    /\ pc = [r \in Requests |-> "new"]
    /\ held = {}
    /\ loop = Free
    /\ crowded = FALSE

InFlight == {r \in Requests : pc[r] \notin {"new", "closed", "answered"}}
InThread == {r \in SyncRequests : pc[r] \in {"begin", "work", "refresh"}}
Empty == Cardinality(held) = PoolSize

Goto(r, stage) == pc' = [pc EXCEPT ![r] = stage]

-----------------------------------------------------------------------------
\* The loop accepts a request.  A thread opens its session, and runs the
\* handler if it is synchronous; an asynchronous one runs on the loop.
Accept(r) ==
    /\ pc[r] = "new"
    /\ loop = Free /\ Cardinality(InThread) < Threads
    /\ Goto(r, "begin")
    /\ loop' = IF r \in AsyncRequests THEN r ELSE Free
    /\ crowded' = (crowded \/ Cardinality(InFlight) >= PoolSize)
    /\ UNCHANGED held

\* The first statement of the session, and the refresh after its commit.
Connect(r) ==
    /\ ~Empty
    /\ held' = held \cup {r}
    /\ \/ /\ pc[r] = "begin"
          /\ Goto(r, IF r \in SyncRequests THEN "work" ELSE "ssh")
       \/ /\ pc[r] = "refresh"
          /\ Goto(r, "ok")
    /\ loop' = IF loop = r THEN Free ELSE loop
    /\ UNCHANGED crowded

\* Mutant: the pool waits without a limit.
NeverTimesOut(r) == FALSE /\ UNCHANGED vars

\* Mutant: the error of the refresh is swallowed.
TimesOutUnnoticed(r) ==
    /\ Empty
    /\ pc[r] \in {"begin", "refresh"}
    /\ Goto(r, IF pc[r] = "begin" THEN "failed" ELSE "ok")
    /\ loop' = IF loop = r THEN Free ELSE loop
    /\ UNCHANGED <<held, crowded>>

\* pool_timeout: the statement raises.  After a commit the request fails all
\* the same.
TimesOut(r) ==
    /\ Empty
    /\ pc[r] \in {"begin", "refresh"}
    /\ Goto(r, "failed")
    /\ loop' = IF loop = r THEN Free ELSE loop
    /\ UNCHANGED <<held, crowded>>

\* In its thread, or on the loop; a dry run awaits nothing in between.
Runs(r) == pc[r] = "work" \/ (pc[r] = "resume" /\ loop = Free)

\* Mutant: the refresh comes on a second connection.
CommitKeepsConnection(r) ==
    /\ Runs(r)
    /\ Goto(r, "refresh")
    /\ loop' = IF r \in AsyncRequests THEN r ELSE loop
    /\ UNCHANGED <<held, crowded>>

\* The commit returns the connection; the refresh follows.
Commit(r) ==
    /\ Runs(r)
    /\ held' = held \ {r}
    /\ Goto(r, "refresh")
    /\ loop' = IF r \in AsyncRequests THEN r ELSE loop
    /\ UNCHANGED crowded

\* A handler that only reads, or raises, goes to its end with its connection.
ReadOnly(r) ==
    /\ Runs(r)
    /\ Goto(r, "ok")
    /\ UNCHANGED <<held, loop, crowded>>

\* An SSH command answers or times out.  A stream that timed out waits for its
\* channel to close, and that may be for ever.
SshAnswers(r) ==
    /\ pc[r] = "ssh"
    /\ Goto(r, "resume")
    /\ UNCHANGED <<held, loop, crowded>>

\* The loop hears that the handler is through and has a thread close the
\* session.
Exit(r) ==
    /\ pc[r] \in {"ok", "failed"}
    /\ loop = Free
    /\ Goto(r, "closing")
    /\ UNCHANGED <<held, loop, crowded>>

\* get_session's finally clause, in a thread: also while the loop is blocked.
Close(r) ==
    /\ pc[r] = "closing"
    /\ held' = held \ {r}
    /\ Goto(r, "closed")
    /\ UNCHANGED <<loop, crowded>>

Answer(r) ==
    /\ pc[r] = "closed"
    /\ loop = Free
    /\ Goto(r, "answered")
    /\ UNCHANGED <<held, loop, crowded>>

Proceed(r) == \/ Accept(r) \/ Connect(r) \/ TimesOut(r) \/ Commit(r)
              \/ ReadOnly(r) \/ Exit(r) \/ Close(r) \/ Answer(r)

Step(r) == Proceed(r) \/ SshAnswers(r)

Next == \E r \in Requests : Step(r)

Spec == Init /\ [][Next]_vars

\* Threads and the loop keep running, and the pool's timeout expires.  Nothing
\* makes a machine answer.
Fairness == \A r \in Requests : WF_vars(Proceed(r))

FairSpec == Spec /\ Fairness

-----------------------------------------------------------------------------
\* A request blocks the loop and every connection belongs to a request that
\* cannot go on without the loop.
Stalled(r) ==
    /\ loop = r /\ pc[r] \in {"begin", "refresh"} /\ Empty
    /\ \A o \in held : pc[o] \in {"ssh", "resume", "ok"}

\* Everyone waits for everyone: once it is stalled, the loop becomes free only
\* by the timeout of the request that blocks it, which therefore fails.  (A
\* session that a thread is already closing prevents a stall.)
OnlyTheTimeoutEndsAStall ==
    [][\A r \in AsyncRequests :
         Stalled(r) => Stalled(r)' \/ pc'[r] = "failed"]_vars

\* A request whose next step needs neither the pool's timeout nor the answer of
\* a machine, nor anything that another request has.
GoesOn(r) ==
    \/ pc[r] \in {"work", "closing"}
    \/ pc[r] \in {"begin", "refresh"} /\ ~Empty
    \/ pc[r] \in {"resume", "ok", "failed", "closed"} /\ loop = Free
    \/ pc[r] = "new" /\ loop = Free /\ Cardinality(InThread) < Threads

\* Loop, threads and connections are waited for in a circle in one way only,
\* which is a stall.  Otherwise a standstill is owed to machines: they are all
\* that is waited for, or the requests that wait for them have every connection.
StandstillIsExplained ==
    (\A r \in Requests : ~GoesOn(r)) =>
        \/ \E r \in AsyncRequests : Stalled(r)
        \/ \A r \in Requests : pc[r] \in {"ssh", "answered"}
        \/ loop = Free /\ Empty /\ \A r \in held : pc[r] = "ssh"

\* As long as there are no more sessions in use than connections nobody is
\* refused: no request needs a second one, and each gives its own back, also
\* after an error.
RefusedOnlyWhenCrowded ==
    (\E r \in Requests : pc[r] = "failed") => crowded

\* Whatever blocks, a request is answered in the end unless its own machine
\* never answers.  Those that wait for such machines keep their connections,
\* and still hold nobody up for ever.
EveryRequestIsAnswered ==
    \A r \in Requests : <>(pc[r] = "answered") \/ <>[](pc[r] = "ssh")
=============================================================================
