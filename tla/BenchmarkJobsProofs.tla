------------------------ MODULE BenchmarkJobsProofs ------------------------
(***************************************************************************)
(* Proofs about BenchmarkJobs, for every set of jobs and every number of    *)
(* workers.                                                                 *)
(***************************************************************************)
EXTENDS BenchmarkJobsInvariant, FiniteSetTheorems, TLAPS

-----------------------------------------------------------------------------
(* The Redis list.                                                          *)

\* Pushing an id that is not in the list adds it and repeats nothing
\* (RQQueue.enqueue_importable pushes each job once).
LEMMA PushElements ==
    ASSUME NEW q \in Seq(Jobs), NEW j \in Jobs
    PROVE  /\ Append(q, j) \in Seq(Jobs)
           /\ Elements(Append(q, j)) = Elements(q) \cup {j}
           /\ j \notin Elements(q) /\ NoRepeats(q) => NoRepeats(Append(q, j))
<1> DEFINE p == Append(q, j)
<1>1. /\ p \in Seq(Jobs)
      /\ Len(p) = Len(q) + 1
      /\ \A i \in 1..Len(q) : p[i] = q[i]
      /\ p[Len(q) + 1] = j
      /\ Len(q) \in Nat
  OBVIOUS
<1>2. Elements(p) = Elements(q) \cup {j}
  <2>1. ASSUME NEW x \in Elements(p) PROVE x \in Elements(q) \cup {j}
    BY <1>1, <2>1 DEF Elements
  <2>2. ASSUME NEW x \in Elements(q) PROVE x \in Elements(p)
    BY <1>1, <2>2 DEF Elements
  <2>3. j \in Elements(p)
    <3>1. Len(q) + 1 \in 1..Len(p)
      BY <1>1
    <3> QED BY <3>1, <1>1 DEF Elements
  <2> QED BY <2>1, <2>2, <2>3
<1>3. j \notin Elements(q) /\ NoRepeats(q) => NoRepeats(p)
  <2> SUFFICES ASSUME j \notin Elements(q), NoRepeats(q),
                      NEW i \in 1..Len(p), NEW k \in 1..Len(p), p[i] = p[k]
               PROVE  i = k
    BY DEF NoRepeats
  <2>1. \A n \in 1..Len(q) : q[n] # j
    BY DEF Elements
  <2> QED BY <1>1, <2>1 DEF NoRepeats
<1> QED BY <1>1, <1>2, <1>3

\* Popping the head removes exactly that id from a list without repetitions.
LEMMA PopElements ==
    ASSUME NEW q \in Seq(Jobs), q # <<>>, NoRepeats(q)
    PROVE  /\ Head(q) \in Jobs
           /\ Tail(q) \in Seq(Jobs)
           /\ Head(q) \in Elements(q)
           /\ Elements(Tail(q)) = Elements(q) \ {Head(q)}
           /\ NoRepeats(Tail(q))
<1> DEFINE t == Tail(q)
<1>1. /\ Len(q) \in Nat \ {0}
      /\ t \in Seq(Jobs)
      /\ Len(t) = Len(q) - 1
      /\ \A i \in 1..Len(t) : t[i] = q[i + 1]
      /\ Head(q) = q[1]
      /\ Head(q) \in Jobs
  OBVIOUS
<1>2. Head(q) \in Elements(q)
  BY <1>1 DEF Elements
<1>3. NoRepeats(t)
  <2> SUFFICES ASSUME NEW i \in 1..Len(t), NEW k \in 1..Len(t), t[i] = t[k]
               PROVE  i = k
    BY DEF NoRepeats
  <2>1. i + 1 \in 1..Len(q) /\ k + 1 \in 1..Len(q)
    BY <1>1
  <2>2. i + 1 = k + 1
    BY <1>1, <2>1 DEF NoRepeats
  <2> QED BY <2>2
<1>4. ASSUME NEW x \in Elements(t) PROVE x \in Elements(q) \ {Head(q)}
  <2>1. PICK i \in 1..Len(t) : x = t[i]
    BY <1>4 DEF Elements
  <2>2. i + 1 \in 1..Len(q) /\ 1 \in 1..Len(q) /\ i + 1 # 1
    BY <1>1
  <2>3. x = q[i + 1] /\ q[i + 1] # q[1]
    BY <1>1, <2>1, <2>2 DEF NoRepeats
  <2> QED BY <1>1, <2>2, <2>3 DEF Elements
<1>5. ASSUME NEW x \in Elements(q), x # Head(q) PROVE x \in Elements(t)
  <2>1. PICK i \in 1..Len(q) : x = q[i]
    BY <1>5 DEF Elements
  <2>2. i - 1 \in 1..Len(t) /\ (i - 1) + 1 = i
    BY <1>1, <1>5, <2>1
  <2>3. t[i - 1] = x
    BY <1>1, <2>1, <2>2
  <2> QED BY <2>2, <2>3 DEF Elements
<1> QED BY <1>1, <1>2, <1>3, <1>4, <1>5

-----------------------------------------------------------------------------
(* Type correctness.                                                        *)

\* The actions, taken apart once for all the case analyses below.
LEMMA NextCases ==
    ASSUME Next
    PROVE  \E j \in Jobs :
             \/ CommitQueuedRow(j) \/ FakeJob(j) \/ StartInline(j)
             \/ PushToRedis(j) \/ PushWithLostReply(j) \/ RecordRqId(j)
             \/ RequestFails(j) \/ Dequeue(j) \/ WorkerStart(j)
             \/ RunBenchmark(j) \/ RunRaises(j) \/ UploadEntry(j)
             \/ UploadFails(j) \/ LinkArtifacts(j) \/ PersistRaises(j)
             \/ WorkerCommit(j) \/ WorkerReturn(j) \/ LateTimeout(j)
             \/ ExceptCommit(j) \/ RecantCommit(j) \/ WorkerDies(j)
BY DEF Next, Submit, RequestStep, WorkerStep, Fault

\* What a commit writes has the type of its column.
LEMMA FlushType ==
    ASSUME TypeOK, NEW j \in Jobs, NEW s \in Terminal, FlushSession(j, s)
    PROVE  /\ status' \in [Jobs -> {"absent", "queued", "running"} \cup Terminal]
           /\ result' \in [Jobs -> {"empty", "rq_id", "remote", "linked", "fake"}]
           /\ links' \in [Jobs -> SUBSET Kinds]
           /\ notes' \in [Jobs -> SUBSET Kinds]
           /\ artifacts' \in [Jobs -> SUBSET Kinds]
<1>1. session[j] \in Session
  BY DEF TypeOK
<1>2. session[j].result \in {"kept", "remote", "linked"}
      /\ session[j].rows \in SUBSET Kinds /\ session[j].notes \in SUBSET Kinds
  BY <1>1 DEF Session
<1> QED BY <1>2 DEF TypeOK, FlushSession

\* A closed session is a session.
LEMMA CloseType ==
    ASSUME TypeOK, NEW j \in Jobs, CloseSession(j)
    PROVE  session' \in [Jobs -> Session]
<1>1. session[j] \in Session
  BY DEF TypeOK
<1>2. [FreshSession EXCEPT !.content = session[j].content] \in Session
  BY <1>1 DEF FreshSession, Session, Terminal
<1> QED BY <1>2 DEF CloseSession, TypeOK

\* The uploaded kind is one of the two kinds.
LEMMA NextEntryKind ==
    ASSUME NEW j \in Jobs PROVE NextEntry(j) \in Kinds
BY DEF NextEntry, Kinds

\* Every step keeps the type of every variable.
LEMMA TypeStep == TypeOK /\ QueueDeliversOnce /\ [Next]_vars => TypeOK'
<1> SUFFICES ASSUME TypeOK, QueueDeliversOnce, [Next]_vars PROVE TypeOK'
  OBVIOUS
<1>1. CASE UNCHANGED vars
  BY <1>1 DEF TypeOK, vars
<1>2. CASE Next
  <2>1. PICK j \in Jobs :
             \/ CommitQueuedRow(j) \/ FakeJob(j) \/ StartInline(j)
             \/ PushToRedis(j) \/ PushWithLostReply(j) \/ RecordRqId(j)
             \/ RequestFails(j) \/ Dequeue(j) \/ WorkerStart(j)
             \/ RunBenchmark(j) \/ RunRaises(j) \/ UploadEntry(j)
             \/ UploadFails(j) \/ LinkArtifacts(j) \/ PersistRaises(j)
             \/ WorkerCommit(j) \/ WorkerReturn(j) \/ LateTimeout(j)
             \/ ExceptCommit(j) \/ RecantCommit(j) \/ WorkerDies(j)
    BY <1>2, NextCases
  <2> USE DEF rowVars, storeVars
  <2>2. CASE CommitQueuedRow(j) BY <2>2 DEF CommitQueuedRow, TypeOK
  <2>3. CASE FakeJob(j) BY <2>3 DEF FakeJob, TypeOK
  <2>4. CASE StartInline(j) BY <2>4 DEF StartInline, TypeOK, Active
  <2>5. CASE PushToRedis(j) BY <2>5, PushElements DEF PushToRedis, TypeOK
  <2>6. CASE PushWithLostReply(j)
    BY <2>6, PushElements DEF PushWithLostReply, TypeOK
  <2>7. CASE RecordRqId(j) BY <2>7 DEF RecordRqId, TypeOK
  <2>8. CASE RequestFails(j) BY <2>8 DEF RequestFails, TypeOK
  <2>9. CASE Dequeue(j)
    BY <2>9, PopElements DEF Dequeue, TypeOK, Active, QueueDeliversOnce
  <2>10. CASE WorkerStart(j) BY <2>10 DEF WorkerStart, TypeOK, Active
  <2>11. CASE RunBenchmark(j)
    <3>1. PICK s \in Terminal, c \in SUBSET Kinds :
            session' = [session EXCEPT ![j] =
              [status |-> s, result |-> "remote", content |-> c, todo |-> c,
               rows |-> {}, notes |-> {}]]
      BY <2>11 DEF RunBenchmark
    <3>2. [status |-> s, result |-> "remote", content |-> c, todo |-> c,
           rows |-> {}, notes |-> {}] \in Session
      BY DEF Session
    <3> QED BY <2>11, <3>1, <3>2 DEF RunBenchmark, TypeOK, Active
  <2>12. CASE RunRaises(j) BY <2>12 DEF RunRaises, TypeOK, Active
  <2>13. CASE UploadEntry(j)
    <3>1. session[j] \in Session BY DEF TypeOK
    <3>2. session' = [session EXCEPT ![j] =
                        [session[j] EXCEPT !.todo = @ \ {NextEntry(j)},
                                           !.rows = @ \cup {NextEntry(j)}]]
      BY <2>13 DEF UploadEntry
    <3>3. [session[j] EXCEPT !.todo = @ \ {NextEntry(j)},
                             !.rows = @ \cup {NextEntry(j)}] \in Session
      BY <3>1, NextEntryKind DEF Session
    <3> QED BY <2>13, <3>2, <3>3, NextEntryKind DEF UploadEntry, TypeOK
  <2>14. CASE UploadFails(j)
    <3>1. session[j] \in Session BY DEF TypeOK
    <3>2. session' = [session EXCEPT ![j] =
                        [session[j] EXCEPT !.todo = @ \ {NextEntry(j)},
                                           !.notes = @ \cup {NextEntry(j)}]]
      BY <2>14 DEF UploadFails
    <3>3. [session[j] EXCEPT !.todo = @ \ {NextEntry(j)},
                             !.notes = @ \cup {NextEntry(j)}] \in Session
      BY <3>1, NextEntryKind DEF Session
    <3> QED BY <2>14, <3>2, <3>3, NextEntryKind DEF UploadFails, TypeOK
  <2>15. CASE LinkArtifacts(j)
    <3>1. session[j] \in Session BY DEF TypeOK
    <3>2. session'[j] \in Session
      BY <2>15, <3>1 DEF LinkArtifacts, TypeOK, Session
    <3> QED BY <2>15, <3>2 DEF LinkArtifacts, TypeOK, Active
  <2>16. CASE PersistRaises(j)
    BY <2>16, NextEntryKind DEF PersistRaises, TypeOK, Active
  <2>17. CASE WorkerCommit(j)
    <3>1. session[j].status \in Terminal BY DEF TypeOK, Session
    <3> QED BY <2>17, <3>1, FlushType DEF WorkerCommit, TypeOK, Active
  <2>18. CASE WorkerReturn(j) BY <2>18, CloseType DEF WorkerReturn, TypeOK
  <2>19. CASE LateTimeout(j) BY <2>19 DEF LateTimeout, TypeOK, Active
  <2>20. CASE ExceptCommit(j)
    BY <2>20, FlushType, CloseType DEF ExceptCommit, TypeOK, Terminal
  <2>21. CASE RecantCommit(j)
    BY <2>21, CloseType DEF RecantCommit, TypeOK, Terminal
  <2>22. CASE WorkerDies(j) BY <2>22, CloseType DEF WorkerDies, TypeOK
  <2> QED BY <2>1, <2>2, <2>3, <2>4, <2>5, <2>6, <2>7, <2>8, <2>9, <2>10,
             <2>11, <2>12, <2>13, <2>14, <2>15, <2>16, <2>17, <2>18, <2>19,
             <2>20, <2>21, <2>22
<1> QED BY <1>1, <1>2

-----------------------------------------------------------------------------
(* The inductive invariant.                                                 *)

JobInv(j) == HandlerInv(j) /\ WorkerInv(j) /\ StoreInv(j) /\ SessionInv(j)

QueueInv == QueueDeliversOnce /\ \A j \in Queued : Enqueued(j)

\* Only submitted jobs are in the list.
LEMMA QueuedAreJobs == ASSUME TypeOK PROVE Queued \subseteq Jobs
BY DEF TypeOK, Queued, Elements

\* CommitQueuedRow preserves the invariant: the new row is queued and its handler will push it.
LEMMA CommitQueuedRowInv ==
    ASSUME IInv, TypeOK', NEW j \in Jobs, CommitQueuedRow(j)
    PROVE  QueueInv' /\ \A k \in Jobs : JobInv(k)'
<1> USE DEF rowVars, storeVars, Active, IsInline, Enqueued
<1>1. session[j] \in Session /\ session'[j] \in Session
  BY DEF IInv, TypeOK
<1>2. QueueInv'
  BY DEF CommitQueuedRow, QueueInv, QueueDeliversOnce, Queued, IInv, TypeOK, HandlerInv, WorkerInv
<1>3. ASSUME NEW k \in Jobs PROVE JobInv(k)'
  <2>1. HandlerInv(k)'
    BY <1>1 DEF CommitQueuedRow, HandlerInv, Queued, WorkerInv, IInv, TypeOK, QueueDeliversOnce
  <2>2. WorkerInv(k)'
    BY <1>1 DEF CommitQueuedRow, WorkerInv, HandlerInv, IInv, TypeOK
  <2>3. StoreInv(k)'
    BY <1>1 DEF CommitQueuedRow, StoreInv, HandlerInv, WorkerInv, SessionInv, Session, IInv, TypeOK, Terminal
  <2>4. SessionInv(k)'
    BY <1>1 DEF CommitQueuedRow, SessionInv, HandlerInv, WorkerInv, StoreInv, Session, IInv, TypeOK
  <2> QED BY <2>1, <2>2, <2>3, <2>4 DEF JobInv
<1> QED BY <1>2, <1>3

\* FakeJob preserves the invariant: the row appears finished and nobody works on it.
LEMMA FakeJobInv ==
    ASSUME IInv, TypeOK', NEW j \in Jobs, FakeJob(j)
    PROVE  QueueInv' /\ \A k \in Jobs : JobInv(k)'
<1> USE DEF rowVars, storeVars, Active, IsInline, Enqueued
<1>1. session[j] \in Session /\ session'[j] \in Session
  BY DEF IInv, TypeOK
<1>2. QueueInv'
  BY DEF FakeJob, QueueInv, QueueDeliversOnce, Queued, IInv, TypeOK, HandlerInv, WorkerInv
<1>3. ASSUME NEW k \in Jobs PROVE JobInv(k)'
  <2>1. HandlerInv(k)'
    BY <1>1 DEF FakeJob, HandlerInv, Queued, WorkerInv, IInv, TypeOK, QueueDeliversOnce
  <2>2. WorkerInv(k)'
    BY <1>1 DEF FakeJob, WorkerInv, HandlerInv, IInv, TypeOK
  <2>3. StoreInv(k)'
    BY <1>1 DEF FakeJob, StoreInv, HandlerInv, WorkerInv, SessionInv, Session, IInv, TypeOK
  <2>4. SessionInv(k)'
    BY <1>1 DEF FakeJob, SessionInv, HandlerInv, WorkerInv, StoreInv, Session, IInv, TypeOK
  <2> QED BY <2>1, <2>2, <2>3, <2>4 DEF JobInv
<1> QED BY <1>2, <1>3

\* StartInline preserves the invariant: the handler runs the benchmark before any row exists.
LEMMA StartInlineInv ==
    ASSUME IInv, TypeOK', NEW j \in Jobs, StartInline(j)
    PROVE  QueueInv' /\ \A k \in Jobs : JobInv(k)'
<1> USE DEF rowVars, storeVars, Active, IsInline, Enqueued
<1>1. session[j] \in Session /\ session'[j] \in Session
  BY DEF IInv, TypeOK
<1>2. QueueInv'
  BY DEF StartInline, QueueInv, QueueDeliversOnce, Queued, IInv, TypeOK, HandlerInv, WorkerInv
<1>3. ASSUME NEW k \in Jobs PROVE JobInv(k)'
  <2>1. HandlerInv(k)'
    BY <1>1 DEF StartInline, HandlerInv, Queued, WorkerInv, IInv, TypeOK, QueueDeliversOnce
  <2>2. WorkerInv(k)'
    BY <1>1 DEF StartInline, WorkerInv, HandlerInv, IInv, TypeOK
  <2>3. StoreInv(k)'
    BY <1>1 DEF StartInline, StoreInv, HandlerInv, WorkerInv, SessionInv, Session, IInv, TypeOK
  <2>4. SessionInv(k)'
    BY <1>1 DEF StartInline, SessionInv, HandlerInv, WorkerInv, StoreInv, Session, IInv, TypeOK
  <2> QED BY <2>1, <2>2, <2>3, <2>4 DEF JobInv
<1> QED BY <1>2, <1>3

\* PushToRedis preserves the invariant: the id enters the list once, its row being queued.
LEMMA PushToRedisInv ==
    ASSUME IInv, TypeOK', NEW j \in Jobs, PushToRedis(j)
    PROVE  QueueInv' /\ \A k \in Jobs : JobInv(k)'
<1> USE DEF rowVars, storeVars, Active, IsInline, Enqueued
<1>1. session[j] \in Session /\ session'[j] \in Session
  BY DEF IInv, TypeOK
<1>2. QueueInv'
  BY PushElements DEF PushToRedis, QueueInv, QueueDeliversOnce, Queued, IInv, TypeOK, HandlerInv, WorkerInv
<1>3. ASSUME NEW k \in Jobs PROVE JobInv(k)'
  <2>1. HandlerInv(k)'
    BY PushElements, <1>1 DEF PushToRedis, HandlerInv, Queued, WorkerInv, IInv, TypeOK, QueueDeliversOnce
  <2>2. WorkerInv(k)'
    BY <1>1 DEF PushToRedis, WorkerInv, HandlerInv, IInv, TypeOK
  <2>3. StoreInv(k)'
    BY <1>1 DEF PushToRedis, StoreInv, HandlerInv, WorkerInv, SessionInv, Session, IInv, TypeOK
  <2>4. SessionInv(k)'
    BY <1>1 DEF PushToRedis, SessionInv, HandlerInv, WorkerInv, StoreInv, Session, IInv, TypeOK
  <2> QED BY <2>1, <2>2, <2>3, <2>4 DEF JobInv
<1> QED BY <1>2, <1>3

\* PushWithLostReply preserves the invariant: as PushToRedis, although the handler has given up.
LEMMA PushWithLostReplyInv ==
    ASSUME IInv, TypeOK', NEW j \in Jobs, PushWithLostReply(j)
    PROVE  QueueInv' /\ \A k \in Jobs : JobInv(k)'
<1> USE DEF rowVars, storeVars, Active, IsInline, Enqueued
<1>1. session[j] \in Session /\ session'[j] \in Session
  BY DEF IInv, TypeOK
<1>2. QueueInv'
  BY PushElements DEF PushWithLostReply, QueueInv, QueueDeliversOnce, Queued, IInv, TypeOK, HandlerInv, WorkerInv
<1>3. ASSUME NEW k \in Jobs PROVE JobInv(k)'
  <2>1. HandlerInv(k)'
    BY PushElements, <1>1 DEF PushWithLostReply, HandlerInv, Queued, WorkerInv, IInv, TypeOK, QueueDeliversOnce
  <2>2. WorkerInv(k)'
    BY <1>1 DEF PushWithLostReply, WorkerInv, HandlerInv, IInv, TypeOK
  <2>3. StoreInv(k)'
    BY <1>1 DEF PushWithLostReply, StoreInv, HandlerInv, WorkerInv, SessionInv, Session, IInv, TypeOK
  <2>4. SessionInv(k)'
    BY <1>1 DEF PushWithLostReply, SessionInv, HandlerInv, WorkerInv, StoreInv, Session, IInv, TypeOK
  <2> QED BY <2>1, <2>2, <2>3, <2>4 DEF JobInv
<1> QED BY <1>2, <1>3

\* RecordRqId preserves the invariant: the row loses its links, never gains one.
LEMMA RecordRqIdInv ==
    ASSUME IInv, TypeOK', NEW j \in Jobs, RecordRqId(j)
    PROVE  QueueInv' /\ \A k \in Jobs : JobInv(k)'
<1> USE DEF rowVars, storeVars, Active, IsInline, Enqueued
<1>1. session[j] \in Session /\ session'[j] \in Session
  BY DEF IInv, TypeOK
<1>2. QueueInv'
  BY DEF RecordRqId, QueueInv, QueueDeliversOnce, Queued, IInv, TypeOK, HandlerInv, WorkerInv
<1>3. ASSUME NEW k \in Jobs PROVE JobInv(k)'
  <2>1. HandlerInv(k)'
    BY <1>1 DEF RecordRqId, HandlerInv, Queued, WorkerInv, IInv, TypeOK, QueueDeliversOnce
  <2>2. WorkerInv(k)'
    BY <1>1 DEF RecordRqId, WorkerInv, HandlerInv, IInv, TypeOK
  <2>3. StoreInv(k)'
    BY <1>1 DEF RecordRqId, StoreInv, HandlerInv, WorkerInv, SessionInv, Session, IInv, TypeOK
  <2>4. SessionInv(k)'
    BY <1>1 DEF RecordRqId, SessionInv, HandlerInv, WorkerInv, StoreInv, Session, IInv, TypeOK
  <2> QED BY <2>1, <2>2, <2>3, <2>4 DEF JobInv
<1> QED BY <1>2, <1>3

\* RequestFails preserves the invariant: a failed request explains a row that nobody will finish.
LEMMA RequestFailsInv ==
    ASSUME IInv, TypeOK', NEW j \in Jobs, RequestFails(j)
    PROVE  QueueInv' /\ \A k \in Jobs : JobInv(k)'
<1> USE DEF rowVars, storeVars, Active, IsInline, Enqueued
<1>1. session[j] \in Session /\ session'[j] \in Session
  BY DEF IInv, TypeOK
<1>2. QueueInv'
  BY DEF RequestFails, QueueInv, QueueDeliversOnce, Queued, IInv, TypeOK, HandlerInv, WorkerInv
<1>3. ASSUME NEW k \in Jobs PROVE JobInv(k)'
  <2>1. HandlerInv(k)'
    BY <1>1 DEF RequestFails, HandlerInv, Queued, WorkerInv, IInv, TypeOK, QueueDeliversOnce
  <2>2. WorkerInv(k)'
    BY <1>1 DEF RequestFails, WorkerInv, HandlerInv, IInv, TypeOK
  <2>3. StoreInv(k)'
    BY <1>1 DEF RequestFails, StoreInv, HandlerInv, WorkerInv, SessionInv, Session, IInv, TypeOK
  <2>4. SessionInv(k)'
    BY <1>1 DEF RequestFails, SessionInv, HandlerInv, WorkerInv, StoreInv, Session, IInv, TypeOK
  <2> QED BY <2>1, <2>2, <2>3, <2>4 DEF JobInv
<1> QED BY <1>2, <1>3

\* Dequeue preserves the invariant: the id leaves the list together with the worker taking it.
LEMMA DequeueInv ==
    ASSUME IInv, TypeOK', NEW j \in Jobs, Dequeue(j)
    PROVE  QueueInv' /\ \A k \in Jobs : JobInv(k)'
<1> USE DEF rowVars, storeVars, Active, IsInline, Enqueued
<1>1. session[j] \in Session /\ session'[j] \in Session
  BY DEF IInv, TypeOK
<1>2. QueueInv'
  BY PopElements DEF Dequeue, QueueInv, QueueDeliversOnce, Queued, IInv, TypeOK, HandlerInv, WorkerInv
<1>3. ASSUME NEW k \in Jobs PROVE JobInv(k)'
  <2>1. HandlerInv(k)'
    BY PopElements, <1>1 DEF Dequeue, HandlerInv, Queued, WorkerInv, IInv, TypeOK, QueueDeliversOnce
  <2>0. j \in Queued
    BY PopElements DEF Dequeue, Queued, IInv, TypeOK, QueueDeliversOnce
  <2>2. WorkerInv(k)'
    BY <2>0, <1>1 DEF Dequeue, WorkerInv, HandlerInv, IInv, TypeOK, QueueDeliversOnce
  <2>3. StoreInv(k)'
    BY <1>1 DEF Dequeue, StoreInv, HandlerInv, WorkerInv, SessionInv, Session, IInv, TypeOK, QueueDeliversOnce
  <2>4. SessionInv(k)'
    BY <1>1 DEF Dequeue, SessionInv, HandlerInv, WorkerInv, StoreInv, Session, IInv, TypeOK, QueueDeliversOnce
  <2> QED BY <2>1, <2>2, <2>3, <2>4 DEF JobInv
<1> QED BY <1>2, <1>3

\* WorkerStart preserves the invariant: a dequeued job has a queued row, which becomes running.
LEMMA WorkerStartInv ==
    ASSUME IInv, TypeOK', NEW j \in Jobs, WorkerStart(j)
    PROVE  QueueInv' /\ \A k \in Jobs : JobInv(k)'
<1> USE DEF rowVars, storeVars, Active, IsInline, Enqueued
<1>0. j \notin Queued /\ Queued \subseteq Jobs
  BY QueuedAreJobs DEF WorkerStart, IInv, QueueDeliversOnce
<1>1. session[j] \in Session /\ session'[j] \in Session
  BY DEF IInv, TypeOK
<1>2. QueueInv'
  BY <1>0 DEF WorkerStart, QueueInv, QueueDeliversOnce, Queued, IInv, TypeOK, HandlerInv, WorkerInv
<1>3. ASSUME NEW k \in Jobs PROVE JobInv(k)'
  <2>1. HandlerInv(k)'
    BY <1>1 DEF WorkerStart, HandlerInv, Queued, WorkerInv, IInv, TypeOK, QueueDeliversOnce
  <2>2. WorkerInv(k)'
    BY <1>1 DEF WorkerStart, WorkerInv, HandlerInv, IInv, TypeOK, QueueDeliversOnce
  <2>3. StoreInv(k)'
    BY <1>1 DEF WorkerStart, StoreInv, HandlerInv, WorkerInv, SessionInv, Session, IInv, TypeOK, QueueDeliversOnce, Terminal
  <2>4. SessionInv(k)'
    BY <1>1 DEF WorkerStart, SessionInv, HandlerInv, WorkerInv, StoreInv, Session, IInv, TypeOK, QueueDeliversOnce
  <2> QED BY <2>1, <2>2, <2>3, <2>4 DEF JobInv
<1> QED BY <1>2, <1>3

\* RunBenchmark preserves the invariant: every non-empty entry of the result is to be uploaded.
LEMMA RunBenchmarkInv ==
    ASSUME IInv, TypeOK', NEW j \in Jobs, RunBenchmark(j)
    PROVE  QueueInv' /\ \A k \in Jobs : JobInv(k)'
<1> USE DEF rowVars, storeVars, Active, IsInline, Enqueued
<1>0. TypeOK
  BY DEF IInv
<1>1. session[j] \in Session /\ session'[j] \in Session
  BY DEF IInv, TypeOK
<1>2. QueueInv'
  BY DEF RunBenchmark, QueueInv, QueueDeliversOnce, Queued, IInv, TypeOK, HandlerInv, WorkerInv
<1>3. ASSUME NEW k \in Jobs PROVE JobInv(k)'
  <2>1. HandlerInv(k)'
    BY <1>1 DEF RunBenchmark, HandlerInv, Queued, WorkerInv, IInv, TypeOK, QueueDeliversOnce
  <2>2. WorkerInv(k)'
    BY <1>1 DEF RunBenchmark, WorkerInv, HandlerInv, IInv, TypeOK
  <2>3. StoreInv(k)'
    BY <1>1 DEF RunBenchmark, StoreInv, HandlerInv, WorkerInv, SessionInv, Session, IInv, TypeOK
  <2>0. PICK s \in Terminal, c \in SUBSET Kinds :
          session' = [session EXCEPT ![j] =
            [status |-> s, result |-> "remote", content |-> c, todo |-> c,
             rows |-> {}, notes |-> {}]]
    BY DEF RunBenchmark
  <2>4. SessionInv(k)'
    <3>1. worker'[j] = "persist" /\ result'[j] = result[j] /\ result[j] # "linked"
      BY DEF RunBenchmark, IInv, TypeOK, WorkerInv, StoreInv, Terminal
    <3>2. /\ session'[j].result = "remote"
          /\ session'[j].content = c /\ session'[j].todo = c
          /\ session'[j].rows = {} /\ session'[j].notes = {}
      BY <1>0, <2>0 DEF TypeOK
    <3>3. CASE k = j
      BY <3>1, <3>2, <3>3 DEF SessionInv
    <3>4. CASE k # j
      <4>1. /\ worker'[k] = worker[k] /\ session'[k] = session[k]
            /\ UNCHANGED <<result, links, notes>>
        BY <1>0, <2>0, <3>4 DEF RunBenchmark, TypeOK
      <4> QED BY <4>1 DEF SessionInv, IInv
    <3> QED BY <3>3, <3>4
  <2> QED BY <2>1, <2>2, <2>3, <2>4 DEF JobInv
<1> QED BY <1>2, <1>3

\* RunRaises preserves the invariant: the session keeps the result column untouched.
LEMMA RunRaisesInv ==
    ASSUME IInv, TypeOK', NEW j \in Jobs, RunRaises(j)
    PROVE  QueueInv' /\ \A k \in Jobs : JobInv(k)'
<1> USE DEF rowVars, storeVars, Active, IsInline, Enqueued
<1>1. session[j] \in Session /\ session'[j] \in Session
  BY DEF IInv, TypeOK
<1>2. QueueInv'
  BY DEF RunRaises, QueueInv, QueueDeliversOnce, Queued, IInv, TypeOK, HandlerInv, WorkerInv
<1>3. ASSUME NEW k \in Jobs PROVE JobInv(k)'
  <2>1. HandlerInv(k)'
    BY <1>1 DEF RunRaises, HandlerInv, Queued, WorkerInv, IInv, TypeOK, QueueDeliversOnce
  <2>2. WorkerInv(k)'
    BY <1>1 DEF RunRaises, WorkerInv, HandlerInv, IInv, TypeOK
  <2>3. StoreInv(k)'
    BY <1>1 DEF RunRaises, StoreInv, HandlerInv, WorkerInv, SessionInv, Session, IInv, TypeOK
  <2>4. SessionInv(k)'
    BY <1>1 DEF RunRaises, SessionInv, HandlerInv, WorkerInv, StoreInv, Session, IInv, TypeOK
  <2> QED BY <2>1, <2>2, <2>3, <2>4 DEF JobInv
<1> QED BY <1>2, <1>3

\* UploadEntry preserves the invariant: the object is there before the session holds its row.
LEMMA UploadEntryInv ==
    ASSUME IInv, TypeOK', NEW j \in Jobs, UploadEntry(j)
    PROVE  QueueInv' /\ \A k \in Jobs : JobInv(k)'
<1> USE DEF rowVars, storeVars, Active, IsInline, Enqueued
<1>1. session[j] \in Session /\ session'[j] \in Session
  BY DEF IInv, TypeOK
<1>2. QueueInv'
  BY DEF UploadEntry, QueueInv, QueueDeliversOnce, Queued, IInv, TypeOK, HandlerInv, WorkerInv
<1>3. ASSUME NEW k \in Jobs PROVE JobInv(k)'
  <2>1. HandlerInv(k)'
    BY <1>1 DEF UploadEntry, NextEntry, HandlerInv, Queued, WorkerInv, IInv, TypeOK, QueueDeliversOnce
  <2>2. WorkerInv(k)'
    BY <1>1 DEF UploadEntry, NextEntry, WorkerInv, HandlerInv, IInv, TypeOK
  <2>3. StoreInv(k)'
    BY <1>1 DEF UploadEntry, NextEntry, StoreInv, HandlerInv, WorkerInv, SessionInv, Session, IInv, TypeOK
  <2>4. SessionInv(k)'
    BY <1>1 DEF UploadEntry, NextEntry, SessionInv, HandlerInv, WorkerInv, StoreInv, Session, IInv, TypeOK
  <2> QED BY <2>1, <2>2, <2>3, <2>4 DEF JobInv
<1> QED BY <1>2, <1>3

\* UploadFails preserves the invariant: the failed entry is noted.
LEMMA UploadFailsInv ==
    ASSUME IInv, TypeOK', NEW j \in Jobs, UploadFails(j)
    PROVE  QueueInv' /\ \A k \in Jobs : JobInv(k)'
<1> USE DEF rowVars, storeVars, Active, IsInline, Enqueued
<1>1. session[j] \in Session /\ session'[j] \in Session
  BY DEF IInv, TypeOK
<1>2. QueueInv'
  BY DEF UploadFails, QueueInv, QueueDeliversOnce, Queued, IInv, TypeOK, HandlerInv, WorkerInv
<1>3. ASSUME NEW k \in Jobs PROVE JobInv(k)'
  <2>1. HandlerInv(k)'
    BY <1>1 DEF UploadFails, NextEntry, HandlerInv, Queued, WorkerInv, IInv, TypeOK, QueueDeliversOnce
  <2>2. WorkerInv(k)'
    BY <1>1 DEF UploadFails, NextEntry, WorkerInv, HandlerInv, IInv, TypeOK
  <2>3. StoreInv(k)'
    BY <1>1 DEF UploadFails, NextEntry, StoreInv, HandlerInv, WorkerInv, SessionInv, Session, IInv, TypeOK
  <2>4. SessionInv(k)'
    BY <1>1 DEF UploadFails, NextEntry, SessionInv, HandlerInv, WorkerInv, StoreInv, Session, IInv, TypeOK
  <2> QED BY <2>1, <2>2, <2>3, <2>4 DEF JobInv
<1> QED BY <1>2, <1>3

\* LinkArtifacts preserves the invariant: every entry is uploaded or noted once none is left.
LEMMA LinkArtifactsInv ==
    ASSUME IInv, TypeOK', NEW j \in Jobs, LinkArtifacts(j)
    PROVE  QueueInv' /\ \A k \in Jobs : JobInv(k)'
<1> USE DEF rowVars, storeVars, Active, IsInline, Enqueued
<1>1. session[j] \in Session /\ session'[j] \in Session
  BY DEF IInv, TypeOK
<1>2. QueueInv'
  BY DEF LinkArtifacts, QueueInv, QueueDeliversOnce, Queued, IInv, TypeOK, HandlerInv, WorkerInv
<1>3. ASSUME NEW k \in Jobs PROVE JobInv(k)'
  <2>1. HandlerInv(k)'
    BY <1>1 DEF LinkArtifacts, HandlerInv, Queued, WorkerInv, IInv, TypeOK, QueueDeliversOnce
  <2>2. WorkerInv(k)'
    BY <1>1 DEF LinkArtifacts, WorkerInv, HandlerInv, IInv, TypeOK
  <2>3. StoreInv(k)'
    BY <1>1 DEF LinkArtifacts, StoreInv, HandlerInv, WorkerInv, SessionInv, Session, IInv, TypeOK
  <2>4. SessionInv(k)'
    BY <1>1 DEF LinkArtifacts, SessionInv, HandlerInv, WorkerInv, StoreInv, Session, IInv, TypeOK
  <2> QED BY <2>1, <2>2, <2>3, <2>4 DEF JobInv
<1> QED BY <1>2, <1>3

\* PersistRaises preserves the invariant: rows already flushed have their objects.
LEMMA PersistRaisesInv ==
    ASSUME IInv, TypeOK', NEW j \in Jobs, PersistRaises(j)
    PROVE  QueueInv' /\ \A k \in Jobs : JobInv(k)'
<1> USE DEF rowVars, storeVars, Active, IsInline, Enqueued
<1>1. session[j] \in Session /\ session'[j] \in Session
  BY DEF IInv, TypeOK
<1>2. QueueInv'
  BY DEF PersistRaises, QueueInv, QueueDeliversOnce, Queued, IInv, TypeOK, HandlerInv, WorkerInv
<1>3. ASSUME NEW k \in Jobs PROVE JobInv(k)'
  <2>1. HandlerInv(k)'
    BY <1>1 DEF PersistRaises, NextEntry, HandlerInv, Queued, WorkerInv, IInv, TypeOK, QueueDeliversOnce
  <2>2. WorkerInv(k)'
    BY <1>1 DEF PersistRaises, NextEntry, WorkerInv, HandlerInv, IInv, TypeOK
  <2>5. objects[k] \subseteq objects'[k]
    BY DEF PersistRaises, IInv, TypeOK
  <2>3. StoreInv(k)'
    BY <2>5 DEF PersistRaises, StoreInv, IInv
  <2>4. SessionInv(k)'
    BY <1>1 DEF PersistRaises, NextEntry, SessionInv, HandlerInv, WorkerInv, StoreInv, Session, IInv, TypeOK
  <2> QED BY <2>1, <2>2, <2>3, <2>4 DEF JobInv
<1> QED BY <1>2, <1>3

\* WorkerCommit preserves the invariant: status, links and artifact rows are published together.
LEMMA WorkerCommitInv ==
    ASSUME IInv, TypeOK', NEW j \in Jobs, WorkerCommit(j)
    PROVE  QueueInv' /\ \A k \in Jobs : JobInv(k)'
<1> USE DEF rowVars, storeVars, Active, IsInline, Enqueued
<1>0. j \notin Queued /\ Queued \subseteq Jobs
  BY QueuedAreJobs DEF WorkerCommit, IInv, QueueDeliversOnce
<1>1. session[j] \in Session /\ session'[j] \in Session
  BY DEF IInv, TypeOK
<1>11. session[j].status \in Terminal
  BY <1>1 DEF Session
<1>4. /\ \A k \in Jobs \ {j} : /\ worker'[k] = worker[k]
                              /\ status'[k] = status[k]
                              /\ result'[k] = result[k]
      /\ status'[j] = session[j].status
      /\ worker'[j] = "return"
      /\ UNCHANGED <<api, queue>>
  BY DEF WorkerCommit, FlushSession, IInv, TypeOK
<1>2. QueueInv'
  BY <1>0, <1>4 DEF QueueInv, QueueDeliversOnce, Queued, IInv
<1>3. ASSUME NEW k \in Jobs PROVE JobInv(k)'
  <2>1. HandlerInv(k)'
    BY <1>11, <1>4 DEF WorkerCommit, HandlerInv, WorkerInv, IInv, Queued, Terminal
  <2>2. WorkerInv(k)'
    BY <1>11, <1>1 DEF WorkerCommit, FlushSession, WorkerInv, HandlerInv, IInv, TypeOK
  <2>3. StoreInv(k)'
    BY <1>1 DEF WorkerCommit, FlushSession, StoreInv, HandlerInv, WorkerInv, SessionInv, Session, IInv, TypeOK
  <2>4. SessionInv(k)'
    BY <1>1 DEF WorkerCommit, FlushSession, SessionInv, HandlerInv, WorkerInv, StoreInv, Session, IInv, TypeOK
  <2> QED BY <2>1, <2>2, <2>3, <2>4 DEF JobInv
<1> QED BY <1>2, <1>3

\* WorkerReturn preserves the invariant: the published row outlives the session.
LEMMA WorkerReturnInv ==
    ASSUME IInv, TypeOK', NEW j \in Jobs, WorkerReturn(j)
    PROVE  QueueInv' /\ \A k \in Jobs : JobInv(k)'
<1> USE DEF rowVars, storeVars, Active, IsInline, Enqueued
<1>1. session[j] \in Session /\ session'[j] \in Session
  BY DEF IInv, TypeOK
<1>2. QueueInv'
  BY DEF WorkerReturn, QueueInv, QueueDeliversOnce, Queued, IInv, TypeOK, HandlerInv, WorkerInv
<1>3. ASSUME NEW k \in Jobs PROVE JobInv(k)'
  <2>1. HandlerInv(k)'
    BY <1>1 DEF WorkerReturn, CloseSession, FreshSession, HandlerInv, Queued, WorkerInv, IInv, TypeOK, QueueDeliversOnce
  <2>2. WorkerInv(k)'
    BY <1>1 DEF WorkerReturn, CloseSession, FreshSession, WorkerInv, HandlerInv, IInv, TypeOK
  <2>3. StoreInv(k)'
    BY <1>1 DEF WorkerReturn, CloseSession, FreshSession, StoreInv, HandlerInv, WorkerInv, SessionInv, Session, IInv, TypeOK
  <2>4. SessionInv(k)'
    BY <1>1 DEF WorkerReturn, CloseSession, FreshSession, SessionInv, HandlerInv, WorkerInv, StoreInv, Session, IInv, TypeOK
  <2> QED BY <2>1, <2>2, <2>3, <2>4 DEF JobInv
<1> QED BY <1>2, <1>3

\* LateTimeout preserves the invariant: the row is final already.
LEMMA LateTimeoutInv ==
    ASSUME IInv, TypeOK', NEW j \in Jobs, LateTimeout(j)
    PROVE  QueueInv' /\ \A k \in Jobs : JobInv(k)'
<1> USE DEF rowVars, storeVars, Active, IsInline, Enqueued
<1>1. session[j] \in Session /\ session'[j] \in Session
  BY DEF IInv, TypeOK
<1>2. QueueInv'
  BY DEF LateTimeout, QueueInv, QueueDeliversOnce, Queued, IInv, TypeOK, HandlerInv, WorkerInv
<1>3. ASSUME NEW k \in Jobs PROVE JobInv(k)'
  <2>1. HandlerInv(k)'
    BY <1>1 DEF LateTimeout, HandlerInv, Queued, WorkerInv, IInv, TypeOK, QueueDeliversOnce
  <2>2. WorkerInv(k)'
    BY <1>1 DEF LateTimeout, WorkerInv, HandlerInv, IInv, TypeOK
  <2>3. StoreInv(k)'
    BY <1>1 DEF LateTimeout, StoreInv, HandlerInv, WorkerInv, SessionInv, Session, IInv, TypeOK
  <2>4. SessionInv(k)'
    BY <1>1 DEF LateTimeout, SessionInv, HandlerInv, WorkerInv, StoreInv, Session, IInv, TypeOK
  <2> QED BY <2>1, <2>2, <2>3, <2>4 DEF JobInv
<1> QED BY <1>2, <1>3

\* ExceptCommit preserves the invariant: a failed job may publish artifacts that it does not link.
LEMMA ExceptCommitInv ==
    ASSUME IInv, TypeOK', NEW j \in Jobs, ExceptCommit(j)
    PROVE  QueueInv' /\ \A k \in Jobs : JobInv(k)'
<1> USE DEF rowVars, storeVars, Active, IsInline, Enqueued
<1>0. j \notin Queued /\ Queued \subseteq Jobs
  BY QueuedAreJobs DEF ExceptCommit, IInv, QueueDeliversOnce
<1>1. session[j] \in Session /\ session'[j] \in Session
  BY DEF IInv, TypeOK
<1>4. /\ \A k \in Jobs \ {j} : /\ worker'[k] = worker[k]
                              /\ status'[k] = status[k]
                              /\ result'[k] = result[k]
      /\ status'[j] = "failed"
      /\ worker'[j] = "done"
      /\ UNCHANGED <<api, queue>>
  BY DEF ExceptCommit, FlushSession, IInv, TypeOK
<1>2. QueueInv'
  BY <1>0, <1>4 DEF QueueInv, QueueDeliversOnce, Queued, IInv
<1>3. ASSUME NEW k \in Jobs PROVE JobInv(k)'
  <2>1. HandlerInv(k)'
    BY <1>4 DEF ExceptCommit, HandlerInv, WorkerInv, IInv, Queued, Terminal
  <2>2. WorkerInv(k)'
    BY <1>1 DEF ExceptCommit, FlushSession, CloseSession, FreshSession, WorkerInv, HandlerInv, IInv, TypeOK
  <2>5. k # j => UNCHANGED <<worker[k], session[k], status[k], result[k],
                             links[k], notes[k], artifacts[k], objects[k]>>
    BY DEF ExceptCommit, FlushSession, CloseSession, IInv, TypeOK
  <2>6. /\ session'[j] = [FreshSession EXCEPT !.content = session[j].content]
        /\ session'[j].content = session[j].content
        /\ session'[j].rows = {}
        /\ session'[j].result = "kept"
        /\ artifacts'[j] = session[j].rows
        /\ notes'[j] = session[j].notes
        /\ links'[j] \in {links[j], {}, session[j].rows}
    BY <1>1 DEF ExceptCommit, FlushSession, CloseSession, FreshSession,
                IInv, TypeOK, Session
  <2>7. /\ links[j] = {} /\ result[j] \in {"empty", "rq_id"}
        /\ session[j].rows \subseteq objects[j]
        /\ session[j].result = "linked" =>
             session[j].content = session[j].rows \cup session[j].notes
    BY DEF ExceptCommit, IInv, WorkerInv, StoreInv, SessionInv, Terminal
  <2>8. result'[j] = "linked" =>
          session[j].result = "linked" /\ links'[j] = session[j].rows
    BY <2>7 DEF ExceptCommit, FlushSession, IInv, TypeOK
  <2>9. UNCHANGED objects
    BY DEF ExceptCommit
  <2>3. StoreInv(k)'
    <3>1. CASE k = j
      BY <1>4, <2>6, <2>7, <2>9, <3>1 DEF StoreInv, Terminal
    <3>2. CASE k # j
      BY <2>5, <3>2 DEF StoreInv, IInv
    <3> QED BY <3>1, <3>2
  <2>4. SessionInv(k)'
    <3>1. CASE k = j
      BY <1>4, <2>6, <2>7, <2>8, <3>1 DEF SessionInv
    <3>2. CASE k # j
      BY <2>5, <3>2 DEF SessionInv, IInv
    <3> QED BY <3>1, <3>2
  <2> QED BY <2>1, <2>2, <2>3, <2>4 DEF JobInv
<1> QED BY <1>2, <1>3

\* RecantCommit preserves the invariant: a final status is replaced by failed.
LEMMA RecantCommitInv ==
    ASSUME IInv, TypeOK', NEW j \in Jobs, RecantCommit(j)
    PROVE  QueueInv' /\ \A k \in Jobs : JobInv(k)'
<1> USE DEF rowVars, storeVars, Active, IsInline, Enqueued
<1>1. session[j] \in Session /\ session'[j] \in Session
  BY DEF IInv, TypeOK
<1>2. QueueInv'
  BY DEF RecantCommit, QueueInv, QueueDeliversOnce, Queued, IInv, TypeOK, HandlerInv, WorkerInv
<1>3. ASSUME NEW k \in Jobs PROVE JobInv(k)'
  <2>1. HandlerInv(k)'
    BY <1>1 DEF RecantCommit, CloseSession, FreshSession, HandlerInv, Queued, WorkerInv, IInv, TypeOK, QueueDeliversOnce
  <2>2. WorkerInv(k)'
    BY <1>1 DEF RecantCommit, CloseSession, FreshSession, WorkerInv, HandlerInv, IInv, TypeOK
  <2>3. StoreInv(k)'
    BY <1>1 DEF RecantCommit, CloseSession, FreshSession, StoreInv, HandlerInv, WorkerInv, SessionInv, Session, IInv, TypeOK
  <2>4. SessionInv(k)'
    BY <1>1 DEF RecantCommit, CloseSession, FreshSession, SessionInv, HandlerInv, WorkerInv, StoreInv, Session, IInv, TypeOK
  <2> QED BY <2>1, <2>2, <2>3, <2>4 DEF JobInv
<1> QED BY <1>2, <1>3

\* WorkerDies preserves the invariant: a dead worker explains a row that nobody will finish.
LEMMA WorkerDiesInv ==
    ASSUME IInv, TypeOK', NEW j \in Jobs, WorkerDies(j)
    PROVE  QueueInv' /\ \A k \in Jobs : JobInv(k)'
<1> USE DEF rowVars, storeVars, Active, IsInline, Enqueued
<1>1. session[j] \in Session /\ session'[j] \in Session
  BY DEF IInv, TypeOK
<1>2. QueueInv'
  BY DEF WorkerDies, QueueInv, QueueDeliversOnce, Queued, IInv, TypeOK, HandlerInv, WorkerInv
<1>3. ASSUME NEW k \in Jobs PROVE JobInv(k)'
  <2>1. HandlerInv(k)'
    BY <1>1 DEF WorkerDies, CloseSession, FreshSession, HandlerInv, Queued, WorkerInv, IInv, TypeOK, QueueDeliversOnce
  <2>2. WorkerInv(k)'
    BY <1>1 DEF WorkerDies, CloseSession, FreshSession, WorkerInv, HandlerInv, IInv, TypeOK
  <2>3. StoreInv(k)'
    BY <1>1 DEF WorkerDies, CloseSession, FreshSession, StoreInv, HandlerInv, WorkerInv, SessionInv, Session, IInv, TypeOK
  <2>4. SessionInv(k)'
    BY <1>1 DEF WorkerDies, CloseSession, FreshSession, SessionInv, HandlerInv, WorkerInv, StoreInv, Session, IInv, TypeOK
  <2> QED BY <2>1, <2>2, <2>3, <2>4 DEF JobInv
<1> QED BY <1>2, <1>3

\* Before any request the invariant holds: no row, no process, no id queued.
LEMMA InvInit == Init => IInv
<1> SUFFICES ASSUME Init PROVE IInv
  OBVIOUS
<1>1. TypeOK
  BY DEF Init, TypeOK, FreshSession, Session, Terminal
<1>2. Queued = {} /\ NoRepeats(queue)
  BY DEF Init, Queued, Elements, NoRepeats
<1>3. \A j \in Jobs : HandlerInv(j) /\ WorkerInv(j) /\ StoreInv(j) /\ SessionInv(j)
  BY DEF Init, HandlerInv, WorkerInv, StoreInv, SessionInv, Enqueued,
         FreshSession
<1> QED BY <1>1, <1>2, <1>3 DEF IInv, QueueDeliversOnce

\* No step of handler, queue, worker or fault breaks the invariant.
LEMMA InvStep == IInv /\ [Next]_vars => IInv'
<1> SUFFICES ASSUME IInv, [Next]_vars PROVE IInv'
  OBVIOUS
<1>1. TypeOK'
  BY TypeStep DEF IInv
<1>2. CASE UNCHANGED vars
  <2>1. Queued' = Queued /\ NoRepeats(queue)'  = NoRepeats(queue)
    BY <1>2 DEF vars, Queued
  <2> QED BY <1>1, <1>2, <2>1
          DEF vars, IInv, QueueDeliversOnce, Enqueued, HandlerInv, WorkerInv,
              StoreInv, SessionInv, IsInline
<1>3. CASE Next
  <2>1. PICK j \in Jobs :
             \/ CommitQueuedRow(j) \/ FakeJob(j) \/ StartInline(j)
             \/ PushToRedis(j) \/ PushWithLostReply(j) \/ RecordRqId(j)
             \/ RequestFails(j) \/ Dequeue(j) \/ WorkerStart(j)
             \/ RunBenchmark(j) \/ RunRaises(j) \/ UploadEntry(j)
             \/ UploadFails(j) \/ LinkArtifacts(j) \/ PersistRaises(j)
             \/ WorkerCommit(j) \/ WorkerReturn(j) \/ LateTimeout(j)
             \/ ExceptCommit(j) \/ RecantCommit(j) \/ WorkerDies(j)
    BY <1>3, NextCases
  <2>2. QueueInv' /\ \A k \in Jobs : JobInv(k)'
    BY <1>1, <2>1, CommitQueuedRowInv, FakeJobInv, StartInlineInv,
       PushToRedisInv, PushWithLostReplyInv, RecordRqIdInv, RequestFailsInv,
       DequeueInv, WorkerStartInv, RunBenchmarkInv, RunRaisesInv,
       UploadEntryInv, UploadFailsInv, LinkArtifactsInv, PersistRaisesInv,
       WorkerCommitInv, WorkerReturnInv, LateTimeoutInv, ExceptCommitInv,
       RecantCommitInv, WorkerDiesInv
  <2> QED BY <1>1, <2>2 DEF IInv, QueueInv, JobInv
<1> QED BY <1>2, <1>3

\* IInv holds in every reachable state of the job machinery.
THEOREM Invariance == Spec => []IInv
BY InvInit, InvStep, PTL DEF Spec

\* Every variable keeps its type.
THEOREM TypeCorrect == Spec => []TypeOK
<1>1. IInv => TypeOK
  BY DEF IInv
<1> QED BY <1>1, Invariance, PTL

\* A job id is delivered once, and only for a row a worker will find.
THEOREM DeliveredOnce == Spec => []QueueDeliversOnce
<1>1. IInv => QueueDeliversOnce
  BY DEF IInv
<1> QED BY <1>1, Invariance, PTL

\* A row left at queued or running is somebody's business, or a fault was seen.
THEOREM NotStranded == Spec => []NoRowStrandedWithoutAFault
<1>1. IInv => NoRowStrandedWithoutAFault
  <2> SUFFICES ASSUME IInv, NEW j \in Jobs, status[j] \in {"queued", "running"},
                      worker[j] # "dead", api[j] # "error", api[j] # "enqueue",
                      worker[j] \notin Active
               PROVE  j \in Queued
    BY DEF NoRowStrandedWithoutAFault, InFlight
  <2>1. HandlerInv(j) /\ WorkerInv(j)
    BY DEF IInv
  <2>2. worker[j] = "none"
    BY <2>1 DEF IInv, TypeOK, WorkerInv, Terminal
  <2>3. Enqueued(j)
    BY <2>1, <2>2 DEF IInv, TypeOK, HandlerInv, Enqueued, Terminal
  <2> QED BY <2>1, <2>2, <2>3 DEF HandlerInv
<1> QED BY <1>1, Invariance, PTL

\* A link leads to a committed artifact row and to a stored object.
THEOREM LinksAreStored == Spec => []LinkedArtifactsAreStored
<1>1. IInv => LinkedArtifactsAreStored
  BY DEF IInv, StoreInv, LinkedArtifactsAreStored
<1> QED BY <1>1, Invariance, PTL

\* A job that carries links accounts for every entry of its remote result.
THEOREM NothingLostSilently == Spec => []NoSilentLoss
<1>1. IInv => NoSilentLoss
  BY DEF IInv, SessionInv, NoSilentLoss
<1> QED BY <1>1, Invariance, PTL

\* Only a failed job or one overwritten by its request leaves artifacts unlinked.
THEOREM UnlinkedExplained == Spec => []UnlinkedArtifactsAreExplained
<1>1. IInv => UnlinkedArtifactsAreExplained
  BY DEF IInv, StoreInv, UnlinkedArtifactsAreExplained
<1> QED BY <1>1, Invariance, PTL

-----------------------------------------------------------------------------
(* BenchmarkJobs implements JobLifecycle.                                   *)

\* A commit of the worker's session publishes status, artifact rows and links
\* in one step of the abstract machine.
LEMMA FlushFinishes ==
    ASSUME IInv, NEW j \in Jobs, NEW s \in Terminal, FlushSession(j, s),
           status[j] \in {"absent", "running"},
           s = "succeeded" => session[j].result = "linked"
    PROVE  Lifecycle!Finish(j)
<1>1. TypeOK /\ links[j] = {}
  BY DEF IInv, StoreInv, Terminal
<1>2. session[j].rows \in SUBSET Kinds
  BY <1>1 DEF TypeOK, Session
<1> DEFINE linked == IF session[j].result = "linked" THEN session[j].rows ELSE {}
<1>3. /\ status' = [status EXCEPT ![j] = s]
      /\ links' = [links EXCEPT ![j] = linked]
      /\ artifacts' = [artifacts EXCEPT ![j] = session[j].rows]
  BY <1>1 DEF FlushSession
<1>4. linked \in SUBSET Kinds /\ linked \subseteq session[j].rows
      /\ (s = "succeeded" => linked = session[j].rows)
  BY <1>2
<1> HIDE DEF linked
<1> QED BY <1>2, <1>3, <1>4 DEF Lifecycle!Finish, Lifecycle!Terminal, Terminal

\* Each step of the implementation is a step of JobLifecycle or invisible to it.
LEMMA RefinementStep ==
    ASSUME IInv, [Next]_vars
    PROVE  [Lifecycle!Next]_(Lifecycle!vars)
<1> USE DEF rowVars, storeVars
<1>1. CASE UNCHANGED vars
  BY <1>1 DEF vars, Lifecycle!vars
<1>2. CASE Next
  <2>0. PICK j \in Jobs :
             \/ CommitQueuedRow(j) \/ FakeJob(j) \/ StartInline(j)
             \/ PushToRedis(j) \/ PushWithLostReply(j) \/ RecordRqId(j)
             \/ RequestFails(j) \/ Dequeue(j) \/ WorkerStart(j)
             \/ RunBenchmark(j) \/ RunRaises(j) \/ UploadEntry(j)
             \/ UploadFails(j) \/ LinkArtifacts(j) \/ PersistRaises(j)
             \/ WorkerCommit(j) \/ WorkerReturn(j) \/ LateTimeout(j)
             \/ ExceptCommit(j) \/ RecantCommit(j) \/ WorkerDies(j)
    BY <1>2, NextCases
  <2>1. TypeOK /\ HandlerInv(j) /\ WorkerInv(j) /\ StoreInv(j) /\ SessionInv(j)
    BY DEF IInv
  <2>2. CASE CommitQueuedRow(j)
    <3>1. Lifecycle!Create(j)
      BY <2>1, <2>2 DEF CommitQueuedRow, HandlerInv, Lifecycle!Create
    <3> QED BY <3>1 DEF Lifecycle!Next
  <2>3. CASE FakeJob(j)
    <3>1. status[j] = "absent" /\ links[j] = {} /\ artifacts[j] = {}
      BY <2>1, <2>3 DEF FakeJob, HandlerInv, StoreInv, Terminal
    <3>2. links' = [links EXCEPT ![j] = {}] /\ artifacts' = [artifacts EXCEPT ![j] = {}]
      BY <2>1, <2>3, <3>1 DEF FakeJob, TypeOK
    <3>3. \E s \in Lifecycle!Terminal : status' = [status EXCEPT ![j] = s]
      BY <2>3 DEF FakeJob, Terminal, Lifecycle!Terminal
    <3>4. Lifecycle!Finish(j)
      BY <3>1, <3>2, <3>3 DEF Lifecycle!Finish
    <3> QED BY <3>4 DEF Lifecycle!Next
  <2>4. CASE WorkerStart(j)
    <3>1. Lifecycle!Start(j)
      BY <2>1, <2>4 DEF WorkerStart, WorkerInv, Lifecycle!Start
    <3> QED BY <3>1 DEF Lifecycle!Next
  <2>5. CASE WorkerCommit(j)
    <3>1. /\ status[j] \in {"absent", "running"}
          /\ session[j].result = "linked" /\ session[j].status \in Terminal
      BY <2>1, <2>5 DEF WorkerCommit, WorkerInv, SessionInv, TypeOK, Session
    <3>2. Lifecycle!Finish(j)
      BY <2>5, <3>1, FlushFinishes DEF WorkerCommit
    <3> QED BY <3>2 DEF Lifecycle!Next
  <2>6. CASE ExceptCommit(j)
    <3>1. status[j] \in {"absent", "running"} /\ "failed" \in Terminal
      BY <2>1, <2>6 DEF ExceptCommit, WorkerInv, Terminal
    <3>2. Lifecycle!Finish(j)
      BY <2>6, <3>1, FlushFinishes DEF ExceptCommit
    <3> QED BY <3>2 DEF Lifecycle!Next
  <2>7. CASE RecantCommit(j)
    <3>1. Lifecycle!Recant(j)
      BY <2>1, <2>7 DEF RecantCommit, WorkerInv, Terminal, Lifecycle!Recant,
                        Lifecycle!Terminal
    <3> QED BY <3>1 DEF Lifecycle!Next
  <2>8. CASE RecordRqId(j)
    <3>1. Lifecycle!DropLinks(j)
      BY <2>1, <2>8 DEF RecordRqId, HandlerInv, Enqueued, Lifecycle!DropLinks
    <3> QED BY <3>1 DEF Lifecycle!Next
  <2>9. CASE \/ StartInline(j) \/ PushToRedis(j) \/ PushWithLostReply(j)
             \/ RequestFails(j) \/ Dequeue(j) \/ RunBenchmark(j)
             \/ RunRaises(j) \/ UploadEntry(j) \/ UploadFails(j)
             \/ LinkArtifacts(j) \/ PersistRaises(j) \/ WorkerReturn(j)
             \/ LateTimeout(j) \/ WorkerDies(j)
    BY <2>9 DEF StartInline, PushToRedis, PushWithLostReply, RequestFails,
                Dequeue, RunBenchmark, RunRaises, UploadEntry, UploadFails,
                LinkArtifacts, PersistRaises, WorkerReturn, LateTimeout,
                WorkerDies, Lifecycle!vars
  <2> QED BY <2>0, <2>2, <2>3, <2>4, <2>5, <2>6, <2>7, <2>8, <2>9
<1> QED BY <1>1, <1>2

\* Every behaviour of handler, queue and workers is one that JobLifecycle
\* allows: statuses only move forward and links are published atomically.
THEOREM Refinement == Spec => ImplementsLifecycle
<1>1. Init => Lifecycle!Init
  BY DEF Init, Lifecycle!Init
<1>2. IInv /\ [Next]_vars => [Lifecycle!Next]_(Lifecycle!vars)
  BY RefinementStep
<1> QED BY <1>1, <1>2, Invariance, PTL DEF Spec, ImplementsLifecycle, Lifecycle!Spec

-----------------------------------------------------------------------------
(* Nobody starves: the parts of EveryQueuedJobEnds that are not temporal.   *)

\* A job whose handler, or whose worker, can take a step, or the oldest one of
\* the queue while a worker is free.
CanGoOn(j) ==
    \/ api[j] \in {"enqueue", "record"}
    \/ worker[j] \in Active
    \/ /\ queue # <<>> /\ j = Head(queue)
       /\ Cardinality(BusyWorkers) < Workers

\* While a job waits, some job goes on, be it the one that it waits for.
WaitingJobsAreServed ==
    (\E j \in Jobs : /\ status[j] \in {"queued", "running"}
                     /\ worker[j] # "dead" /\ api[j] # "error")
        => \E j \in Jobs : CanGoOn(j)

\* How far the request and the worker of a job have got.
ApiStage(j) ==
    CASE api[j] = "idle" -> 0 [] api[j] = "enqueue" -> 1
      [] api[j] = "record" -> 2 [] OTHER -> 3

EntriesLeft(j) ==
    (IF "log" \in session[j].todo THEN 1 ELSE 0)
    + (IF "metrics" \in session[j].todo THEN 1 ELSE 0)

WorkerStage(j) ==
    CASE worker[j] = "none" -> 0 [] worker[j] = "dequeued" -> 1
      [] worker[j] = "running" -> 2
      [] worker[j] = "persist" -> 5 - EntriesLeft(j)
      [] worker[j] = "commit" -> 6 [] worker[j] \in {"except", "return"} -> 7
      [] worker[j] = "recant" -> 8 [] OTHER -> 9

StepsOf(j) == ApiStage(j) + WorkerStage(j)

\* A step takes one job further, and no other one back.
EveryStepCounts ==
    [][\E j \in Jobs : /\ StepsOf(j)' > StepsOf(j)
                       /\ \A k \in Jobs \ {j} : StepsOf(k)' = StepsOf(k)]_vars
JobsAreFinite == \A j \in Jobs : StepsOf(j) \in 0 .. 12

\* For every set of jobs and every number of workers: a job that waits, waits
\* for one that goes on.  No worker is free only while others are at work.
THEOREM NobodyStarves == Spec => []WaitingJobsAreServed
<1>1. ASSUME IInv, NEW j \in Jobs, InFlight(j) PROVE \E k \in Jobs : CanGoOn(k)
  <2>1. CASE api[j] = "enqueue" \/ worker[j] \in Active
    BY <2>1 DEF CanGoOn
  <2>2. CASE j \in Queued /\ BusyWorkers # {}
    BY <2>2 DEF BusyWorkers, CanGoOn
  <2>3. CASE j \in Queued /\ BusyWorkers = {}
    <3>1. Cardinality(BusyWorkers) < Workers
      BY <2>3, FS_EmptySet, WorkersAssumption
    <3>2. queue \in Seq(Jobs) /\ queue # <<>>
      BY <1>1, <2>3 DEF Queued, Elements, IInv, TypeOK
    <3>3. Head(queue) \in Jobs
      BY <3>2
    <3> QED BY <3>1, <3>2, <3>3 DEF CanGoOn
  <2> QED BY <1>1, <2>1, <2>2, <2>3 DEF InFlight
<1>2. IInv /\ NoRowStrandedWithoutAFault => WaitingJobsAreServed
  BY <1>1 DEF NoRowStrandedWithoutAFault, WaitingJobsAreServed
<1> QED BY <1>2, Invariance, NotStranded, PTL

\* A stage is a number, and a job that nobody touches stays at its own.
LEMMA StagesAreNumbers ==
    ASSUME NEW j \in Jobs
    PROVE  /\ EntriesLeft(j) \in 0 .. 2
           /\ ApiStage(j) \in 0 .. 3
           /\ WorkerStage(j) \in 0 .. 9
<1>1. EntriesLeft(j) \in 0 .. 2
  BY DEF EntriesLeft
<1> QED BY <1>1 DEF ApiStage, WorkerStage

LEMMA StepsOfOthers ==
    ASSUME NEW k \in Jobs,
           api'[k] = api[k], worker'[k] = worker[k], session'[k] = session[k]
    PROVE  StepsOf(k)' = StepsOf(k)
BY DEF StepsOf, ApiStage, WorkerStage, EntriesLeft

\* The request handler goes on and its worker, if there is one, stays.
LEMMA ApiAdvances ==
    ASSUME TypeOK, NEW j \in Jobs, NEW stage, api' = [api EXCEPT ![j] = stage],
           UNCHANGED <<worker, session>>, ApiStage(j)' > ApiStage(j)
    PROVE  /\ StepsOf(j)' > StepsOf(j)
           /\ \A k \in Jobs \ {j} : StepsOf(k)' = StepsOf(k)
<1>1. \A k \in Jobs \ {j} : StepsOf(k)' = StepsOf(k)
  BY StepsOfOthers DEF TypeOK
<1>2. WorkerStage(j)' = WorkerStage(j)
  BY DEF WorkerStage, EntriesLeft
<1>3. /\ ApiStage(j) \in Int /\ WorkerStage(j) \in Int /\ ApiStage(j)' \in Int
  BY StagesAreNumbers DEF ApiStage
<1> QED BY <1>1, <1>2, <1>3 DEF StepsOf

\* The worker goes on, in its session or out of it.
Moves(j) == /\ worker' = [worker EXCEPT ![j] = worker'[j]]
            /\ session' = [session EXCEPT ![j] = session'[j]]
            /\ api' = api

LEMMA WorkerAdvances ==
    ASSUME TypeOK, NEW j \in Jobs, Moves(j), WorkerStage(j)' > WorkerStage(j)
    PROVE  /\ StepsOf(j)' > StepsOf(j)
           /\ \A k \in Jobs \ {j} : StepsOf(k)' = StepsOf(k)
<1>1. \A k \in Jobs \ {j} : StepsOf(k)' = StepsOf(k)
  BY StepsOfOthers DEF TypeOK, Moves
<1>2. ApiStage(j)' = ApiStage(j)
  BY DEF ApiStage, Moves
<1>3. /\ ApiStage(j) \in Int /\ WorkerStage(j) \in Int /\ WorkerStage(j)' \in Int
  <2>1. EntriesLeft(j)' \in Int
    BY DEF EntriesLeft
  <2> QED BY <2>1, StagesAreNumbers DEF WorkerStage
<1> QED BY <1>1, <1>2, <1>3 DEF StepsOf

LEMMA StepCounts ==
    ASSUME IInv, NEW j \in Jobs,
           Submit(j) \/ RequestStep(j) \/ Dequeue(j) \/ WorkerStep(j) \/ Fault(j)
    PROVE  /\ StepsOf(j)' > StepsOf(j)
           /\ \A k \in Jobs \ {j} : StepsOf(k)' = StepsOf(k)
<1> USE DEF rowVars, storeVars, Active
<1>1. TypeOK /\ HandlerInv(j)
  BY DEF IInv
<1>2. CASE CommitQueuedRow(j) \/ FakeJob(j)
  <2>1. \E stage : api' = [api EXCEPT ![j] = stage] /\ UNCHANGED <<worker, session>>
    BY <1>2 DEF CommitQueuedRow, FakeJob
  <2>2. ApiStage(j)' > ApiStage(j)
    BY <1>1, <1>2 DEF CommitQueuedRow, FakeJob, ApiStage, TypeOK
  <2> QED BY <1>1, <2>1, <2>2, ApiAdvances
<1>3. CASE RequestStep(j) \/ RequestFails(j)
  <2>1. \E stage : api' = [api EXCEPT ![j] = stage] /\ UNCHANGED <<worker, session>>
    BY <1>3 DEF RequestStep, PushToRedis, PushWithLostReply, RecordRqId, RequestFails
  <2>2. ApiStage(j)' > ApiStage(j)
    BY <1>1, <1>3 DEF RequestStep, PushToRedis, PushWithLostReply, RecordRqId,
                      RequestFails, ApiStage, TypeOK
  <2> QED BY <1>1, <2>1, <2>2, ApiAdvances
<1>4. CASE StartInline(j)
  <2>1. \A k \in Jobs \ {j} : StepsOf(k)' = StepsOf(k)
    BY <1>1, <1>4, StepsOfOthers DEF StartInline, TypeOK
  <2>2. /\ ApiStage(j) = 0 /\ WorkerStage(j) = 0
        /\ ApiStage(j)' = 3 /\ WorkerStage(j)' = 2
    BY <1>1, <1>4 DEF StartInline, TypeOK, HandlerInv, ApiStage, WorkerStage
  <2> QED BY <2>1, <2>2 DEF StepsOf
<1>5. CASE Dequeue(j) \/ WorkerStart(j) \/ RunRaises(j) \/ LateTimeout(j)
           \/ PersistRaises(j) \/ WorkerCommit(j)
  <2>1. Moves(j)
    BY <1>1, <1>5 DEF Dequeue, WorkerStart, RunRaises, LateTimeout, PersistRaises,
                      WorkerCommit, FlushSession, TypeOK, Moves
  <2>2. CASE Dequeue(j)
    <3>1. worker[j] = "none"
      BY <2>2 DEF Dequeue, IInv, QueueDeliversOnce, Queued, Elements, TypeOK
    <3>2. WorkerStage(j)' = 1 /\ WorkerStage(j) = 0
      BY <1>1, <2>2, <3>1 DEF Dequeue, WorkerStage, TypeOK
    <3>3. WorkerStage(j)' > WorkerStage(j)
      BY <3>2
    <3> QED BY <1>1, <2>1, <3>3, WorkerAdvances
  <2>3. CASE WorkerStart(j) \/ RunRaises(j) \/ LateTimeout(j) \/ WorkerCommit(j)
    <3>1. WorkerStage(j)' > WorkerStage(j)
      BY <1>1, <2>3 DEF WorkerStart, RunRaises, LateTimeout, WorkerCommit,
                        WorkerStage, TypeOK
    <3> QED BY <1>1, <2>1, <3>1, WorkerAdvances
  <2>4. CASE PersistRaises(j)
    <3>1. WorkerStage(j)' = 7 /\ WorkerStage(j) \in {3, 4, 5, 6}
      BY <1>1, <2>4, StagesAreNumbers DEF PersistRaises, WorkerStage, TypeOK
    <3>2. WorkerStage(j)' > WorkerStage(j)
      BY <3>1
    <3> QED BY <1>1, <2>1, <3>2, WorkerAdvances
  <2> QED BY <1>5, <2>2, <2>3, <2>4
<1>6. CASE RunBenchmark(j)
  <2>1. Moves(j)
    BY <1>1, <1>6 DEF RunBenchmark, TypeOK, Moves
  <2>2. EntriesLeft(j)' \in 0 .. 2
    BY DEF EntriesLeft
  <2>3. WorkerStage(j) = 2 /\ WorkerStage(j)' \in {3, 4, 5}
    BY <1>1, <1>6, <2>2 DEF RunBenchmark, WorkerStage, TypeOK
  <2>4. WorkerStage(j)' > WorkerStage(j)
    BY <2>3
  <2> QED BY <1>1, <2>1, <2>4, WorkerAdvances
<1>7. CASE UploadEntry(j) \/ UploadFails(j)
  <2>1. Moves(j) /\ worker'[j] = "persist" /\ worker[j] = "persist"
    BY <1>1, <1>7 DEF UploadEntry, UploadFails, TypeOK, Moves
  <2>2. session[j].todo \subseteq Kinds /\ session[j].todo # {}
    BY <1>1, <1>7 DEF UploadEntry, UploadFails, TypeOK, Session
  <2>3. session'[j].todo = session[j].todo \ {NextEntry(j)}
    BY <1>1, <1>7 DEF UploadEntry, UploadFails, TypeOK, Session
  <2>4. EntriesLeft(j)' = EntriesLeft(j) - 1
    BY <2>2, <2>3 DEF EntriesLeft, NextEntry, Kinds
  <2>5. WorkerStage(j)' = 5 - EntriesLeft(j)' /\ WorkerStage(j) = 5 - EntriesLeft(j)
    BY <2>1 DEF WorkerStage
  <2>6. WorkerStage(j)' > WorkerStage(j)
    BY <2>4, <2>5, StagesAreNumbers
  <2> QED BY <1>1, <2>1, <2>6, WorkerAdvances
<1>8. CASE LinkArtifacts(j)
  <2>1. Moves(j)
    BY <1>1, <1>8 DEF LinkArtifacts, TypeOK, Moves
  <2>2. WorkerStage(j)' = 6 /\ WorkerStage(j) \in {3, 4, 5}
    BY <1>1, <1>8, StagesAreNumbers DEF LinkArtifacts, WorkerStage, TypeOK
  <2>3. WorkerStage(j)' > WorkerStage(j)
    BY <2>2
  <2> QED BY <1>1, <2>1, <2>3, WorkerAdvances
<1>9. CASE WorkerReturn(j) \/ ExceptCommit(j) \/ RecantCommit(j) \/ WorkerDies(j)
  <2>1. Moves(j)
    BY <1>1, <1>9 DEF WorkerReturn, ExceptCommit, RecantCommit, WorkerDies,
                      CloseSession, TypeOK, Moves
  <2>2. worker[j] \in Active /\ worker'[j] \in {"done", "dead"}
    BY <1>1, <1>9 DEF WorkerReturn, ExceptCommit, RecantCommit, WorkerDies, TypeOK
  <2>3. WorkerStage(j)' = 9
    BY <2>2 DEF WorkerStage
  <2>4. WorkerStage(j) \in 0 .. 8
    BY <2>2, StagesAreNumbers DEF WorkerStage
  <2>5. WorkerStage(j)' > WorkerStage(j)
    BY <2>3, <2>4
  <2> QED BY <1>1, <2>1, <2>5, WorkerAdvances
<1> QED BY <1>2, <1>3, <1>4, <1>5, <1>6, <1>7, <1>8, <1>9
        DEF Submit, WorkerStep, Fault

\* Every step is progress of one job, and there are at most twelve of them: no
\* worker starts over, nothing is delivered again.  With NobodyStarves, and
\* handlers and workers scheduled, every job that was queued ends.
THEOREM JobsTakeFewSteps == Spec => EveryStepCounts /\ []JobsAreFinite
<1>1. IInv /\ [Next]_vars
        => [\E j \in Jobs : /\ StepsOf(j)' > StepsOf(j)
                            /\ \A k \in Jobs \ {j} : StepsOf(k)' = StepsOf(k)]_vars
  BY StepCounts DEF Next
<1>2. JobsAreFinite
  BY StagesAreNumbers DEF JobsAreFinite, StepsOf
<1> QED BY <1>1, <1>2, Invariance, PTL DEF Spec, EveryStepCounts

=============================================================================
