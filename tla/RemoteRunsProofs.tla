-------------------------- MODULE RemoteRunsProofs --------------------------
(***************************************************************************)
(* For any number of runs and result files: RunInv is inductive, a server   *)
(* that nobody told to stop is explained,
      and a run that had the machine to    *)
(* itself reports itself.  One lemma per action; in each, the conjuncts of  *)
(* the invariant are proved for an arbitrary run s.                         *)
(***************************************************************************)
EXTENDS RemoteRunsInvariant, TLAPS

\* RunInv holds before any run has begun.
LEMMA RunInvInit == Init => RunInv
BY RunAssumption DEF Init, RunInv, TypeOK, ServerInv, AloneInv, ReportInv,
    Busy, Alive, Live, Early, AfterStart, InCharge, Maybe

\* A job that begins is alone only if nothing of any run is left.
LEMMA BeginInv ==
    ASSUME RunInv, NEW r \in Runs, Begin(r)
    PROVE  RunInv'
<1> USE RunAssumption, PathAssumption, PlanAssumption
<1>1. TypeOK'
  BY DEF RunInv, TypeOK, Begin, Goto, remote, Live, Maybe
<1>2. ASSUME NEW s \in Runs PROVE ServerInv(s)'
  BY <1>1 DEF RunInv, TypeOK, ServerInv, Alive, Begin, Goto, remote, Live,
      Maybe,
      InCharge
<1>3. ASSUME NEW s \in Runs PROVE AloneInv(s)'
  BY DEF RunInv, TypeOK, AloneInv, Busy, Alive, Begin, Goto, remote, Live, Maybe
<1>4. ASSUME NEW s \in Runs PROVE ReportInv(s)'
  BY DEF RunInv, TypeOK, ServerInv, AloneInv, ReportInv, Busy, Alive, Begin,
      Goto,
      remote, Live,
         Maybe, Early, AfterStart
<1> QED BY <1>1, <1>2, <1>3, <1>4 DEF RunInv

\* The directory is made.
LEMMA MkdirInv ==
    ASSUME RunInv, NEW r \in Runs, Mkdir(r)
    PROVE  RunInv'
<1> USE RunAssumption, PathAssumption, PlanAssumption
<1>1. TypeOK'
  BY DEF RunInv, TypeOK, Mkdir, Goto, remote, Live, Maybe
<1>2. ASSUME NEW s \in Runs PROVE ServerInv(s)'
  BY <1>1 DEF RunInv, TypeOK, ServerInv, Alive, Mkdir, Goto, remote, Live,
      Maybe,
      InCharge
<1>3. ASSUME NEW s \in Runs PROVE AloneInv(s)'
  BY DEF RunInv, TypeOK, AloneInv, Busy, Alive, Mkdir, Goto, remote, Live, Maybe
<1>4. ASSUME NEW s \in Runs PROVE ReportInv(s)'
  BY DEF RunInv, TypeOK, ServerInv, AloneInv, ReportInv, Busy, Alive, Mkdir,
      Goto,
      remote, Live,
         Maybe, Early, AfterStart
<1> QED BY <1>1, <1>2, <1>3, <1>4 DEF RunInv

\* A server is started and heard of.
LEMMA StartServerInv ==
    ASSUME RunInv, NEW r \in Runs, StartServer(r)
    PROVE  RunInv'
<1> USE RunAssumption, PathAssumption, PlanAssumption
<1>1. TypeOK'
  BY DEF RunInv, TypeOK, StartServer, Goto, Launch, Live, Maybe
<1>2. ASSUME NEW s \in Runs PROVE ServerInv(s)'
  BY <1>1 DEF RunInv, TypeOK, ServerInv, Alive, StartServer, Goto, Launch, Live,
      Maybe, InCharge
<1>3. ASSUME NEW s \in Runs PROVE AloneInv(s)'
  BY DEF RunInv, TypeOK, AloneInv, Busy, Alive, StartServer, Goto, Launch,
      Live, Maybe
<1>4. ASSUME NEW s \in Runs PROVE ReportInv(s)'
  BY DEF RunInv, TypeOK, ServerInv, AloneInv, ReportInv, Busy, Alive,
      StartServer,
      Goto, Launch, Live,
         Maybe, Early, AfterStart
<1> QED BY <1>1, <1>2, <1>3, <1>4 DEF RunInv

\* A server is started and its pid is lost.
LEMMA StartServerUnheardInv ==
    ASSUME RunInv, NEW r \in Runs, StartServerUnheard(r)
    PROVE  RunInv'
<1> USE RunAssumption, PathAssumption, PlanAssumption
<1>1. TypeOK'
  BY DEF RunInv, TypeOK, StartServerUnheard, Goto, Loses, Launch, Live, Maybe
<1>2. ASSUME NEW s \in Runs PROVE ServerInv(s)'
  <2>1. CASE Launch(r) /\ pc[r] = "start"
    <3>1. CASE s = r
      BY <2>1, <3>1 DEF RunInv, TypeOK, ServerInv, Alive, Launch,
      StartServerUnheard,
          Goto, Loses,
             Live, Maybe, InCharge
    <3>2. CASE s # r
      BY <2>1, <3>2 DEF RunInv, TypeOK, ServerInv, Alive, Launch,
      StartServerUnheard,
          Goto, Loses,
             Live, Maybe, InCharge
    <3> QED BY <3>1, <3>2
  <2> QED BY <2>1 DEF StartServerUnheard
<1>3. ASSUME NEW s \in Runs PROVE AloneInv(s)'
  BY DEF RunInv, TypeOK, AloneInv, Busy, Alive, StartServerUnheard, Goto, Loses,
      Launch, Live, Maybe
<1>4. ASSUME NEW s \in Runs PROVE ReportInv(s)'
  BY DEF RunInv, TypeOK, ServerInv, AloneInv, ReportInv, Busy, Alive,
      StartServerUnheard, Goto, Loses, Launch, Live,
         Maybe, Early, AfterStart
<1> QED BY <1>1, <1>2, <1>3, <1>4 DEF RunInv

\* The set-up fails without an effect.
LEMMA SetupFailsInv ==
    ASSUME RunInv, NEW r \in Runs, SetupFails(r)
    PROVE  RunInv'
<1> USE RunAssumption, PathAssumption, PlanAssumption
<1>1. TypeOK'
  BY DEF RunInv, TypeOK, SetupFails, Goto, remote, Live, Maybe
<1>2. ASSUME NEW s \in Runs PROVE ServerInv(s)'
  BY <1>1 DEF RunInv, TypeOK, ServerInv, Alive, SetupFails, Goto, remote, Live,
      Maybe, InCharge
<1>3. ASSUME NEW s \in Runs PROVE AloneInv(s)'
  BY DEF RunInv, TypeOK, AloneInv, Busy, Alive, SetupFails, Goto, remote, Live,
      Maybe
<1>4. ASSUME NEW s \in Runs PROVE ReportInv(s)'
  BY DEF RunInv, TypeOK, ServerInv, AloneInv, ReportInv, Busy, Alive,
      SetupFails,
      Goto, remote, Live,
         Maybe, Early, AfterStart
<1> QED BY <1>1, <1>2, <1>3, <1>4 DEF RunInv

\* The run waits for its server.
LEMMA WarmupInv ==
    ASSUME RunInv, NEW r \in Runs, Warmup(r)
    PROVE  RunInv'
<1> USE RunAssumption, PathAssumption, PlanAssumption
<1>1. TypeOK'
  BY DEF RunInv, TypeOK, Warmup, Goto, remote, Live, Maybe
<1>2. ASSUME NEW s \in Runs PROVE ServerInv(s)'
  BY <1>1 DEF RunInv, TypeOK, ServerInv, Alive, Warmup, Goto, remote, Live,
      Maybe,
      InCharge
<1>3. ASSUME NEW s \in Runs PROVE AloneInv(s)'
  BY DEF RunInv, TypeOK, AloneInv, Busy, Alive, Warmup, Goto, remote, Live,
      Maybe
<1>4. ASSUME NEW s \in Runs PROVE ReportInv(s)'
  BY DEF RunInv, TypeOK, ServerInv, AloneInv, ReportInv, Busy, Alive, Warmup,
      Goto,
      remote, Live,
         Maybe, Early, AfterStart
<1> QED BY <1>1, <1>2, <1>3, <1>4 DEF RunInv

\* The benchmark is bound to whoever listens.
LEMMA StartBenchInv ==
    ASSUME RunInv, NEW r \in Runs, StartBench(r)
    PROVE  RunInv'
<1> USE RunAssumption, PathAssumption, PlanAssumption
<1>1. TypeOK'
  BY DEF RunInv, TypeOK, StartBench, Goto, Live, Maybe
<1>2. ASSUME NEW s \in Runs PROVE ServerInv(s)'
  BY <1>1 DEF RunInv, TypeOK, ServerInv, Alive, StartBench, Goto, Live, Maybe,
      InCharge
<1>3. ASSUME NEW s \in Runs PROVE AloneInv(s)'
  BY DEF RunInv, TypeOK, AloneInv, Busy, Alive, StartBench, Goto, Live, Maybe
<1>4. ASSUME NEW s \in Runs PROVE ReportInv(s)'
  BY DEF RunInv, TypeOK, ServerInv, AloneInv, ReportInv, Busy, Alive,
      StartBench,
      Goto, Live,
         Maybe, Early, AfterStart
<1> QED BY <1>1, <1>2, <1>3, <1>4 DEF RunInv

\* The benchmark could not be started.
LEMMA BenchUnreachableInv ==
    ASSUME RunInv, NEW r \in Runs, BenchUnreachable(r)
    PROVE  RunInv'
<1> USE RunAssumption, PathAssumption, PlanAssumption
<1>1. TypeOK'
  BY DEF RunInv, TypeOK, BenchUnreachable, Goto, AfterBench, remote, Live, Maybe
<1>2. ASSUME NEW s \in Runs PROVE ServerInv(s)'
  BY <1>1 DEF RunInv, TypeOK, ServerInv, Alive, BenchUnreachable, Goto,
      AfterBench,
      remote, Live, Maybe, InCharge
<1>3. ASSUME NEW s \in Runs PROVE AloneInv(s)'
  BY DEF RunInv, TypeOK, AloneInv, Busy, Alive, BenchUnreachable, Goto,
      AfterBench,
      remote, Live, Maybe
<1>4. ASSUME NEW s \in Runs PROVE ReportInv(s)'
  BY DEF RunInv, TypeOK, ServerInv, AloneInv, ReportInv, Busy, Alive,
      BenchUnreachable, Goto, AfterBench, remote, Live,
         Maybe, Early, AfterStart
<1> QED BY <1>1, <1>2, <1>3, <1>4 DEF RunInv

\* The remote process ends well.
LEMMA BenchSucceedsInv ==
    ASSUME RunInv, NEW r \in Runs, BenchSucceeds(r)
    PROVE  RunInv'
<1> USE RunAssumption, PathAssumption, PlanAssumption
<1>1. TypeOK'
  BY DEF RunInv, TypeOK, BenchSucceeds, Live, Maybe
<1>2. ASSUME NEW s \in Runs PROVE ServerInv(s)'
  BY <1>1 DEF RunInv, TypeOK, ServerInv, Alive, BenchSucceeds, Live, Maybe,
      InCharge
<1>3. ASSUME NEW s \in Runs PROVE AloneInv(s)'
  BY DEF RunInv, TypeOK, AloneInv, Busy, Alive, BenchSucceeds, Live, Maybe
<1>4. ASSUME NEW s \in Runs PROVE ReportInv(s)'
  <2>1. CASE s = r
    <3>1. alone[r] /\ pc[r] \in AfterStart => target[r] = r
      <4> SUFFICES ASSUME alone[r], pc[r] \in AfterStart PROVE target[r] = r
        OBVIOUS
      <4>1. pc[r] \in Live
        BY DEF AfterStart, Live
      <4>2. CASE r \notin Serving
        BY <4>2 DEF RunInv, ReportInv, BenchSucceeds
      <4>3. CASE r \in Serving
        <5>1. target[r] = port /\ port \in Runs
          BY <4>3 DEF RunInv, TypeOK, BenchSucceeds, Maybe
        <5>2. Alive(port)
          BY <5>1 DEF RunInv, ServerInv
        <5>3. port \notin Runs \ {r}
          BY <4>1, <5>2 DEF RunInv, AloneInv, Busy
        <5> QED BY <5>1, <5>3
      <4> QED BY <4>2, <4>3
    <3>2. file'[PathOf[r]] = r /\ bench'[r] = "ok"
      BY DEF RunInv, TypeOK, BenchSucceeds
    <3> QED BY <2>1, <3>1, <3>2 DEF RunInv, TypeOK, ReportInv, BenchSucceeds,
            Early, AfterStart
  <2>2. CASE s # r
    <3>1. bench'[s] = bench[s]
      BY <2>2 DEF RunInv, TypeOK, BenchSucceeds
    <3>2. ~(alone[s] /\ pc[s] \in AfterStart)
      BY <2>2 DEF RunInv, AloneInv, Busy, BenchSucceeds, AfterStart, Live
    <3> QED BY <3>1, <3>2 DEF RunInv, ReportInv, BenchSucceeds
  <2> QED BY <2>1, <2>2
<1> QED BY <1>1, <1>2, <1>3, <1>4 DEF RunInv

\* The remote process fails.
LEMMA BenchFailsInv ==
    ASSUME RunInv, NEW r \in Runs, BenchFails(r)
    PROVE  RunInv'
<1> USE RunAssumption, PathAssumption, PlanAssumption
<1>1. TypeOK'
  BY DEF RunInv, TypeOK, BenchFails, Live, Maybe
<1>2. ASSUME NEW s \in Runs PROVE ServerInv(s)'
  BY <1>1 DEF RunInv, TypeOK, ServerInv, Alive, BenchFails, Live, Maybe,
      InCharge
<1>3. ASSUME NEW s \in Runs PROVE AloneInv(s)'
  BY DEF RunInv, TypeOK, AloneInv, Busy, Alive, BenchFails, Live, Maybe
<1>4. ASSUME NEW s \in Runs PROVE ReportInv(s)'
  BY DEF RunInv, TypeOK, ServerInv, AloneInv, ReportInv, Busy, Alive,
      BenchFails, Live,
         Maybe, Early, AfterStart
<1> QED BY <1>1, <1>2, <1>3, <1>4 DEF RunInv

\* The exit status is reported.
LEMMA StreamEndsInv ==
    ASSUME RunInv, NEW r \in Runs, StreamEnds(r)
    PROVE  RunInv'
<1> USE RunAssumption, PathAssumption, PlanAssumption
<1>1. TypeOK'
  BY DEF RunInv, TypeOK, StreamEnds, Goto, AfterBench, remote, Live, Maybe
<1>2. ASSUME NEW s \in Runs PROVE ServerInv(s)'
  BY <1>1 DEF RunInv, TypeOK, ServerInv, Alive, StreamEnds, Goto, AfterBench,
      remote,
      Live, Maybe, InCharge
<1>3. ASSUME NEW s \in Runs PROVE AloneInv(s)'
  BY DEF RunInv, TypeOK, AloneInv, Busy, Alive, StreamEnds, Goto, AfterBench,
      remote,
      Live, Maybe
<1>4. ASSUME NEW s \in Runs PROVE ReportInv(s)'
  BY DEF RunInv, TypeOK, ServerInv, AloneInv, ReportInv, Busy, Alive,
      StreamEnds,
      Goto, AfterBench, remote, Live,
         Maybe, Early, AfterStart
<1> QED BY <1>1, <1>2, <1>3, <1>4 DEF RunInv

\* The connection breaks.
LEMMA StreamBreaksInv ==
    ASSUME RunInv, NEW r \in Runs, StreamBreaks(r)
    PROVE  RunInv'
<1> USE RunAssumption, PathAssumption, PlanAssumption
<1>1. TypeOK'
  BY DEF RunInv, TypeOK, StreamBreaks, Goto, Loses, AfterBench, remote, Live,
      Maybe
<1>2. ASSUME NEW s \in Runs PROVE ServerInv(s)'
  BY <1>1 DEF RunInv, TypeOK, ServerInv, Alive, StreamBreaks, Goto, Loses,
      AfterBench, remote, Live, Maybe, InCharge
<1>3. ASSUME NEW s \in Runs PROVE AloneInv(s)'
  BY DEF RunInv, TypeOK, AloneInv, Busy, Alive, StreamBreaks, Goto, Loses,
      AfterBench, remote, Live, Maybe
<1>4. ASSUME NEW s \in Runs PROVE ReportInv(s)'
  BY DEF RunInv, TypeOK, ServerInv, AloneInv, ReportInv, Busy, Alive,
      StreamBreaks,
      Goto, Loses, AfterBench, remote, Live,
         Maybe, Early, AfterStart
<1> QED BY <1>1, <1>2, <1>3, <1>4 DEF RunInv

\* The stream is given up.
LEMMA StreamTimesOutInv ==
    ASSUME RunInv, NEW r \in Runs, StreamTimesOut(r)
    PROVE  RunInv'
<1> USE RunAssumption, PathAssumption, PlanAssumption
<1>1. TypeOK'
  BY DEF RunInv, TypeOK, StreamTimesOut, Goto, remote, Live, Maybe
<1>2. ASSUME NEW s \in Runs PROVE ServerInv(s)'
  BY <1>1 DEF RunInv, TypeOK, ServerInv, Alive, StreamTimesOut, Goto, remote,
      Live,
      Maybe, InCharge
<1>3. ASSUME NEW s \in Runs PROVE AloneInv(s)'
  BY DEF RunInv, TypeOK, AloneInv, Busy, Alive, StreamTimesOut, Goto, remote,
      Live,
      Maybe
<1>4. ASSUME NEW s \in Runs PROVE ReportInv(s)'
  BY DEF RunInv, TypeOK, ServerInv, AloneInv, ReportInv, Busy, Alive,
      StreamTimesOut,
      Goto, remote, Live,
         Maybe, Early, AfterStart
<1> QED BY <1>1, <1>2, <1>3, <1>4 DEF RunInv

\* The channel closes.
LEMMA StreamDrainedInv ==
    ASSUME RunInv, NEW r \in Runs, StreamDrained(r)
    PROVE  RunInv'
<1> USE RunAssumption, PathAssumption, PlanAssumption
<1>1. TypeOK'
  BY DEF RunInv, TypeOK, StreamDrained, Goto, AfterBench, Live, Maybe
<1>2. ASSUME NEW s \in Runs PROVE ServerInv(s)'
  BY <1>1 DEF RunInv, TypeOK, ServerInv, Alive, StreamDrained, Goto, AfterBench,
      Live, Maybe, InCharge
<1>3. ASSUME NEW s \in Runs PROVE AloneInv(s)'
  BY DEF RunInv, TypeOK, AloneInv, Busy, Alive, StreamDrained, Goto, AfterBench,
      Live, Maybe
<1>4. ASSUME NEW s \in Runs PROVE ReportInv(s)'
  BY DEF RunInv, TypeOK, ServerInv, AloneInv, ReportInv, Busy, Alive,
      StreamDrained,
      Goto, AfterBench, Live,
         Maybe, Early, AfterStart
<1> QED BY <1>1, <1>2, <1>3, <1>4 DEF RunInv

\* The connection breaks while the run waits for the channel.
LEMMA DrainBreaksInv ==
    ASSUME RunInv, NEW r \in Runs, DrainBreaks(r)
    PROVE  RunInv'
<1> USE RunAssumption, PathAssumption, PlanAssumption
<1>1. TypeOK'
  BY DEF RunInv, TypeOK, DrainBreaks, Goto, Loses, AfterBench, remote, Live,
      Maybe
<1>2. ASSUME NEW s \in Runs PROVE ServerInv(s)'
  BY <1>1 DEF RunInv, TypeOK, ServerInv, Alive, DrainBreaks, Goto, Loses,
      AfterBench, remote, Live, Maybe, InCharge
<1>3. ASSUME NEW s \in Runs PROVE AloneInv(s)'
  BY DEF RunInv, TypeOK, AloneInv, Busy, Alive, DrainBreaks, Goto, Loses,
      AfterBench, remote, Live, Maybe
<1>4. ASSUME NEW s \in Runs PROVE ReportInv(s)'
  BY DEF RunInv, TypeOK, ServerInv, AloneInv, ReportInv, Busy, Alive,
      DrainBreaks,
      Goto, Loses, AfterBench, remote, Live,
         Maybe, Early, AfterStart
<1> QED BY <1>1, <1>2, <1>3, <1>4 DEF RunInv

\* The coroutine is cancelled inside the try block.
LEMMA CancelInv ==
    ASSUME RunInv, NEW r \in Runs, Cancel(r)
    PROVE  RunInv'
<1> USE RunAssumption, PathAssumption, PlanAssumption
<1>1. TypeOK'
  BY DEF RunInv, TypeOK, Cancel, Goto, remote, Live, Maybe
<1>2. ASSUME NEW s \in Runs PROVE ServerInv(s)'
  BY <1>1 DEF RunInv, TypeOK, ServerInv, Alive, Cancel, Goto, remote, Live,
      Maybe,
      InCharge
<1>3. ASSUME NEW s \in Runs PROVE AloneInv(s)'
  BY DEF RunInv, TypeOK, AloneInv, Busy, Alive, Cancel, Goto, remote, Live,
      Maybe
<1>4. ASSUME NEW s \in Runs PROVE ReportInv(s)'
  BY DEF RunInv, TypeOK, ServerInv, AloneInv, ReportInv, Busy, Alive, Cancel,
      Goto,
      remote, Live,
         Maybe, Early, AfterStart
<1> QED BY <1>1, <1>2, <1>3, <1>4 DEF RunInv

\* The coroutine or the process is lost elsewhere.
LEMMA AbortInv ==
    ASSUME RunInv, NEW r \in Runs, Abort(r)
    PROVE  RunInv'
<1> USE RunAssumption, PathAssumption, PlanAssumption
<1>1. TypeOK'
  BY DEF RunInv, TypeOK, Abort, Goto, Loses, Launch, remote, Live, Maybe
<1>2. ASSUME NEW s \in Runs PROVE ServerInv(s)'
  <2>1. CASE Launch(r) /\ pc[r] = "start"
    <3>1. CASE s = r
      BY <2>1, <3>1 DEF RunInv, TypeOK, ServerInv, Alive, Launch, Abort, Goto,
      Loses,
             Live, Maybe, InCharge
    <3>2. CASE s # r
      BY <2>1, <3>2 DEF RunInv, TypeOK, ServerInv, Alive, Launch, Abort, Goto,
      Loses,
             Live, Maybe, InCharge
    <3> QED BY <3>1, <3>2
  <2>2. CASE UNCHANGED remote
    BY <2>2 DEF RunInv, TypeOK, ServerInv, Alive, Abort, Goto, Loses, remote,
      Live,
           InCharge
  <2> QED BY <2>1, <2>2 DEF Abort
<1>3. ASSUME NEW s \in Runs PROVE AloneInv(s)'
  BY DEF RunInv, TypeOK, AloneInv, Busy, Alive, Abort, Goto, Loses, Launch,
      remote,
      Live, Maybe
<1>4. ASSUME NEW s \in Runs PROVE ReportInv(s)'
  BY DEF RunInv, TypeOK, ServerInv, AloneInv, ReportInv, Busy, Alive, Abort,
      Goto,
      Loses, Launch, remote, Live,
         Maybe, Early, AfterStart
<1> QED BY <1>1, <1>2, <1>3, <1>4 DEF RunInv

\* The server is told to stop.
LEMMA KillServerInv ==
    ASSUME RunInv, NEW r \in Runs, KillServer(r)
    PROVE  RunInv'
<1> USE RunAssumption, PathAssumption, PlanAssumption
<1>1. TypeOK'
  BY DEF RunInv, TypeOK, KillServer, Goto, AfterKill, Live, Maybe
<1>2. ASSUME NEW s \in Runs PROVE ServerInv(s)'
  BY <1>1 DEF RunInv, TypeOK, ServerInv, Alive, KillServer, Goto, AfterKill,
      Live,
      Maybe, InCharge
<1>3. ASSUME NEW s \in Runs PROVE AloneInv(s)'
  BY DEF RunInv, TypeOK, AloneInv, Busy, Alive, KillServer, Goto, AfterKill,
      Live,
      Maybe
<1>4. ASSUME NEW s \in Runs PROVE ReportInv(s)'
  BY DEF RunInv, TypeOK, ServerInv, AloneInv, ReportInv, Busy, Alive,
      KillServer,
      Goto, AfterKill, Live,
         Maybe, Early, AfterStart
<1> QED BY <1>1, <1>2, <1>3, <1>4 DEF RunInv

\* The kill is lost.
LEMMA KillFailsInv ==
    ASSUME RunInv, NEW r \in Runs, KillFails(r)
    PROVE  RunInv'
<1> USE RunAssumption, PathAssumption, PlanAssumption
<1>1. TypeOK'
  BY DEF RunInv, TypeOK, KillFails, Goto, Loses, AfterKill, remote, Live, Maybe
<1>2. ASSUME NEW s \in Runs PROVE ServerInv(s)'
  BY <1>1 DEF RunInv, TypeOK, ServerInv, Alive, KillFails, Goto, Loses,
      AfterKill,
      remote, Live, Maybe, InCharge
<1>3. ASSUME NEW s \in Runs PROVE AloneInv(s)'
  BY DEF RunInv, TypeOK, AloneInv, Busy, Alive, KillFails, Goto, Loses,
      AfterKill,
      remote, Live, Maybe
<1>4. ASSUME NEW s \in Runs PROVE ReportInv(s)'
  BY DEF RunInv, TypeOK, ServerInv, AloneInv, ReportInv, Busy, Alive, KillFails,
      Goto, Loses, AfterKill, remote, Live,
         Maybe, Early, AfterStart
<1> QED BY <1>1, <1>2, <1>3, <1>4 DEF RunInv

\* The result file is read.
LEMMA ReadResultInv ==
    ASSUME RunInv, NEW r \in Runs, ReadResult(r)
    PROVE  RunInv'
<1> USE RunAssumption, PathAssumption, PlanAssumption
<1>1. TypeOK'
  <2>1. file[PathOf[r]] \in Maybe
    BY DEF RunInv, TypeOK
  <2>2. raw' \in [Runs -> Maybe]
    <3>1. CASE UNCHANGED raw
      BY <3>1 DEF RunInv, TypeOK
    <3>2. CASE raw' = [raw EXCEPT ![r] = file[PathOf[r]]]
      BY <2>1, <3>2 DEF RunInv, TypeOK
    <3> QED BY <3>1, <3>2 DEF ReadResult
  <2>3. pc' \in [Runs -> Live \cup {"idle", "done", "aborted"}]
    BY DEF RunInv, TypeOK, ReadResult, Goto, Live
  <2> QED BY <2>2, <2>3 DEF RunInv, TypeOK, ReadResult, remote
<1>2. ASSUME NEW s \in Runs PROVE ServerInv(s)'
  BY <1>1 DEF RunInv, TypeOK, ServerInv, Alive, ReadResult, Goto, remote, Live,
      Maybe, InCharge
<1>3. ASSUME NEW s \in Runs PROVE AloneInv(s)'
  BY DEF RunInv, TypeOK, AloneInv, Busy, Alive, ReadResult, Goto, remote, Live,
      Maybe
<1>4. ASSUME NEW s \in Runs PROVE ReportInv(s)'
  BY DEF RunInv, TypeOK, ServerInv, AloneInv, ReportInv, Busy, Alive,
      ReadResult,
      Goto, remote, Live,
         Maybe, Early, AfterStart
<1> QED BY <1>1, <1>2, <1>3, <1>4 DEF RunInv

\* The server ends, of the signal or by itself.
LEMMA ServerEndsInv ==
    ASSUME RunInv, NEW r \in Runs, ServerEnds(r)
    PROVE  RunInv'
<1> USE RunAssumption, PathAssumption, PlanAssumption
<1>1. TypeOK'
  BY DEF RunInv, TypeOK, ServerEnds, Live, Maybe
<1>2. ASSUME NEW s \in Runs PROVE ServerInv(s)'
  BY <1>1 DEF RunInv, TypeOK, ServerInv, Alive, ServerEnds, Live, Maybe,
      InCharge
<1>3. ASSUME NEW s \in Runs PROVE AloneInv(s)'
  BY DEF RunInv, TypeOK, AloneInv, Busy, Alive, ServerEnds, Live, Maybe
<1>4. ASSUME NEW s \in Runs PROVE ReportInv(s)'
  BY DEF RunInv, TypeOK, ServerInv, AloneInv, ReportInv, Busy, Alive,
      ServerEnds,
      Live,
         Maybe, Early, AfterStart
<1> QED BY <1>1, <1>2, <1>3, <1>4 DEF RunInv

\* Nothing in the invariant depends on more than the variables.
LEMMA StutterInv == RunInv /\ UNCHANGED vars => RunInv'
BY DEF RunInv, TypeOK, ServerInv, AloneInv, ReportInv, Busy, Alive, vars, Live,
      Maybe,
       Early, AfterStart, InCharge

\* Every step of every run preserves RunInv.
LEMMA RunInvStep == RunInv /\ [Next]_vars => RunInv'
<1> SUFFICES ASSUME RunInv, [Next]_vars PROVE RunInv'
  OBVIOUS
<1>1. CASE UNCHANGED vars
  BY <1>1, StutterInv
<1>2. ASSUME NEW r \in Runs, Step(r) PROVE RunInv'
  BY <1>2, MkdirInv, StartServerInv, WarmupInv, StartBenchInv, StreamEndsInv,
     StreamTimesOutInv, KillServerInv, KillFailsInv, ReadResultInv DEF Step
<1>3. ASSUME NEW r \in Runs, Environment(r) PROVE RunInv'
  BY <1>3, BeginInv, StartServerUnheardInv, SetupFailsInv, BenchUnreachableInv,
     BenchSucceedsInv, BenchFailsInv, StreamBreaksInv, StreamDrainedInv,
     DrainBreaksInv, CancelInv, AbortInv, ServerEndsInv DEF Environment
<1> QED BY <1>1, <1>2, <1>3 DEF Next

\* RunInv holds in every reachable state, for every set of runs.
THEOREM RunInvariance == Spec => []RunInv
BY RunInvInit, RunInvStep, PTL DEF Spec

\* Every variable keeps its type.
THEOREM RunTypeCorrect == Spec => []TypeOK
<1>1. RunInv => TypeOK
  BY DEF RunInv
<1> QED BY <1>1, RunInvariance, PTL

\* A server that was not told to stop outlives its run only after a lost reply
\* or an abort outside the try block (benchmark.py:208-227).
THEOREM LeaksAreExplained == Spec => []LeakedServerIsExplained
<1>1. RunInv => LeakedServerIsExplained
  BY DEF RunInv, ServerInv, InCharge, LeakedServerIsExplained
<1> QED BY <1>1, RunInvariance, PTL

\* A run that was alone on the machine and succeeded measured its own server
\* and read back its own file.
THEOREM ExclusiveRunsReportThemselves == Spec => []ExclusiveRunReportsItself
<1>1. RunInv => ExclusiveRunReportsItself
  BY DEF RunInv, TypeOK, ReportInv, AfterStart, ExclusiveRunReportsItself
<1> QED BY <1>1, RunInvariance, PTL

-----------------------------------------------------------------------------
(* The refinement of StreamCall: where a run has got to determines what its *)
(* call may still do.                                                       *)

\* No call has been made before any run has begun.
LEMMA CallInvInit == Init => \A r \in Runs : CallInv(r)
BY DEF Init, CallInv, Early

\* A run's outcome follows its position in every step, its own or another's.
LEMMA CallInvStep ==
    ASSUME TypeOK, \A r \in Runs : CallInv(r), [Next]_vars, NEW s \in Runs
    PROVE  CallInv(s)'
<1>1. CASE UNCHANGED vars
  BY <1>1 DEF vars, CallInv, Early
<1>2. ASSUME NEW r \in Runs, Step(r) PROVE CallInv(s)'
  <2>1. CASE Mkdir(r)
    BY <2>1 DEF Mkdir, Goto, remote, TypeOK, CallInv, Early
  <2>2. CASE StartServer(r)
    BY <2>2 DEF StartServer, Goto, Launch, TypeOK, CallInv, Early
  <2>3. CASE Warmup(r)
    BY <2>3 DEF Warmup, Goto, remote, TypeOK, CallInv, Early
  <2>4. CASE StartBench(r)
    BY <2>4 DEF StartBench, Goto, TypeOK, CallInv, Early
  <2>5. CASE StreamEnds(r)
    BY <2>5 DEF StreamEnds, Goto, AfterBench, remote, TypeOK, CallInv, Early
  <2>6. CASE StreamTimesOut(r)
    BY <2>6 DEF StreamTimesOut, Goto, remote, TypeOK, CallInv, Early
  <2>7. CASE KillServer(r)
    BY <2>7 DEF KillServer, Goto, AfterKill, TypeOK, CallInv, Early
  <2>8. CASE KillFails(r)
    BY <2>8 DEF KillFails, Goto, Loses, AfterKill, remote, TypeOK, CallInv,
       Early
  <2>9. CASE ReadResult(r)
    BY <2>9 DEF ReadResult, Goto, remote, TypeOK, CallInv, Early
  <2> QED BY <1>2, <2>1, <2>2, <2>3, <2>4, <2>5, <2>6, <2>7, <2>8, <2>9 DEF
         Step
<1>3. ASSUME NEW r \in Runs, Environment(r) PROVE CallInv(s)'
  <2>1. CASE Begin(r)
    BY <2>1 DEF Begin, Goto, remote, Live, TypeOK, CallInv, Early
  <2>2. CASE StartServerUnheard(r)
    BY <2>2 DEF StartServerUnheard, Goto, Loses, Launch, TypeOK, CallInv,
       Early
  <2>3. CASE SetupFails(r)
    BY <2>3 DEF SetupFails, Goto, remote, TypeOK, CallInv, Early
  <2>4. CASE BenchUnreachable(r)
    BY <2>4 DEF BenchUnreachable, Goto, AfterBench, remote, TypeOK, CallInv,
       Early
  <2>5. CASE BenchSucceeds(r)
    BY <2>5 DEF BenchSucceeds, TypeOK, CallInv, Early
  <2>6. CASE BenchFails(r)
    BY <2>6 DEF BenchFails, TypeOK, CallInv, Early
  <2>7. CASE StreamBreaks(r)
    BY <2>7 DEF StreamBreaks, Goto, Loses, AfterBench, remote, TypeOK,
       CallInv, Early
  <2>8. CASE StreamDrained(r)
    BY <2>8 DEF StreamDrained, Goto, AfterBench, TypeOK, CallInv, Early
  <2>9. CASE DrainBreaks(r)
    BY <2>9 DEF DrainBreaks, Goto, Loses, AfterBench, remote, TypeOK,
       CallInv, Early
  <2>10. CASE Cancel(r)
    BY <2>10 DEF Cancel, Goto, remote, TypeOK, CallInv, Early
  <2>11. CASE Abort(r)
    BY <2>11 DEF Abort, Goto, Loses, Launch, remote, Live, TypeOK, CallInv,
       Early
  <2>12. CASE ServerEnds(r)
    BY <2>12 DEF ServerEnds, TypeOK, CallInv, Early
  <2> QED BY <1>3, <2>1, <2>2, <2>3, <2>4, <2>5, <2>6, <2>7, <2>8, <2>9,
         <2>10, <2>11, <2>12 DEF Environment
<1> QED BY <1>1, <1>2, <1>3 DEF Next

\* No run has called stream before it has begun.
LEMMA CallInit ==
    ASSUME Init, NEW s \in Runs
    PROVE  Call(s)!Init
BY DEF Init, Call!Init

\* Every step of a run is a step of its own call, or leaves it as it is; a
\* step of another run leaves it as it is.
LEMMA CallStep ==
    ASSUME TypeOK, \A r \in Runs : CallInv(r), [Next]_vars, NEW s \in Runs
    PROVE  Call(s)!Next \/ UNCHANGED Call(s)!vars
<1> USE DEF Call!Next, Call!vars, Call!Send, Call!End, Call!Return, Call!Break,
            Call!TimeOut, Call!Drain, Call!Drop, Call!Answer, Call!Ended
<1>1. CASE UNCHANGED vars
  BY <1>1 DEF vars
<1>2. ASSUME NEW r \in Runs,
      Step(r) PROVE Call(s)!Next \/ UNCHANGED Call(s)!vars
  <2>1. CASE Mkdir(r)
    BY <2>1 DEF Mkdir, Goto, remote, TypeOK, CallInv, Early
  <2>2. CASE StartServer(r)
    BY <2>2 DEF StartServer, Goto, Launch, TypeOK, CallInv, Early
  <2>3. CASE Warmup(r)
    BY <2>3 DEF Warmup, Goto, remote, TypeOK, CallInv, Early
  <2>4. CASE StartBench(r)
    BY <2>4 DEF StartBench, Goto, TypeOK, CallInv, Early
  <2>5. CASE StreamEnds(r)
    BY <2>5 DEF StreamEnds, Goto, AfterBench, remote, TypeOK, CallInv, Early
  <2>6. CASE StreamTimesOut(r)
    BY <2>6 DEF StreamTimesOut, Goto, remote, TypeOK, CallInv, Early
  <2>7. CASE KillServer(r)
    BY <2>7 DEF KillServer, Goto, AfterKill, TypeOK, CallInv, Early
  <2>8. CASE KillFails(r)
    BY <2>8 DEF KillFails, Goto, Loses, AfterKill, remote, TypeOK, CallInv,
       Early
  <2>9. CASE ReadResult(r)
    BY <2>9 DEF ReadResult, Goto, remote, TypeOK, CallInv, Early
  <2> QED BY <1>2, <2>1, <2>2, <2>3, <2>4, <2>5, <2>6, <2>7, <2>8, <2>9 DEF
         Step
<1>3. ASSUME NEW r \in Runs,
      Environment(r) PROVE Call(s)!Next \/ UNCHANGED Call(s)!vars
  <2>1. CASE Begin(r)
    BY <2>1 DEF Begin, Goto, remote, Live, TypeOK, CallInv, Early
  <2>2. CASE StartServerUnheard(r)
    BY <2>2 DEF StartServerUnheard, Goto, Loses, Launch, TypeOK, CallInv,
       Early
  <2>3. CASE SetupFails(r)
    BY <2>3 DEF SetupFails, Goto, remote, TypeOK, CallInv, Early
  <2>4. CASE BenchUnreachable(r)
    BY <2>4 DEF BenchUnreachable, Goto, AfterBench, remote, TypeOK, CallInv,
       Early
  <2>5. CASE BenchSucceeds(r)
    BY <2>5 DEF BenchSucceeds, TypeOK, CallInv, Early
  <2>6. CASE BenchFails(r)
    BY <2>6 DEF BenchFails, TypeOK, CallInv, Early
  <2>7. CASE StreamBreaks(r)
    BY <2>7 DEF StreamBreaks, Goto, Loses, AfterBench, remote, TypeOK,
       CallInv, Early
  <2>8. CASE StreamDrained(r)
    BY <2>8 DEF StreamDrained, Goto, AfterBench, TypeOK, CallInv, Early
  <2>9. CASE DrainBreaks(r)
    BY <2>9 DEF DrainBreaks, Goto, Loses, AfterBench, remote, TypeOK,
       CallInv, Early
  <2>10. CASE Cancel(r)
    BY <2>10 DEF Cancel, Goto, remote, TypeOK, CallInv, Early
  <2>11. CASE Abort(r)
    BY <2>11 DEF Abort, Goto, Loses, Launch, remote, Live, TypeOK, CallInv,
       Early
  <2>12. CASE ServerEnds(r)
    BY <2>12 DEF ServerEnds, TypeOK, CallInv, Early
  <2> QED BY <1>3, <2>1, <2>2, <2>3, <2>4, <2>5, <2>6, <2>7, <2>8, <2>9,
         <2>10, <2>11, <2>12 DEF Environment
<1> QED BY <1>1, <1>2, <1>3 DEF Next

\* For every set of runs, each run's use of the executor implements the
\* contract of its stream call.
THEOREM StreamCallsImplemented == Spec => ImplementsStreamCall
<1> DEFINE CInv == \A r \in Runs : CallInv(r)
           Starts == \A r \in Runs : Call(r)!Init
           Steps == \A r \in Runs : Call(r)!Next \/ UNCHANGED Call(r)!vars
<1>1. Init => Starts
  BY CallInit
<1>2. TypeOK /\ CInv /\ [Next]_vars => CInv'
  BY CallInvStep
<1>3. TypeOK /\ CInv /\ [Next]_vars => Steps
  BY CallStep
<1>4. Init => CInv
  BY CallInvInit
<1> QED
  <2>1. ImplementsStreamCall <=> Starts /\ [][Steps]_vars
    BY DEF ImplementsStreamCall
  <2> HIDE DEF CInv, Starts, Steps
  <2>2. Spec => []CInv
    BY <1>2, <1>4, RunTypeCorrect, PTL DEF Spec
  <2>3. Spec => [][Steps]_vars
    BY <1>3, <2>2, RunTypeCorrect, PTL DEF Spec
  <2> QED BY <1>1, <2>3, <2>1, PTL DEF Spec

-----------------------------------------------------------------------------
(* No run goes on for ever: the part of EveryRunReturns that is not          *)
(* temporal.                                                                *)

\* How far a run has got, with its server and its benchmark.
RunStage(r) ==
    CASE pc[r] = "idle" -> 0 [] pc[r] = "mkdir" -> 1 [] pc[r] = "start" -> 2
      [] pc[r] = "warmup" -> 3 [] pc[r] = "bench" -> 4 [] pc[r] = "stream" -> 5
      [] pc[r] = "drain" -> 6 [] pc[r] \in {"kill", "unwind"} -> 7
      [] pc[r] = "cat" -> 8 [] OTHER -> 9
ServerStage(r) ==
    CASE server[r] = "none" -> 0 [] server[r] = "up" -> 1
      [] server[r] = "stopping" -> 2 [] OTHER -> 3
BenchStage(r) == CASE bench[r] = "none" -> 0 [] bench[r] = "running" -> 1 [] OTHER -> 2

StepsOf(r) == RunStage(r) + ServerStage(r) + BenchStage(r)

\* A step takes one run further, and leaves the others where they are.
EveryStepCounts ==
    [][\E r \in Runs : /\ StepsOf(r)' > StepsOf(r)
                       /\ \A o \in Runs \ {r} : StepsOf(o)' = StepsOf(o)]_vars
RunsAreFinite == \A r \in Runs : StepsOf(r) \in 0 .. 14

LEMMA StagesOfOthers ==
    ASSUME NEW o \in Runs,
           pc'[o] = pc[o], server'[o] = server[o], bench'[o] = bench[o]
    PROVE  StepsOf(o)' = StepsOf(o)
BY DEF StepsOf, RunStage, ServerStage, BenchStage

\* One run moves: nobody else's server or benchmark changes.
LEMMA OneRunMoves ==
    ASSUME RunInv, NEW r \in Runs, Step(r) \/ Environment(r),
      NEW o \in Runs \ {r}
    PROVE  pc'[o] = pc[o] /\ server'[o] = server[o] /\ bench'[o] = bench[o]
<1> USE DEF RunInv, TypeOK, Goto, remote
<1>1. CASE Step(r)
  BY <1>1 DEF Step, Mkdir, StartServer, Launch, Warmup, StartBench, StreamEnds,
     StreamTimesOut, KillServer, KillFails, ReadResult
<1>2. CASE Begin(r) \/ StartServerUnheard(r) \/ SetupFails(r) \/ BenchUnreachable(r)
           \/ BenchSucceeds(r) \/ BenchFails(r)
  BY <1>2 DEF Begin, StartServerUnheard, Launch, SetupFails, BenchUnreachable,
     BenchSucceeds, BenchFails
<1>3. CASE StreamBreaks(r) \/ StreamDrained(r) \/ DrainBreaks(r) \/ Cancel(r)
           \/ Abort(r) \/ ServerEnds(r)
  BY <1>3 DEF StreamBreaks, StreamDrained, DrainBreaks, Cancel, Abort, Launch,
     ServerEnds
<1> QED BY <1>1, <1>2, <1>3 DEF Environment

LEMMA RunStepCounts ==
    ASSUME RunInv, NEW r \in Runs, Step(r) \/ Environment(r)
    PROVE  StepsOf(r)' > StepsOf(r)
<1> USE DEF RunInv, TypeOK, Goto, remote, StepsOf, RunStage, ServerStage,
            BenchStage, ServerInv, ReportInv, Early
<1>1. CASE Mkdir(r) \/ Warmup(r)
  BY <1>1 DEF Mkdir, Warmup
<1>2. CASE StartServer(r) \/ StartServerUnheard(r)
  BY <1>2 DEF StartServer, StartServerUnheard, Launch
<1>3. CASE StartBench(r) \/ BenchUnreachable(r)
  BY <1>3 DEF StartBench, BenchUnreachable, AfterBench
<1>4. CASE StreamEnds(r) \/ StreamTimesOut(r) \/ StreamBreaks(r)
  BY <1>4 DEF StreamEnds, StreamTimesOut, StreamBreaks, AfterBench
<1>5. CASE KillServer(r)
  BY <1>5 DEF KillServer, AfterKill
<1>6. CASE KillFails(r) \/ ReadResult(r)
  BY <1>6 DEF KillFails, ReadResult, AfterKill
<1>7. CASE SetupFails(r)
  BY <1>7 DEF SetupFails
<1>13. CASE Begin(r)
  <2>1. pc[r] = "idle" /\ pc'[r] = "mkdir" /\ UNCHANGED <<server, bench>>
    BY <1>13 DEF Begin
  <2>2. RunStage(r) = 0 /\ RunStage(r)' = 1
    BY <2>1
  <2> QED BY <2>1, <2>2
<1>8. CASE StreamDrained(r) \/ DrainBreaks(r)
  BY <1>8 DEF StreamDrained, DrainBreaks, AfterBench
<1>9. CASE Cancel(r) \/ ServerEnds(r)
  BY <1>9 DEF Cancel, ServerEnds, Alive
<1>10. CASE Abort(r)
  BY <1>10 DEF Abort, Launch, Live
<1>11. CASE BenchSucceeds(r)
  BY <1>11 DEF BenchSucceeds
<1>12. CASE BenchFails(r)
  BY <1>12 DEF BenchFails
<1> QED BY <1>1, <1>2, <1>3, <1>4, <1>5, <1>6, <1>7, <1>8, <1>9, <1>10, <1>11,
      <1>12,
        <1>13 DEF Step, Environment

\* Whatever fails and whoever is cancelled, a run, its server and its benchmark
\* take at most fourteen steps between them: no command is tried again.
THEOREM RunsTakeFewSteps == Spec => EveryStepCounts /\ []RunsAreFinite
<1>1. RunInv /\ [Next]_vars
        => [\E r \in Runs : /\ StepsOf(r)' > StepsOf(r)
                            /\ \A o \in Runs \ {r} : StepsOf(o)' = StepsOf(o)]_vars
  BY RunStepCounts, OneRunMoves, StagesOfOthers DEF Next
<1>2. RunsAreFinite
  BY DEF RunsAreFinite, StepsOf, RunStage, ServerStage, BenchStage
<1> QED BY <1>1, <1>2, RunInvariance, PTL DEF Spec, EveryStepCounts

=============================================================================
