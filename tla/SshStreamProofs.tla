--------------------------- MODULE SshStreamProofs ---------------------------
(***************************************************************************)
(* For any number of lines and any size of the session's buffer: the answer *)
(* of a finished command comes after its whole log, the log is then left     *)
(* alone, and the stream keeps the promise of StreamCall.  The argument is   *)
(* StreamInv: a reader that has ended has seen the channel closed, and the   *)
(* close comes behind the data of a command that has ended.  Then: no buffer *)
(* blocks the call, and the call takes a limited number of steps.            *)
(***************************************************************************)
EXTENDS SshStream, TLAPS

\* Lines are written, received and read in that order.
Flow ==
    \A s \in Streams : read[s] <= received[s] /\ received[s] <= written[s]

\* What the channel, a reader and the coroutine know of the others.
ChannelInv ==
    /\ channel = "closed" => process \in {"ok", "failed"} /\ received = written
    /\ channel = "none" => process = "none"
ReaderInv ==
    \A s \in Streams :
        reader[s] = "ended" => channel = "closed" /\ read[s] = received[s]
CoroutineInv ==
    /\ pc = "idle" => channel = "none"
    /\ pc \in {"wait", "gather", "kill"} => channel # "none"
    /\ pc # "returned" => code = "none"
    /\ code \in {"zero", "nonzero"} => \A s \in Streams : reader[s] = "ended"
    /\ code = "124" => \A s \in Streams : reader[s] # "reading"

StreamInv == TypeOK /\ Flow /\ ChannelInv /\ ReaderInv /\ CoroutineInv

\* Nothing has been sent yet.
LEMMA StreamInvInit == Init => StreamInv
<1> SUFFICES ASSUME Init PROVE StreamInv
  OBVIOUS
<1>1. TypeOK
  <2>1. 0 \in 0 .. MaxLines
    BY LinesAssumption
  <2> QED BY <2>1 DEF Init, TypeOK
<1>2. Flow
  BY DEF Init, Flow
<1>3. ChannelInv /\ ReaderInv /\ CoroutineInv
  BY DEF Init, ChannelInv, ReaderInv, CoroutineInv
<1> QED BY <1>1, <1>2, <1>3 DEF StreamInv

\* Every step of the coroutine, the readers, the server and the network
\* preserves StreamInv.
LEMMA StreamInvStep == StreamInv /\ [Next]_vars => StreamInv'
<1> SUFFICES ASSUME StreamInv, [Next]_vars PROVE StreamInv'
  OBVIOUS
<1> USE LinesAssumption
<1>1. CASE Start
  BY <1>1 DEF Start, Streams, StreamInv, TypeOK, Flow, ChannelInv,
     ReaderInv, CoroutineInv
<1>2. CASE Unreachable
  BY <1>2 DEF Unreachable, Answer, remote, StreamInv, TypeOK, Flow,
     ChannelInv, ReaderInv, CoroutineInv, Streams
<1>3. CASE Exit
  BY <1>3 DEF Exit, client, StreamInv, TypeOK, Flow, ChannelInv, ReaderInv,
     CoroutineInv, Streams
<1>4. CASE Break
  BY <1>4 DEF Break, client, remote, StreamInv, TypeOK, Flow, ChannelInv,
     ReaderInv, CoroutineInv, Streams
<1>5. CASE Cancel
  BY <1>5 DEF Cancel, remote, StreamInv, TypeOK, Flow, ChannelInv,
     ReaderInv, CoroutineInv, Streams
<1>6. CASE SignalArrives
  BY <1>6 DEF SignalArrives, client, StreamInv, TypeOK, Flow, ChannelInv,
     ReaderInv, CoroutineInv, Streams
<1>7. CASE CloseChannel
  BY <1>7 DEF CloseChannel, Room, client, remote, StreamInv, TypeOK, Flow,
     ChannelInv, ReaderInv, CoroutineInv, Streams
<1>8. CASE WaitClosed
  BY <1>8 DEF WaitClosed, remote, StreamInv, TypeOK, Flow, ChannelInv,
     ReaderInv, CoroutineInv, Streams
<1>9. CASE TimesOut
  BY <1>9 DEF TimesOut, Answer, remote, StreamInv, TypeOK, Flow, ChannelInv,
     ReaderInv, CoroutineInv, Streams
<1>10. CASE Drained
  BY <1>10 DEF Drained, Answer, remote, Streams, StreamInv, TypeOK, Flow,
     ChannelInv, ReaderInv, CoroutineInv
<1>11. CASE Gathered
  BY <1>11 DEF Gathered, Answer, remote, Streams, StreamInv, TypeOK, Flow,
     ChannelInv, ReaderInv, CoroutineInv
<1>12. CASE GatherRaises
  BY <1>12 DEF GatherRaises, Answer, remote, Streams, StreamInv, TypeOK,
     Flow, ChannelInv, ReaderInv, CoroutineInv
<1>13. ASSUME NEW s \in Streams, Write(s) PROVE StreamInv'
  BY <1>13 DEF Write, client, StreamInv, TypeOK, Flow, ChannelInv,
     ReaderInv, CoroutineInv, Streams
<1>14. ASSUME NEW s \in Streams, Receive(s) PROVE StreamInv'
  BY <1>14 DEF Receive, Room, client, remote, StreamInv, TypeOK, Flow,
     ChannelInv, ReaderInv, CoroutineInv, Streams
<1>15. ASSUME NEW s \in Streams, ReadLine(s) PROVE StreamInv'
  BY <1>15 DEF ReadLine, remote, StreamInv, TypeOK, Flow, ChannelInv,
     ReaderInv, CoroutineInv, Streams
<1>16. ASSUME NEW s \in Streams, ReaderEnds(s) PROVE StreamInv'
  BY <1>16 DEF ReaderEnds, remote, StreamInv, TypeOK, Flow, ChannelInv,
     ReaderInv, CoroutineInv, Streams
<1>17. CASE UNCHANGED vars
  BY <1>17 DEF vars, client, remote, StreamInv, TypeOK, Flow, ChannelInv,
     ReaderInv, CoroutineInv, Streams
<1> QED BY <1>1, <1>2, <1>3, <1>4, <1>5, <1>6, <1>7, <1>8, <1>9, <1>10,
        <1>11, <1>12, <1>13, <1>14, <1>15, <1>16, <1>17 DEF Next, Coroutine,
        Reader, Server, Environment

\* StreamInv holds in every reachable state.
THEOREM StreamInvariance == Spec => []StreamInv
BY StreamInvInit, StreamInvStep, PTL DEF Spec

\* Every variable keeps its type.
THEOREM StreamTypeCorrect == Spec => []TypeOK
<1>1. StreamInv => TypeOK
  BY DEF StreamInv
<1> QED BY <1>1, StreamInvariance, PTL

\* The exit status of a command is answered after its last line.
THEOREM AnswersComeAfterTheLog == Spec => []AnswerComesAfterTheLog
<1>1. StreamInv => AnswerComesAfterTheLog
  <2> SUFFICES ASSUME StreamInv, code \in {"zero", "nonzero"}
               PROVE  read = written
    BY DEF AnswerComesAfterTheLog
  <2>1. \A s \in Streams : read[s] = received[s] /\ received = written
    BY DEF StreamInv, ReaderInv, ChannelInv, CoroutineInv
  <2> QED BY <2>1 DEF StreamInv, TypeOK, Streams
<1> QED BY <1>1, StreamInvariance, PTL

\* After an exit status or a timeout has been answered, no reader is left that
\* could still add a line.
THEOREM LogsAreFrozen == Spec => LogIsFrozen
<1>1. ASSUME StreamInv, [Next]_vars, code \in {"zero", "nonzero", "124"}
      PROVE  read' = read
  <2>1. \A s \in Streams : reader[s] # "reading"
    BY <1>1 DEF StreamInv, CoroutineInv
  <2>2. \A s \in Streams : ~ReadLine(s)
    BY <2>1 DEF ReadLine
  <2> QED
    BY <1>1, <2>2 DEF Next, Coroutine, Server, Environment, Reader, Start,
       Unreachable, Exit, Break, Cancel, Write, SignalArrives, CloseChannel,
       Receive, WaitClosed, TimesOut, Drained, Gathered, GatherRaises,
       ReaderEnds, client, vars
<1> DEFINE Frozen == (code \in {"zero", "nonzero", "124"}) => read' = read
<1>2. StreamInv /\ [Next]_vars => [Frozen]_vars
  BY <1>1
<1>3. LogIsFrozen <=> [][Frozen]_vars
  BY DEF LogIsFrozen
<1> HIDE DEF Frozen
<1> QED BY <1>2, <1>3, StreamInvariance, PTL DEF Spec

\* Every step of the stream is a step of its contract, or leaves it as it is.
LEMMA ContractStep ==
    StreamInv /\ [Next]_vars => [Contract!Next]_(Contract!vars)
<1> SUFFICES ASSUME StreamInv, [Next]_vars
             PROVE  Contract!Next \/ UNCHANGED Contract!vars
  OBVIOUS
<1> USE DEF Contract!Next, Contract!vars, Contract!Send, Contract!End,
            Contract!Return, Contract!Break, Contract!TimeOut, Contract!Drain,
            Contract!Drop, Contract!Answer, Contract!Ended
<1>1. CASE Start
  BY <1>1 DEF Start, Streams, StreamInv, TypeOK, ChannelInv, ReaderInv,
     CoroutineInv
<1>2. CASE Unreachable
  BY <1>2 DEF Unreachable, Answer, remote, StreamInv, TypeOK, ChannelInv,
     ReaderInv, CoroutineInv, Streams
<1>3. CASE Exit
  BY <1>3 DEF Exit, client, StreamInv, TypeOK, ChannelInv, ReaderInv,
     CoroutineInv, Streams
<1>4. CASE Break
  BY <1>4 DEF Break, client, remote, StreamInv, TypeOK, ChannelInv,
     ReaderInv, CoroutineInv, Streams
<1>5. CASE Cancel
  BY <1>5 DEF Cancel, remote, StreamInv, TypeOK, ChannelInv, ReaderInv,
     CoroutineInv, Streams
<1>6. CASE SignalArrives
  BY <1>6 DEF SignalArrives, client, StreamInv, TypeOK, ChannelInv,
     ReaderInv, CoroutineInv, Streams
<1>7. CASE CloseChannel
  BY <1>7 DEF CloseChannel, Room, client, remote, StreamInv, TypeOK,
     ChannelInv, ReaderInv, CoroutineInv, Streams
<1>8. CASE WaitClosed
  BY <1>8 DEF WaitClosed, remote, StreamInv, TypeOK, ChannelInv, ReaderInv,
     CoroutineInv, Streams
<1>9. CASE TimesOut
  BY <1>9 DEF TimesOut, Answer, remote, StreamInv, TypeOK, ChannelInv,
     ReaderInv, CoroutineInv, Streams
<1>10. CASE Drained
  BY <1>10 DEF Drained, Answer, remote, Streams, StreamInv, TypeOK,
     ChannelInv, ReaderInv, CoroutineInv
<1>11. CASE Gathered
  BY <1>11 DEF Gathered, Answer, remote, Streams, StreamInv, TypeOK,
     ChannelInv, ReaderInv, CoroutineInv
<1>12. CASE GatherRaises
  BY <1>12 DEF GatherRaises, Answer, remote, Streams, StreamInv, TypeOK,
     ChannelInv, ReaderInv, CoroutineInv
<1>13. ASSUME NEW s \in Streams, Write(s) PROVE Contract!Next \/ UNCHANGED Contract!vars
  BY <1>13 DEF Write, client, StreamInv, TypeOK, ChannelInv, ReaderInv,
     CoroutineInv, Streams
<1>14. ASSUME NEW s \in Streams, Receive(s) PROVE Contract!Next \/ UNCHANGED Contract!vars
  BY <1>14 DEF Receive, Room, client, remote, StreamInv, TypeOK, ChannelInv,
     ReaderInv, CoroutineInv, Streams
<1>15. ASSUME NEW s \in Streams, ReadLine(s) PROVE Contract!Next \/ UNCHANGED Contract!vars
  BY <1>15 DEF ReadLine, remote, StreamInv, TypeOK, ChannelInv, ReaderInv,
     CoroutineInv, Streams
<1>16. ASSUME NEW s \in Streams, ReaderEnds(s) PROVE Contract!Next \/ UNCHANGED Contract!vars
  BY <1>16 DEF ReaderEnds, remote, StreamInv, TypeOK, ChannelInv, ReaderInv,
     CoroutineInv, Streams
<1>17. CASE UNCHANGED vars
  BY <1>17 DEF vars, client, remote, StreamInv, TypeOK, ChannelInv,
     ReaderInv, CoroutineInv, Streams
<1> QED BY <1>1, <1>2, <1>3, <1>4, <1>5, <1>6, <1>7, <1>8, <1>9, <1>10,
        <1>11, <1>12, <1>13, <1>14, <1>15, <1>16, <1>17 DEF Next, Coroutine,
        Reader, Server, Environment

\* The stream implements StreamCall, whatever the command writes and however
\* small the buffer is.
THEOREM StreamCallImplemented == Spec => ImplementsStreamCall
<1>1. Init => Contract!Init
  BY DEF Init, Contract!Init
<1> QED
  BY <1>1, ContractStep, StreamInvariance, PTL
  DEF Spec, ImplementsStreamCall, Contract!Spec

-----------------------------------------------------------------------------
(* Nothing blocks for ever: the parts of StreamComesBack that are not        *)
(* temporal.                                                                *)

\* Until the channel is closed both readers go on emptying the buffer, and
\* nobody gathers them before that.
ReadersAreOn ==
    /\ pc \in {"wait", "kill"} /\ channel = "open" =>
         \A s \in Streams : reader[s] = "reading"
    /\ pc \in {"wait", "gather"} =>
         \A s \in Streams : reader[s] \in {"reading", "ended", "raised"}
    /\ pc = "gather" => channel # "open"
    /\ pc = "kill" => killed
    /\ channel = "open" => process # "none"

\* Who can take a step: the coroutine, a reader, the server.
CoroutineCanGoOn ==
    \/ pc = "wait"
    \/ pc = "kill" /\ channel # "open"
    \/ pc = "gather" /\ \/ \E s \in Streams : reader[s] = "raised"
                        \/ \A s \in Streams : reader[s] = "ended"

ReaderCanGoOn(s) ==
    reader[s] = "reading" /\ (read[s] < received[s] \/ channel # "open")

ServerCanGoOn ==
    /\ channel = "open"
    /\ \/ killed /\ process = "running"
       \/ Room /\ \E s \in Streams : received[s] < written[s]
       \/ Room /\ received = written /\ process \in {"ok", "failed"}

SomebodyCanGoOn ==
    pc \in {"wait", "gather", "kill"} =>
        CoroutineCanGoOn \/ ServerCanGoOn \/ \E s \in Streams : ReaderCanGoOn(s)

\* How far all of them have got: each step adds to it.
Stage == CASE pc = "idle" -> 0 [] pc = "wait" -> 1
           [] pc \in {"gather", "kill"} -> 2 [] OTHER -> 3
ReaderStage(s) == CASE reader[s] = "none" -> 0 [] reader[s] = "reading" -> 1
                    [] OTHER -> 2
ChannelStage == CASE channel = "none" -> 0 [] channel = "open" -> 1 [] OTHER -> 2
ProcessStage == CASE process = "none" -> 0 [] process = "running" -> 1 [] OTHER -> 2

StepsTaken ==
    Stage + ReaderStage("stdout") + ReaderStage("stderr")
    + ChannelStage + ProcessStage
    + written["stdout"] + received["stdout"] + read["stdout"]
    + written["stderr"] + received["stderr"] + read["stderr"]

EveryStepCounts == [][StepsTaken' > StepsTaken]_vars
StepsAreLimited == StepsTaken <= 11 + 6 * MaxLines

LEMMA ReadersAreOnInit == Init => ReadersAreOn
  BY DEF Init, ReadersAreOn

LEMMA ReadersAreOnStep == StreamInv /\ ReadersAreOn /\ [Next]_vars => ReadersAreOn'
  <1> SUFFICES ASSUME StreamInv, ReadersAreOn, [Next]_vars PROVE ReadersAreOn'
    OBVIOUS
  <1> USE DEF ReadersAreOn, StreamInv, TypeOK, ChannelInv, Streams, client, remote
  <1>1. CASE Start \/ Unreachable \/ Exit \/ Break \/ Cancel
    BY <1>1 DEF Start, Unreachable, Exit, Break, Cancel, Answer
  <1>2. CASE \E s \in Streams : Write(s)
    BY <1>2 DEF Write
  <1>3. CASE Server
    BY <1>3 DEF Server, SignalArrives, CloseChannel, Receive
  <1>4. CASE WaitClosed
    BY <1>4 DEF WaitClosed
  <1>5. CASE TimesOut \/ Drained \/ Gathered \/ GatherRaises
    BY <1>5 DEF TimesOut, Drained, Gathered, GatherRaises, Answer
  <1>6. CASE \E s \in Streams : Reader(s)
    BY <1>6 DEF Reader, ReadLine, ReaderEnds
  <1>7. CASE UNCHANGED vars
    BY <1>7 DEF vars
  <1> QED BY <1>1, <1>2, <1>3, <1>4, <1>5, <1>6, <1>7 DEF Next, Environment, Coroutine

LEMMA ReadersStayOn == Spec => []ReadersAreOn
  BY ReadersAreOnInit, ReadersAreOnStep, StreamInvariance, PTL DEF Spec

\* Whatever the buffer holds, one of coroutine, readers and server can take a
\* step until the call is over: a full buffer has a reader, and an empty one
\* lets the data, the signal or the close through (executor.py:293-314).
THEOREM BuffersNeverBlock == Spec => []SomebodyCanGoOn
  <1>1. StreamInv /\ ReadersAreOn => SomebodyCanGoOn
    <2> SUFFICES ASSUME StreamInv, ReadersAreOn, pc \in {"gather", "kill"}
                 PROVE  CoroutineCanGoOn \/ ServerCanGoOn
                        \/ \E s \in Streams : ReaderCanGoOn(s)
      BY DEF SomebodyCanGoOn, CoroutineCanGoOn
    <2>1. CASE pc = "gather"
      BY <2>1 DEF ReadersAreOn, CoroutineCanGoOn, ReaderCanGoOn, Streams
    <2>2. CASE pc = "kill" /\ channel # "open"
      BY <2>2 DEF CoroutineCanGoOn
    <2>3. CASE pc = "kill" /\ channel = "open" /\ ~Room
      <3>1. \A s \in Streams : read[s] \in Nat /\ received[s] \in Nat
        BY DEF StreamInv, TypeOK
      <3>2. \E s \in Streams : read[s] < received[s]
        BY <2>3, <3>1, LinesAssumption DEF Room, StreamInv, Flow, Streams
      <3> QED BY <2>3, <3>2 DEF ReaderCanGoOn, ReadersAreOn
    <2>4. CASE pc = "kill" /\ channel = "open" /\ Room
      <3>1. killed /\ process \in {"running", "ok", "failed"}
        BY <2>4 DEF ReadersAreOn, StreamInv, TypeOK
      <3>2. CASE received = written
        BY <2>4, <3>1, <3>2 DEF ServerCanGoOn
      <3>3. CASE received # written
        <4>1. \E s \in Streams : received[s] # written[s]
          BY <3>3 DEF StreamInv, TypeOK
        <4>2. \E s \in Streams : received[s] < written[s]
          BY <4>1, LinesAssumption DEF StreamInv, Flow, TypeOK
        <4> QED BY <2>4, <4>2 DEF ServerCanGoOn
      <3> QED BY <3>2, <3>3
    <2> QED BY <2>1, <2>2, <2>3, <2>4
  <1> QED BY <1>1, StreamInvariance, ReadersStayOn, PTL

\* No step takes back what another did: the stages only go up, and so do the
\* numbers of lines.
LEMMA StepCounts == StreamInv /\ Next => StepsTaken' > StepsTaken
  <1> SUFFICES ASSUME StreamInv, Next PROVE StepsTaken' > StepsTaken
    OBVIOUS
  <1> USE DEF StepsTaken, Stage, ReaderStage, ChannelStage, ProcessStage,
              StreamInv, TypeOK, Streams, client, remote
  <1> USE LinesAssumption
  <1>1. CASE Start \/ Unreachable
    BY <1>1 DEF Start, Unreachable, Answer, CoroutineInv, ChannelInv
  <1>2. CASE Exit
    BY <1>2 DEF Exit
  <1>3. CASE Break
    BY <1>3 DEF Break
  <1>4. CASE Cancel
    BY <1>4 DEF Cancel
  <1>5. CASE \E s \in Streams : Write(s)
    BY <1>5 DEF Write
  <1>6. CASE SignalArrives \/ CloseChannel
    BY <1>6 DEF SignalArrives, CloseChannel
  <1>7. CASE \E s \in Streams : Receive(s)
    BY <1>7 DEF Receive
  <1>8. CASE WaitClosed \/ TimesOut \/ Gathered \/ GatherRaises
    BY <1>8 DEF WaitClosed, TimesOut, Gathered, GatherRaises, Answer
  <1>9. CASE Drained
    BY <1>9 DEF Drained, Answer
  <1>10. CASE \E s \in Streams : ReadLine(s)
    BY <1>10 DEF ReadLine
  <1>11. CASE \E s \in Streams : ReaderEnds(s)
    BY <1>11 DEF ReaderEnds
  <1> QED BY <1>1, <1>2, <1>3, <1>4, <1>5, <1>6, <1>7, <1>8, <1>9, <1>10, <1>11
          DEF Next, Environment, Coroutine, Server, Reader

\* A call and its command are over after a number of steps that depends on the
\* lines alone: with BuffersNeverBlock, and each of the three scheduled, the
\* call comes back.
THEOREM CallsAreFinite == Spec => EveryStepCounts /\ []StepsAreLimited
  <1>1. StreamInv /\ [Next]_vars => [StepsTaken' > StepsTaken]_vars
    BY StepCounts
  <1>2. StreamInv => StepsAreLimited
    BY LinesAssumption
    DEF StreamInv, TypeOK, Streams, StepsAreLimited, StepsTaken, Stage,
        ReaderStage, ChannelStage, ProcessStage
  <1> QED BY <1>1, <1>2, StreamInvariance, PTL DEF Spec, EveryStepCounts

=============================================================================
