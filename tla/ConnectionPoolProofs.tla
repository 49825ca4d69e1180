------------------------- MODULE ConnectionPoolProofs -------------------------
(***************************************************************************)
(* For any requests, any size of the pool and any number of worker threads:  *)
(* when a request is refused, in which ways everything can come to a          *)
(* standstill, how a stall of the event loop ends, and that no request starts  *)
(* over.                                                                      *)
(***************************************************************************)
EXTENDS ConnectionPool, FiniteSetTheorems, TLAPS

\* A connection is held in these stages, and while it is being returned: by the
\* commit or by the close.  A request that timed out has none to return.
Connected == {"work", "ssh", "resume", "ok"}

HeldWhileConnected ==
    \A r \in Requests :
        /\ pc[r] \in Connected => r \in held
        /\ r \in held => pc[r] \in Connected \cup {"closing"}

\* Threads run synchronous handlers, only asynchronous ones await SSH.
StageFitsKind ==
    \A r \in Requests :
        /\ pc[r] = "work" => r \in SyncRequests
        /\ pc[r] \in {"ssh", "resume"} => r \in AsyncRequests

\* An asynchronous request that waits for a connection blocks the loop.
LoopIsBlocked ==
    \A a \in AsyncRequests : loop = a <=> pc[a] \in {"begin", "refresh"}

CrowdIsNoticed == crowded \/ Cardinality(InFlight) <= PoolSize

PoolInv ==
    /\ TypeOK
    /\ HeldWhileConnected
    /\ StageFitsKind
    /\ LoopIsBlocked
    /\ CrowdIsNoticed
    /\ RefusedOnlyWhenCrowded

-----------------------------------------------------------------------------
(* Lemmas about counting requests.                                          *)

\* Sets of requests are finite, and a part has no more members than the whole.
LEMMA RequestsAreCounted ==
    ASSUME NEW S \in SUBSET Requests, NEW T \in SUBSET S
    PROVE  /\ IsFiniteSet(S) /\ Cardinality(S) \in Nat
           /\ IsFiniteSet(T) /\ Cardinality(T) \in Nat
           /\ Cardinality(T) <= Cardinality(S)
  <1>1. IsFiniteSet(S)
    BY FS_Subset, PoolAssumption
  <1> QED BY <1>1, FS_Subset, FS_CardinalityType

\* A request without a connection, in a set that has those with one, makes the
\* set larger than the number of connections in use.
LEMMA OneMoreThanHeld ==
    ASSUME NEW S \in SUBSET Requests, NEW T \in SUBSET S,
           NEW r \in S, r \notin T
    PROVE  Cardinality(S) > Cardinality(T)
  <1>1. IsFiniteSet(T) /\ Cardinality(T) \in Nat
    BY RequestsAreCounted
  <1>2. Cardinality(T \cup {r}) = Cardinality(T) + 1
    BY <1>1, FS_AddElement
  <1>3. Cardinality(T \cup {r}) <= Cardinality(S) /\ Cardinality(S) \in Nat
    <2>1. T \cup {r} \in SUBSET S
      OBVIOUS
    <2> QED BY <2>1, RequestsAreCounted
  <1> QED BY <1>1, <1>2, <1>3

-----------------------------------------------------------------------------
(* The invariant.                                                           *)

LEMMA InitPool == Init => PoolInv
  <1> SUFFICES ASSUME Init PROVE PoolInv
    OBVIOUS
  <1>1. Cardinality({}) = 0 /\ PoolSize \in Nat
    BY FS_EmptySet, PoolAssumption
  <1>2. InFlight = {}
    BY DEF Init, InFlight
  <1>3. TypeOK
    <2>1. held = {} /\ Cardinality(held) <= PoolSize
      BY <1>1, PoolAssumption DEF Init
    <2> QED BY <2>1 DEF Init, TypeOK, Stages
  <1>4. HeldWhileConnected /\ StageFitsKind /\ RefusedOnlyWhenCrowded
    BY DEF Init, HeldWhileConnected, Connected, StageFitsKind,
           RefusedOnlyWhenCrowded
  <1>5. LoopIsBlocked
    BY PoolAssumption DEF Init, LoopIsBlocked, Requests
  <1>6. CrowdIsNoticed
    BY <1>1, <1>2 DEF CrowdIsNoticed
  <1> QED BY <1>3, <1>4, <1>5, <1>6 DEF PoolInv

\* A step that takes no new request into flight keeps the count.
LEMMA FlightShrinks ==
    ASSUME PoolInv, InFlight' \subseteq InFlight, crowded' = crowded
    PROVE  CrowdIsNoticed'
  <1>1. InFlight \in SUBSET Requests /\ InFlight' \in SUBSET InFlight
    BY DEF InFlight
  <1>2. /\ Cardinality(InFlight) \in Nat /\ Cardinality(InFlight') \in Nat
        /\ Cardinality(InFlight') <= Cardinality(InFlight)
    BY <1>1, RequestsAreCounted
  <1> QED BY <1>2, PoolAssumption DEF PoolInv, CrowdIsNoticed

LEMMA AcceptPool ==
    ASSUME PoolInv, NEW r \in Requests, Accept(r)
    PROVE  PoolInv'
  <1> USE DEF PoolInv
  <1>1. /\ pc' = [pc EXCEPT ![r] = "begin"] /\ pc[r] = "new"
        /\ held' = held /\ loop = Free
        /\ loop' = IF r \in AsyncRequests THEN r ELSE Free
        /\ crowded' = (crowded \/ Cardinality(InFlight) >= PoolSize)
    BY DEF Accept, Goto
  <1>2. TypeOK'
    BY <1>1 DEF TypeOK, Stages
  <1>3. HeldWhileConnected' /\ StageFitsKind'
    BY <1>1 DEF TypeOK, HeldWhileConnected, Connected, StageFitsKind
  <1>4. LoopIsBlocked'
    BY <1>1, PoolAssumption DEF TypeOK, LoopIsBlocked, Requests
  <1>5. RefusedOnlyWhenCrowded'
    BY <1>1 DEF TypeOK, RefusedOnlyWhenCrowded
  <1>6. CrowdIsNoticed'
    <2>1. InFlight' = InFlight \cup {r} /\ InFlight \in SUBSET Requests
      BY <1>1 DEF TypeOK, InFlight
    <2>2. IsFiniteSet(InFlight) /\ Cardinality(InFlight) \in Nat
      BY <2>1, RequestsAreCounted
    <2>3. /\ Cardinality(InFlight') <= Cardinality(InFlight) + 1
          /\ Cardinality(InFlight') \in Nat
      BY <2>1, <2>2, FS_AddElement
    <2>4. CASE Cardinality(InFlight) >= PoolSize
      BY <1>1, <2>4 DEF CrowdIsNoticed
    <2>5. CASE Cardinality(InFlight) < PoolSize
      <3>1. Cardinality(InFlight') <= PoolSize
        BY <2>2, <2>3, <2>5, PoolAssumption
      <3> QED BY <3>1 DEF CrowdIsNoticed
    <2> QED BY <2>2, <2>4, <2>5, PoolAssumption
  <1> QED BY <1>2, <1>3, <1>4, <1>5, <1>6

LEMMA ConnectPool ==
    ASSUME PoolInv, NEW r \in Requests, Connect(r)
    PROVE  PoolInv'
  <1> USE DEF PoolInv
  <1> DEFINE stage == IF pc[r] = "refresh" THEN "ok"
                      ELSE IF r \in SyncRequests THEN "work" ELSE "ssh"
  <1>1. /\ pc[r] \in {"begin", "refresh"}
        /\ pc' = [pc EXCEPT ![r] = stage]
        /\ held' = held \cup {r} /\ ~Empty
        /\ loop' = IF loop = r THEN Free ELSE loop
        /\ crowded' = crowded
    BY DEF Connect, Goto
  <1>2. stage \in {"work", "ssh", "ok"}
    OBVIOUS
  <1>3. TypeOK'
    <2>1. Cardinality(held') <= PoolSize
      <3>1. IsFiniteSet(held) /\ Cardinality(held) \in Nat
        BY RequestsAreCounted DEF TypeOK
      <3>2. Cardinality(held) < PoolSize
        BY <1>1, <3>1, PoolAssumption DEF TypeOK, Empty
      <3>3. Cardinality(held \cup {r}) <= Cardinality(held) + 1
        BY <3>1, FS_AddElement
      <3>4. Cardinality(held \cup {r}) \in Nat
        BY <3>1, FS_AddElement, FS_CardinalityType
      <3> HIDE DEF PoolInv
      <3> QED BY <1>1, <3>1, <3>2, <3>3, <3>4, PoolAssumption
    <2> QED BY <1>1, <1>2, <2>1 DEF TypeOK, Stages
  <1>4. HeldWhileConnected'
    BY <1>1, <1>2 DEF TypeOK, HeldWhileConnected, Connected
  <1>5. StageFitsKind'
    BY <1>1 DEF TypeOK, StageFitsKind, Requests
  <1>6. LoopIsBlocked'
    BY <1>1, <1>2, PoolAssumption DEF TypeOK, LoopIsBlocked, Requests
  <1>7. RefusedOnlyWhenCrowded'
    BY <1>1, <1>2 DEF TypeOK, RefusedOnlyWhenCrowded
  <1>8. InFlight' \subseteq InFlight
    BY <1>1 DEF TypeOK, InFlight
  <1>9. CrowdIsNoticed'
    BY <1>1, <1>8, FlightShrinks
  <1> QED BY <1>3, <1>4, <1>5, <1>6, <1>7, <1>9

\* A refused request is one more in flight than there are connections.
LEMMA TimesOutPool ==
    ASSUME PoolInv, NEW r \in Requests, TimesOut(r)
    PROVE  PoolInv'
  <1> USE DEF PoolInv
  <1>1. /\ pc[r] \in {"begin", "refresh"}
        /\ pc' = [pc EXCEPT ![r] = "failed"]
        /\ held' = held /\ Cardinality(held) = PoolSize
        /\ loop' = IF loop = r THEN Free ELSE loop
        /\ crowded' = crowded
    BY DEF TimesOut, Goto, Empty
  <1>2. TypeOK'
    BY <1>1 DEF TypeOK, Stages
  <1>3. HeldWhileConnected' /\ StageFitsKind'
    BY <1>1 DEF TypeOK, HeldWhileConnected, Connected, StageFitsKind
  <1>4. LoopIsBlocked'
    BY <1>1, PoolAssumption DEF TypeOK, LoopIsBlocked, Requests
  <1>5. crowded
    <2>1. /\ InFlight \in SUBSET Requests /\ held \in SUBSET InFlight
          /\ r \in InFlight /\ r \notin held
      BY <1>1 DEF TypeOK, InFlight, HeldWhileConnected, Connected
    <2>2. Cardinality(InFlight) > Cardinality(held)
      BY <2>1, OneMoreThanHeld
    <2>3. Cardinality(InFlight) \in Nat
      BY <2>1, RequestsAreCounted
    <2> QED BY <1>1, <2>2, <2>3, PoolAssumption DEF CrowdIsNoticed
  <1>6. RefusedOnlyWhenCrowded' /\ CrowdIsNoticed'
    BY <1>1, <1>5 DEF RefusedOnlyWhenCrowded, CrowdIsNoticed
  <1> QED BY <1>2, <1>3, <1>4, <1>6

LEMMA CommitPool ==
    ASSUME PoolInv, NEW r \in Requests, Commit(r)
    PROVE  PoolInv'
  <1> USE DEF PoolInv
  <1>1. /\ pc[r] \in {"work", "resume"} /\ Runs(r)
        /\ pc' = [pc EXCEPT ![r] = "refresh"]
        /\ held' = held \ {r}
        /\ loop' = IF r \in AsyncRequests THEN r ELSE loop
        /\ crowded' = crowded
    BY DEF Commit, Runs, Goto
  <1>2. TypeOK'
    <2>1. Cardinality(held') <= PoolSize
      <3>1. held \in SUBSET Requests /\ held' \in SUBSET held
        BY <1>1 DEF TypeOK
      <3> QED BY <3>1, RequestsAreCounted, PoolAssumption DEF TypeOK
    <2> QED BY <1>1, <2>1 DEF TypeOK, Stages
  <1>3. HeldWhileConnected' /\ StageFitsKind'
    BY <1>1 DEF TypeOK, HeldWhileConnected, Connected, StageFitsKind
  <1>4. LoopIsBlocked'
    <2>1. r \in AsyncRequests => loop = Free
      BY <1>1, PoolAssumption DEF StageFitsKind, Runs
    <2> QED BY <1>1, <2>1, PoolAssumption DEF TypeOK, LoopIsBlocked, Requests
  <1>5. RefusedOnlyWhenCrowded'
    BY <1>1 DEF TypeOK, RefusedOnlyWhenCrowded
  <1>6. InFlight' \subseteq InFlight
    BY <1>1 DEF TypeOK, InFlight
  <1>7. CrowdIsNoticed'
    BY <1>1, <1>6, FlightShrinks
  <1> QED BY <1>2, <1>3, <1>4, <1>5, <1>7

LEMMA ReadOnlyPool ==
    ASSUME PoolInv, NEW r \in Requests, ReadOnly(r)
    PROVE  PoolInv'
  <1> USE DEF PoolInv
  <1>1. /\ pc[r] \in {"work", "resume"}
        /\ pc' = [pc EXCEPT ![r] = "ok"]
        /\ held' = held /\ loop' = loop /\ crowded' = crowded
    BY DEF ReadOnly, Runs, Goto
  <1>2. TypeOK'
    BY <1>1 DEF TypeOK, Stages
  <1>3. HeldWhileConnected' /\ StageFitsKind'
    BY <1>1 DEF TypeOK, HeldWhileConnected, Connected, StageFitsKind
  <1>4. LoopIsBlocked' /\ RefusedOnlyWhenCrowded'
    BY <1>1 DEF TypeOK, LoopIsBlocked, Requests, RefusedOnlyWhenCrowded
  <1>5. InFlight' \subseteq InFlight
    BY <1>1 DEF TypeOK, InFlight
  <1>6. CrowdIsNoticed'
    BY <1>1, <1>5, FlightShrinks
  <1> QED BY <1>2, <1>3, <1>4, <1>6

LEMMA SshAnswersPool ==
    ASSUME PoolInv, NEW r \in Requests, SshAnswers(r)
    PROVE  PoolInv'
  <1> USE DEF PoolInv
  <1>1. /\ pc[r] = "ssh"
        /\ pc' = [pc EXCEPT ![r] = "resume"]
        /\ held' = held /\ loop' = loop /\ crowded' = crowded
    BY DEF SshAnswers, Goto
  <1>2. TypeOK'
    BY <1>1 DEF TypeOK, Stages
  <1>3. HeldWhileConnected' /\ StageFitsKind'
    BY <1>1 DEF TypeOK, HeldWhileConnected, Connected, StageFitsKind
  <1>4. LoopIsBlocked' /\ RefusedOnlyWhenCrowded'
    BY <1>1 DEF TypeOK, LoopIsBlocked, Requests, RefusedOnlyWhenCrowded
  <1>5. InFlight' \subseteq InFlight
    BY <1>1 DEF TypeOK, InFlight
  <1>6. CrowdIsNoticed'
    BY <1>1, <1>5, FlightShrinks
  <1> QED BY <1>2, <1>3, <1>4, <1>6

LEMMA ExitPool ==
    ASSUME PoolInv, NEW r \in Requests, Exit(r) \/ Answer(r)
    PROVE  PoolInv'
  <1> USE DEF PoolInv
  <1>1. /\ \/ pc[r] \in {"ok", "failed"} /\ pc' = [pc EXCEPT ![r] = "closing"]
           \/ pc[r] = "closed" /\ pc' = [pc EXCEPT ![r] = "answered"]
        /\ held' = held /\ loop' = loop /\ crowded' = crowded
    BY DEF Exit, Answer, Goto
  <1>2. TypeOK'
    BY <1>1 DEF TypeOK, Stages
  <1>3. HeldWhileConnected' /\ StageFitsKind'
    BY <1>1 DEF TypeOK, HeldWhileConnected, Connected, StageFitsKind
  <1>4. LoopIsBlocked' /\ RefusedOnlyWhenCrowded'
    BY <1>1 DEF TypeOK, LoopIsBlocked, Requests, RefusedOnlyWhenCrowded
  <1>5. InFlight' \subseteq InFlight
    BY <1>1 DEF TypeOK, InFlight
  <1>6. CrowdIsNoticed'
    BY <1>1, <1>5, FlightShrinks
  <1> QED BY <1>2, <1>3, <1>4, <1>6

LEMMA ClosePool ==
    ASSUME PoolInv, NEW r \in Requests, Close(r)
    PROVE  PoolInv'
  <1> USE DEF PoolInv
  <1>1. /\ pc[r] = "closing"
        /\ pc' = [pc EXCEPT ![r] = "closed"]
        /\ held' = held \ {r} /\ loop' = loop /\ crowded' = crowded
    BY DEF Close, Goto
  <1>2. TypeOK'
    <2>1. Cardinality(held') <= PoolSize
      <3>1. held \in SUBSET Requests /\ held' \in SUBSET held
        BY <1>1 DEF TypeOK
      <3> QED BY <3>1, RequestsAreCounted, PoolAssumption DEF TypeOK
    <2> QED BY <1>1, <2>1 DEF TypeOK, Stages
  <1>3. HeldWhileConnected' /\ StageFitsKind'
    BY <1>1 DEF TypeOK, HeldWhileConnected, Connected, StageFitsKind
  <1>4. LoopIsBlocked' /\ RefusedOnlyWhenCrowded'
    BY <1>1 DEF TypeOK, LoopIsBlocked, Requests, RefusedOnlyWhenCrowded
  <1>5. InFlight' \subseteq InFlight
    BY <1>1 DEF TypeOK, InFlight
  <1>6. CrowdIsNoticed'
    BY <1>1, <1>5, FlightShrinks
  <1> QED BY <1>2, <1>3, <1>4, <1>6

LEMMA StepPool == PoolInv /\ [Next]_vars => PoolInv'
  <1> SUFFICES ASSUME PoolInv, [Next]_vars PROVE PoolInv'
    OBVIOUS
  <1>1. CASE UNCHANGED vars
    BY <1>1 DEF vars, PoolInv, TypeOK, HeldWhileConnected, StageFitsKind,
                LoopIsBlocked, CrowdIsNoticed, InFlight, RefusedOnlyWhenCrowded
  <1>2. ASSUME NEW r \in Requests, Step(r) PROVE PoolInv'
    BY <1>2, AcceptPool, ConnectPool, TimesOutPool, CommitPool, ReadOnlyPool,
       SshAnswersPool, ExitPool, ClosePool DEF Step, Proceed
  <1> QED BY <1>1, <1>2 DEF Next

THEOREM PoolInvariance == Spec => []PoolInv
  BY InitPool, StepPool, PTL DEF Spec

\* A connection is held exactly from a statement to the commit or the close, and
\* never more of them than the pool has (db/session.py).
THEOREM PoolTypeCorrect == Spec => []TypeOK
  <1>1. PoolInv => TypeOK
    BY DEF PoolInv
  <1> QED BY <1>1, PoolInvariance, PTL

\* For any size of the pool: as long as no more requests are in flight than
\* there are connections, no request gets a pool timeout, since none needs a
\* second connection and each gives its own back (db/session.py:28-55).
THEOREM NobodyIsRefusedInAQuietPool == Spec => []RefusedOnlyWhenCrowded
  <1>1. PoolInv => RefusedOnlyWhenCrowded
    BY DEF PoolInv
  <1> QED BY <1>1, PoolInvariance, PTL

-----------------------------------------------------------------------------
(* Stalls.                                                                  *)

\* While r stalls the loop, the other requests can time out, hear from SSH or
\* have a session closed that timed out before: none of this returns a
\* connection or frees the loop.
LEMMA StallStep ==
    ASSUME PoolInv, NEW r \in AsyncRequests, Stalled(r),
           NEW o \in Requests, Step(o), pc'[r] # "failed"
    PROVE  Stalled(r)'
  <1> USE DEF PoolInv
  <1>1. /\ loop = r /\ r # Free /\ r \in Requests
        /\ pc[r] \in {"begin", "refresh"} /\ Empty
        /\ \A h \in held : pc[h] \in {"ssh", "resume", "ok"}
    BY PoolAssumption DEF Stalled, Requests
  <1>2. o # r
    <2> SUFFICES ASSUME o = r PROVE FALSE
      OBVIOUS
    <2>1. TimesOut(r)
      BY <1>1 DEF Step, Proceed, Accept, Connect, Commit, ReadOnly, SshAnswers,
                  Exit, Close, Answer, Runs
    <2> QED BY <2>1 DEF TimesOut, Goto, TypeOK
  <1>3. TimesOut(o) \/ SshAnswers(o) \/ Close(o)
    <2>1. pc[o] = "work" => o \in held
      BY DEF HeldWhileConnected, Connected
    <2> QED BY <1>1, <2>1 DEF Step, Proceed, Accept, Connect, Commit, ReadOnly,
                              Exit, Answer, Runs
  <1>4. /\ held' = held /\ loop' = r /\ pc'[r] = pc[r]
        /\ \/ pc[o] \in {"begin", "refresh", "closing"}
           \/ pc' = [pc EXCEPT ![o] = "resume"]
        /\ \A h \in Requests \ {o} : pc'[h] = pc[h]
    BY <1>1, <1>2, <1>3 DEF TimesOut, SshAnswers, Close, Goto, TypeOK
  <1>5. pc[o] \in {"begin", "refresh", "closing"} => o \notin held
    BY <1>1
  <1>6. \A h \in held' : pc'[h] \in {"ssh", "resume", "ok"}
    BY <1>1, <1>4, <1>5 DEF TypeOK
  <1>7. Empty'
    BY <1>1, <1>4 DEF Empty
  <1> QED BY <1>1, <1>4, <1>6, <1>7 DEF Stalled

\* For any number of requests: once the loop is blocked by a request that waits
\* for a connection, and every connection by a request that waits for the loop,
\* only the timeout of the pool ends it (db/session.py:28-35).
THEOREM StallsEndByTimeout == Spec => OnlyTheTimeoutEndsAStall
  <1>1. ASSUME PoolInv, [Next]_vars, NEW r \in AsyncRequests, Stalled(r)
        PROVE  Stalled(r)' \/ pc'[r] = "failed"
    <2>1. CASE UNCHANGED vars
      BY <1>1, <2>1 DEF vars, Stalled, Empty
    <2>2. CASE Next
      BY <1>1, <2>2, StallStep DEF Next
    <2> QED BY <1>1, <2>1, <2>2
  <1>2. PoolInv /\ [Next]_vars
          => [\A r \in AsyncRequests : Stalled(r) => Stalled(r)' \/ pc'[r] = "failed"]_vars
    BY <1>1
  <1> QED BY <1>2, PoolInvariance, PTL DEF Spec, OnlyTheTimeoutEndsAStall

-----------------------------------------------------------------------------
(* Standstills.                                                             *)

\* For any pool and any number of threads: the one circle in which loop,
\* threads and connections can be waited for is the stall, which the timeout
\* ends (OnlyTheTimeoutEndsAStall).  In every other standstill the requests wait
\* for machines, or for connections of which all are held by such requests
\* (db/session.py:28-55, api/v1.py:991-1016).
THEOREM StandstillsAreExplained == Spec => []StandstillIsExplained
  <1>1. ASSUME PoolInv, \A r \in Requests : ~GoesOn(r), loop # Free
        PROVE  \E r \in AsyncRequests : Stalled(r)
    <2> USE <1>1 DEF PoolInv
    <2>1. loop \in AsyncRequests /\ loop \in Requests
      BY DEF TypeOK, Requests
    <2>2. pc[loop] \in {"begin", "refresh"} /\ Empty
      BY <2>1 DEF LoopIsBlocked, GoesOn
    <2>3. ASSUME NEW o \in held PROVE pc[o] \in {"ssh", "resume", "ok"}
      <3>1. o \in Requests
        BY DEF TypeOK
      <3> QED BY <3>1 DEF HeldWhileConnected, Connected, GoesOn
    <2> QED BY <2>1, <2>2, <2>3 DEF Stalled
  <1>2. ASSUME PoolInv, \A r \in Requests : ~GoesOn(r), loop = Free,
               NEW r \in Requests, pc[r] \notin {"ssh", "answered"}
        PROVE  Empty /\ \A o \in held : pc[o] = "ssh"
    <2> USE <1>2 DEF PoolInv
    <2>1. \A o \in Requests :
            pc[o] \in {"new", "begin", "refresh", "ssh", "answered"}
      BY DEF TypeOK, Stages, GoesOn
    <2>2. ASSUME NEW o \in held PROVE pc[o] = "ssh"
      <3>1. o \in Requests
        BY DEF TypeOK
      <3> QED BY <2>1, <3>1 DEF HeldWhileConnected, Connected
    <2>3. CASE \E o \in Requests : pc[o] \in {"begin", "refresh"}
      BY <2>2, <2>3 DEF GoesOn
    <2>4. CASE \A o \in Requests : pc[o] \notin {"begin", "refresh"}
      <3>1. InThread = {}
        BY <2>1, <2>4 DEF InThread, Requests
      <3>2. Cardinality(InThread) < Threads
        BY <3>1, FS_EmptySet, PoolAssumption
      <3>3. pc[r] = "new"
        BY <2>1, <2>4
      <3> QED BY <3>2, <3>3 DEF GoesOn
    <2> QED BY <2>2, <2>3, <2>4
  <1>3. PoolInv => StandstillIsExplained
    BY <1>1, <1>2 DEF StandstillIsExplained
  <1> QED BY <1>3, PoolInvariance, PTL

-----------------------------------------------------------------------------
(* Why the requests come to an end.  That each of them does is a liveness     *)
(* property; that they do not start over, for any numbers, is its safety part. *)

\* How far a request is.
Progress(stage) ==
    CASE stage = "new" -> 0
      [] stage = "begin" -> 1
      [] stage = "work" -> 2
      [] stage = "ssh" -> 2
      [] stage = "resume" -> 3
      [] stage = "refresh" -> 4
      [] stage = "ok" -> 5
      [] stage = "failed" -> 5
      [] stage = "closing" -> 6
      [] stage = "closed" -> 7
      [] stage = "answered" -> 8

\* A step takes one request further and moves no other: nothing is retried.
EveryStepIsProgress ==
    [][\E r \in Requests :
         /\ Progress(pc'[r]) > Progress(pc[r])
         /\ \A o \in Requests \ {r} : pc'[o] = pc[o]]_vars

\* Each step of a request leads to a later stage.
LEMMA StepIsProgress ==
    ASSUME PoolInv, NEW r \in Requests, Step(r)
    PROVE  /\ Progress(pc'[r]) > Progress(pc[r])
           /\ \A o \in Requests \ {r} : pc'[o] = pc[o]
  <1>1. pc \in [Requests -> Stages]
    BY DEF PoolInv, TypeOK
  <1>2. \E stage \in Stages :
          /\ pc' = [pc EXCEPT ![r] = stage]
          /\ \/ pc[r] = "new" /\ stage = "begin"
             \/ pc[r] = "begin" /\ stage \in {"work", "ssh", "failed"}
             \/ pc[r] \in {"work", "resume"} /\ stage \in {"refresh", "ok"}
             \/ pc[r] = "ssh" /\ stage = "resume"
             \/ pc[r] = "refresh" /\ stage \in {"ok", "failed"}
             \/ pc[r] \in {"ok", "failed"} /\ stage = "closing"
             \/ pc[r] = "closing" /\ stage = "closed"
             \/ pc[r] = "closed" /\ stage = "answered"
    BY DEF Step, Proceed, Accept, Connect, TimesOut, Commit, ReadOnly, SshAnswers,
           Exit, Close, Answer, Runs, Goto, Stages
  <1>3. \A a, b \in Stages :
          \/ a = "new" /\ b = "begin"
          \/ a = "begin" /\ b \in {"work", "ssh", "failed"}
          \/ a \in {"work", "resume"} /\ b \in {"refresh", "ok"}
          \/ a = "ssh" /\ b = "resume"
          \/ a = "refresh" /\ b \in {"ok", "failed"}
          \/ a \in {"ok", "failed"} /\ b = "closing"
          \/ a = "closing" /\ b = "closed"
          \/ a = "closed" /\ b = "answered"
          => Progress(b) > Progress(a)
    BY DEF Stages, Progress
  <1> QED BY <1>1, <1>2, <1>3

\* Every step is progress of one request, whatever the others do: no handler
\* starts over, neither after a timeout of the pool nor after one of SSH.
THEOREM StepsAreProgress == Spec => EveryStepIsProgress
  <1>1. PoolInv /\ [Next]_vars
          => [\E r \in Requests :
                /\ Progress(pc'[r]) > Progress(pc[r])
                /\ \A o \in Requests \ {r} : pc'[o] = pc[o]]_vars
    BY StepIsProgress DEF Next
  <1> QED BY <1>1, PoolInvariance, PTL DEF Spec, EveryStepIsProgress
=============================================================================
