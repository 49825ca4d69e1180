------------------------ MODULE AgentSettingsProofs ------------------------
(***************************************************************************)
(* For every number of threads, every set of keys and every set of drafts:  *)
(* the types of AgentSettings, the key an undisturbed LLM call goes out     *)
(* with, and what a PUT with a blank key does to the stored one.            *)
(***************************************************************************)
EXTENDS AgentSettings, TLAPS

\* A request that plans or calls has read settings with an enabled provider.
CallReadSettings ==
    \A t \in Threads :
        pc[t] \in {"planning", "calling", "called"} =>
            seen[t] \in Settings /\ seen[t].provider \in Enabled

\* Between setting the variable and the call, the variable holds the key.
VariableIsSet ==
    \A t \in Threads :
        pc[t] = "calling" /\ seen[t].key # NoKey /\ ~disturbed[t]
            => environ[VariableOf(seen[t].provider)] = seen[t].key

\* A row that a PUT has loaded is still there: nothing deletes it.
LoadedRowStays ==
    \A t \in Threads : pc[t] = "putting" /\ row = NoRow => seen[t] = NoRow

SettingsInv ==
    /\ TypeOK
    /\ CallReadSettings
    /\ VariableIsSet
    /\ LoadedRowStays
    /\ UndisturbedCallSendsItsKey

\* The module and litellm agree on the variable of each enabled provider.
LEMMA SameVariable ==
    ASSUME NEW p \in Enabled
    PROVE  /\ VariableOf(p) \in Variables
           /\ ReadByLitellm(p) = VariableOf(p)
  BY DEF Enabled, VariableOf, ReadByLitellm, Variables

\* Providers share a variable only if they are the same.
LEMMA OwnVariable ==
    ASSUME NEW p \in Enabled, NEW q \in Enabled, VariableOf(p) = VariableOf(q)
    PROVE  p = q
  BY DEF Enabled, VariableOf

\* What is read from the row are settings.
LEMMA EffectiveType ==
    ASSUME row \in Settings \cup {NoRow}
    PROVE  Effective(row) \in Settings
  BY SettingsAssumption DEF Effective, Default, Settings, KeyOrNone, Providers

\* What a PUT assigns are settings, and so is what it leaves in the row.
LEMMA AssignedType ==
    ASSUME NEW p \in Payloads, NEW r \in Settings \cup {NoRow}
    PROVE  Assigned(p, r) \in Settings
  BY SettingsAssumption DEF Assigned, Payloads, Settings, KeyOrNone

LEMMA ChangedType ==
    ASSUME NEW o \in Settings, NEW n \in Settings, NEW c \in Settings
    PROVE  ChangedColumns(o, n, c) \in Settings
  BY DEF ChangedColumns, Written, Settings

LEMMA InitInv == Init => SettingsInv
  BY SettingsAssumption, DraftAssumption
  DEF Init, SettingsInv, TypeOK, CallReadSettings, VariableIsSet,
      LoadedRowStays, UndisturbedCallSendsItsKey, EmptyEnviron, KeyOrNone, Settings, Payloads,
      NoPayload, Providers, Enabled

LEMMA LoadForPutInv ==
    ASSUME SettingsInv, NEW t \in Threads, LoadForPut(t)
    PROVE  SettingsInv'
  <1>1. TypeOK'
    BY DraftAssumption DEF SettingsInv, TypeOK, LoadForPut
  <1>2. CallReadSettings' /\ LoadedRowStays'
    BY DEF SettingsInv, TypeOK, CallReadSettings, LoadedRowStays, LoadForPut
  <1>3. VariableIsSet' /\ UndisturbedCallSendsItsKey'
    BY DEF SettingsInv, TypeOK, VariableIsSet, UndisturbedCallSendsItsKey,
           LoadForPut
  <1> QED BY <1>1, <1>2, <1>3 DEF SettingsInv

\* Answering a PUT touches nothing that a call relies on.
LEMMA AnsweredInv ==
    ASSUME SettingsInv, NEW t \in Threads, Answered(t),
           row' \in Settings \cup {NoRow}, row' = NoRow => row = NoRow,
           last' \in Payloads \cup {Mixed}
    PROVE  SettingsInv'
  <1>1. NoPayload \in Payloads
    BY DEF NoPayload, Payloads, Providers, Enabled, KeyOrNone
  <1>2. TypeOK'
    BY <1>1 DEF SettingsInv, TypeOK, Answered
  <1>3. CallReadSettings' /\ LoadedRowStays'
    BY DEF SettingsInv, TypeOK, CallReadSettings, LoadedRowStays, Answered
  <1>4. VariableIsSet' /\ UndisturbedCallSendsItsKey'
    BY DEF SettingsInv, TypeOK, VariableIsSet, UndisturbedCallSendsItsKey,
           Answered
  <1> QED BY <1>2, <1>3, <1>4 DEF SettingsInv

LEMMA CommitPutInv ==
    ASSUME SettingsInv, NEW t \in Threads, CommitPut(t)
    PROVE  SettingsInv'
  <1>1. Answered(t) BY DEF CommitPut
  <1>2. payload[t] \in Payloads /\ seen[t] \in Settings \cup {NoRow}
        /\ row \in Settings \cup {NoRow}
    BY DEF SettingsInv, TypeOK
  <1>3. row' \in Settings
    <2>1. CASE seen[t] = NoRow
      BY <1>2, <2>1, AssignedType DEF CommitPut
    <2>2. CASE seen[t] # NoRow
      <3>1. seen[t] \in Settings /\ row \in Settings
        BY <1>2, <2>2 DEF SettingsInv, LoadedRowStays, CommitPut
      <3>2. Assigned(payload[t], seen[t]) \in Settings
        BY <1>2, AssignedType
      <3> QED BY <2>2, <3>1, <3>2, ChangedType DEF CommitPut
    <2> QED BY <2>1, <2>2
  <1>4. row' # NoRow
    BY <1>3, DraftAssumption
  <1>5. last' \in Payloads \cup {Mixed}
    BY DEF SettingsInv, TypeOK, CommitPut
  <1> QED BY <1>1, <1>3, <1>4, <1>5, AnsweredInv

LEMMA PutCollidesInv ==
    ASSUME SettingsInv, NEW t \in Threads, PutCollides(t)
    PROVE  SettingsInv'
  <1>1. row' \in Settings \cup {NoRow} /\ last' \in Payloads \cup {Mixed}
    BY DEF SettingsInv, TypeOK, PutCollides
  <1> QED BY <1>1, AnsweredInv DEF PutCollides

LEMMA StartPlanningInv ==
    ASSUME SettingsInv, NEW t \in Threads, StartPlanning(t)
    PROVE  SettingsInv'
  <1>1. Effective(row) \in Settings
    BY EffectiveType DEF SettingsInv, TypeOK
  <1>2. TypeOK'
    BY <1>1 DEF SettingsInv, TypeOK, StartPlanning, KeyOrNone
  <1>3. CallReadSettings' /\ LoadedRowStays'
    BY <1>1 DEF SettingsInv, TypeOK, CallReadSettings, LoadedRowStays,
                StartPlanning
  <1>4. VariableIsSet' /\ UndisturbedCallSendsItsKey'
    BY DEF SettingsInv, TypeOK, VariableIsSet, UndisturbedCallSendsItsKey,
           StartPlanning
  <1> QED BY <1>2, <1>3, <1>4 DEF SettingsInv

LEMMA SetEnvironInv ==
    ASSUME SettingsInv, NEW t \in Threads, SetEnviron(t)
    PROVE  SettingsInv'
  <1> DEFINE v == VariableOf(seen[t].provider)
  <1>1. seen[t] \in Settings /\ seen[t].provider \in Enabled
    BY DEF SettingsInv, CallReadSettings, SetEnviron
  <1>2. v \in Variables /\ seen[t].key \in KeyOrNone
    BY <1>1, SameVariable DEF Settings
  <1>3. TypeOK'
    BY <1>2 DEF SettingsInv, TypeOK, SetEnviron, request
  <1>4. CallReadSettings' /\ LoadedRowStays'
    BY DEF SettingsInv, TypeOK, CallReadSettings, LoadedRowStays, SetEnviron,
           request
  <1>5. UndisturbedCallSendsItsKey'
    BY DEF SettingsInv, TypeOK, UndisturbedCallSendsItsKey, SetEnviron, request
  <1>6. VariableIsSet'
    <2> SUFFICES ASSUME NEW o \in Threads, pc'[o] = "calling",
                        seen[o].key # NoKey, ~disturbed'[o]
                 PROVE  environ'[VariableOf(seen[o].provider)] = seen[o].key
      BY DEF VariableIsSet, SetEnviron, request
    <2>1. CASE seen[t].key = NoKey
      <3>1. o # t /\ pc[o] = "calling" /\ ~disturbed[o] /\ environ' = environ
        BY <2>1 DEF SettingsInv, TypeOK, SetEnviron
      <3> QED BY <3>1 DEF SettingsInv, VariableIsSet
    <2>2. CASE seen[t].key # NoKey /\ o = t
      BY <1>2, <2>2 DEF SettingsInv, TypeOK, SetEnviron
    <2>3. CASE seen[t].key # NoKey /\ o # t
      <3>1. pc[o] = "calling"
        BY <2>3 DEF SettingsInv, TypeOK, SetEnviron
      <3>2. ~disturbed[o] /\ seen[o].provider # seen[t].provider
        BY <2>3, <3>1 DEF SettingsInv, TypeOK, SetEnviron
      <3>3. seen[o].provider \in Enabled
        BY <3>1 DEF SettingsInv, CallReadSettings
      <3>4. VariableOf(seen[o].provider) # v
        BY <1>1, <3>2, <3>3, OwnVariable
      <3>5. VariableOf(seen[o].provider) \in Variables
        BY <3>3, SameVariable
      <3>6. environ'[VariableOf(seen[o].provider)]
              = environ[VariableOf(seen[o].provider)]
        BY <2>3, <3>4, <3>5 DEF SettingsInv, TypeOK, SetEnviron
      <3> QED BY <3>1, <3>2, <3>6 DEF SettingsInv, VariableIsSet
    <2> QED BY <2>1, <2>2, <2>3
  <1> QED BY <1>3, <1>4, <1>5, <1>6 DEF SettingsInv

LEMMA CallLLMInv ==
    ASSUME SettingsInv, NEW t \in Threads, CallLLM(t)
    PROVE  SettingsInv'
  <1>1. seen[t].provider \in Enabled
    BY DEF SettingsInv, CallReadSettings, CallLLM
  <1>2. VariableOf(seen[t].provider) \in Variables
        /\ sent'[t] = environ[VariableOf(seen[t].provider)]
    BY <1>1, SameVariable DEF SettingsInv, TypeOK, CallLLM
  <1>3. TypeOK'
    BY <1>1, SameVariable DEF SettingsInv, TypeOK, CallLLM, request, history
  <1>4. CallReadSettings' /\ LoadedRowStays' /\ VariableIsSet'
    BY DEF SettingsInv, TypeOK, CallReadSettings, LoadedRowStays, VariableIsSet,
           CallLLM, request, history
  <1>5. UndisturbedCallSendsItsKey'
    BY <1>2 DEF SettingsInv, TypeOK, VariableIsSet, UndisturbedCallSendsItsKey,
                CallLLM, request, history
  <1> QED BY <1>3, <1>4, <1>5 DEF SettingsInv

LEMMA RestartInv == SettingsInv /\ Restart => SettingsInv'
  BY DEF Restart, SettingsInv, TypeOK, CallReadSettings, VariableIsSet,
         LoadedRowStays, UndisturbedCallSendsItsKey, EmptyEnviron, KeyOrNone,
         Payloads, NoPayload, Providers, Enabled

LEMMA StepInv == SettingsInv /\ [Next]_vars => SettingsInv'
  <1> SUFFICES ASSUME SettingsInv, [Next]_vars PROVE SettingsInv'
    OBVIOUS
  <1>1. CASE Restart
    BY <1>1, RestartInv
  <1>2. ASSUME NEW t \in Threads, Put(t) PROVE SettingsInv'
    BY <1>2, LoadForPutInv, CommitPutInv, PutCollidesInv DEF Put
  <1>3. ASSUME NEW t \in Threads, Plan(t) PROVE SettingsInv'
    BY <1>3, StartPlanningInv, SetEnvironInv, CallLLMInv DEF Plan
  <1>4. CASE UNCHANGED vars
    BY <1>4 DEF vars, request, history, SettingsInv, TypeOK, CallReadSettings,
                VariableIsSet, LoadedRowStays, UndisturbedCallSendsItsKey
  <1> QED BY <1>1, <1>2, <1>3, <1>4 DEF Next

\* The strengthened invariant of the settings and the calls that use them.
THEOREM SettingsInvariance == Spec => []SettingsInv
  BY InitInv, StepInv, PTL DEF Spec

\* Row, environment and requests keep their types (api/v1.py:850-876).
THEOREM SettingsTypeCorrect == Spec => []TypeOK
  <1>1. SettingsInv => TypeOK
    BY DEF SettingsInv
  <1> QED BY <1>1, SettingsInvariance, PTL

\* An LLM call that no other call of its provider ran into goes out with the
\* key of the settings it read (llm_provider.py:41-53).
THEOREM UndisturbedCallsSendTheirKey == Spec => []UndisturbedCallSendsItsKey
  <1>1. SettingsInv => UndisturbedCallSendsItsKey
    BY DEF SettingsInv
  <1> QED BY <1>1, SettingsInvariance, PTL

\* A PUT with a blank key leaves the stored key alone, whatever has been
\* committed since it loaded the row (api/v1.py:860-868).
THEOREM BlankPutsKeepTheKey == Spec => BlankPutKeepsTheKey
  <1>1. SettingsInv /\ [Next]_vars =>
          [\A t \in Threads :
             /\ pc[t] = "putting" /\ pc'[t] = "idle"
             /\ row # NoRow /\ row' # row
             /\ payload[t].key = NoKey /\ ~payload[t].clear
             => row'.key = row.key]_vars
    <2> SUFFICES ASSUME SettingsInv, Next, NEW t \in Threads,
                        pc[t] = "putting", pc'[t] = "idle",
                        row # NoRow, row' # row,
                        payload[t].key = NoKey, ~payload[t].clear
                 PROVE  row'.key = row.key
      OBVIOUS
    <2>1. PICK u \in Threads : CommitPut(u)
      BY DEF Next, Restart, Put, Plan, LoadForPut, PutCollides, StartPlanning,
             SetEnviron, CallLLM
    <2>2. u = t
      BY <2>1 DEF SettingsInv, TypeOK, CommitPut, Answered
    <2>3. seen[t] # NoRow
      BY <2>1, <2>2 DEF CommitPut
    <2>4. Assigned(payload[t], seen[t]).key = seen[t].key
      BY <2>3 DEF Assigned
    <2> QED BY <2>1, <2>2, <2>3, <2>4 DEF CommitPut, ChangedColumns, Written
  <1> QED BY <1>1, SettingsInvariance, PTL DEF Spec, BlankPutKeepsTheKey

\* Written over what it was computed from, a record becomes what was assigned.
LEMMA NothingOvertaken ==
    ASSUME NEW o \in Settings, NEW n \in Settings
    PROVE  ChangedColumns(o, n, o) = n
  BY DEF ChangedColumns, Written, Settings

\* A PUT that nobody has overtaken leaves the row as it assigned it.
LEMMA UndisturbedPutAssigns ==
    ASSUME SettingsInv, NEW t \in Threads, CommitPut(t), seen[t] = row
    PROVE  row' = Assigned(payload[t], row)
  <1>1. payload[t] \in Payloads /\ row \in Settings \cup {NoRow}
    BY DEF SettingsInv, TypeOK
  <1>2. CASE row = NoRow
    BY <1>2 DEF CommitPut
  <1>3. CASE row # NoRow
    <2>1. Assigned(payload[t], row) \in Settings
      BY <1>1, AssignedType
    <2> QED BY <1>1, <1>3, <2>1, NothingOvertaken DEF CommitPut
  <1> QED BY <1>2, <1>3

\* The validation of a draft says whether a key will be configured, except for
\* drafts that clear a key with another behind it (api/v1.py:386-403, 460-468).
THEOREM ValidationsPredictTheKey == Spec => ValidationPredictsTheKey
  <1> DEFINE Predicted ==
        \A t \in Threads :
          /\ CommitPut(t) /\ seen[t] = row
          /\ payload[t].provider \in Enabled
          /\ payload[t].clear => payload[t].key = NoKey /\ DefaultKey = NoKey
          => (Effective(row').key # NoKey <=> PayloadHasKey(payload[t], row))
  <1>1. SettingsInv => Predicted
    <2> SUFFICES ASSUME SettingsInv, NEW t \in Threads,
                        CommitPut(t), seen[t] = row,
                        payload[t].clear => payload[t].key = NoKey
                                            /\ DefaultKey = NoKey
                 PROVE  Effective(row').key # NoKey
                          <=> PayloadHasKey(payload[t], row)
      OBVIOUS
    <2> DEFINE p == payload[t]
    <2>1. p \in Payloads /\ row \in Settings \cup {NoRow}
      BY DEF SettingsInv, TypeOK
    <2>2. Assigned(p, row) \in Settings
      BY <2>1, AssignedType
    <2>3. row' = Assigned(p, row)
      BY UndisturbedPutAssigns
    <2>4. Effective(row').key =
            IF row'.key = NoKey THEN DefaultKey ELSE row'.key
      BY <2>2, <2>3, DraftAssumption DEF Effective
    <2>5. row'.key = IF p.clear THEN NoKey
                     ELSE IF p.key # NoKey THEN p.key
                     ELSE IF row = NoRow THEN NoKey ELSE row.key
      BY <2>3 DEF Assigned
    <2>6. Effective(row).key = IF row = NoRow THEN DefaultKey
                               ELSE IF row.key = NoKey THEN DefaultKey
                               ELSE row.key
      BY DEF Effective, Default
    <2> QED BY <2>1, <2>4, <2>5, <2>6 DEF PayloadHasKey, Payloads
  <1>2. SettingsInv /\ [Next]_vars => [Predicted]_vars
    BY <1>1
  <1> QED BY <1>2, SettingsInvariance, PTL DEF Spec, ValidationPredictsTheKey

-----------------------------------------------------------------------------
(* What PUTs that do not overlap leave in the row.                          *)

\* As long as no PUTs have overlapped, at most one is between its load and its
\* commit, and what it has loaded is the row.
PutsAreAlone ==
    last # Mixed =>
        \A t \in Threads :
            pc[t] = "putting" =>
                /\ seen[t] = row
                /\ \A o \in Threads \ {t} : pc[o] # "putting"

RowInv == SettingsInv /\ PutsAreAlone /\ RowIsTheLastPut

LEMMA InitRow == Init => RowInv
  <1>1. Init => PutsAreAlone /\ RowIsTheLastPut
    BY DEF Init, PutsAreAlone, RowIsTheLastPut
  <1> QED BY <1>1, InitInv DEF RowInv

LEMMA LoadForPutRow ==
    ASSUME RowInv, NEW t \in Threads, LoadForPut(t)
    PROVE  PutsAreAlone' /\ RowIsTheLastPut'
  <1>1. /\ pc' = [pc EXCEPT ![t] = "putting"]
        /\ seen' = [seen EXCEPT ![t] = row] /\ row' = row
        /\ last' = IF \E o \in Threads \ {t} : pc[o] = "putting"
                   THEN Mixed ELSE last
    BY DEF LoadForPut
  <1>2. last' # Mixed => last' = last /\ \A o \in Threads \ {t} : pc[o] # "putting"
    BY <1>1
  <1>3. PutsAreAlone'
    BY <1>1, <1>2 DEF RowInv, SettingsInv, TypeOK, PutsAreAlone
  <1>4. RowIsTheLastPut'
    BY <1>1, <1>2 DEF RowInv, RowIsTheLastPut
  <1> QED BY <1>3, <1>4

\* The commit of a lone PUT writes what it asked for.
LEMMA CommitPutRow ==
    ASSUME RowInv, NEW t \in Threads, CommitPut(t)
    PROVE  PutsAreAlone' /\ RowIsTheLastPut'
  <1>1. /\ pc[t] = "putting" /\ pc' = [pc EXCEPT ![t] = "idle"]
        /\ seen' = [seen EXCEPT ![t] = NoRow]
        /\ last' = IF last = Mixed THEN Mixed ELSE payload[t]
    BY DEF CommitPut, Answered
  <1>2. CASE last = Mixed
    BY <1>1, <1>2 DEF PutsAreAlone, RowIsTheLastPut
  <1>3. CASE last # Mixed
    <2>1. seen[t] = row /\ \A o \in Threads \ {t} : pc[o] # "putting"
      BY <1>1, <1>3 DEF RowInv, PutsAreAlone
    <2>2. PutsAreAlone'
      BY <1>1, <2>1 DEF RowInv, SettingsInv, TypeOK, PutsAreAlone
    <2>3. row' = Assigned(payload[t], row) /\ last' = payload[t]
      BY <1>1, <1>3, <2>1, UndisturbedPutAssigns DEF RowInv
    <2>4. RowIsTheLastPut'
      BY <2>3 DEF RowIsTheLastPut, Assigned
    <2> QED BY <2>2, <2>4
  <1> QED BY <1>2, <1>3

\* The other steps commit nothing and begin no PUT.
LEMMA OtherRow ==
    ASSUME RowInv, row' = row, last' = last,
           \A t \in Threads :
               pc'[t] = "putting" => pc[t] = "putting" /\ seen'[t] = seen[t]
    PROVE  PutsAreAlone' /\ RowIsTheLastPut'
  BY DEF RowInv, PutsAreAlone, RowIsTheLastPut

LEMMA StepRow == RowInv /\ [Next]_vars => RowInv'
  <1> SUFFICES ASSUME RowInv, [Next]_vars PROVE PutsAreAlone' /\ RowIsTheLastPut'
    BY StepInv DEF RowInv
  <1> USE DEF RowInv, SettingsInv, TypeOK
  <1>1. CASE Restart
    BY <1>1, OtherRow DEF Restart
  <1>2. CASE UNCHANGED vars
    BY <1>2, OtherRow DEF vars, request, history
  <1>3. ASSUME NEW t \in Threads, Put(t) PROVE PutsAreAlone' /\ RowIsTheLastPut'
    <2>1. CASE PutCollides(t)
      BY <2>1, OtherRow DEF PutCollides, Answered
    <2> QED BY <1>3, <2>1, LoadForPutRow, CommitPutRow DEF Put
  <1>4. ASSUME NEW t \in Threads, Plan(t) PROVE PutsAreAlone' /\ RowIsTheLastPut'
    <2>1. row' = row /\ last' = last
      BY <1>4 DEF Plan, StartPlanning, SetEnviron, CallLLM, history
    <2>2. \A o \in Threads :
            pc'[o] = "putting" => pc[o] = "putting" /\ seen'[o] = seen[o]
      BY <1>4 DEF Plan, StartPlanning, SetEnviron, CallLLM, request
    <2> QED BY <2>1, <2>2, OtherRow
  <1> QED BY <1>1, <1>2, <1>3, <1>4 DEF Next

\* As long as PUTs have not overlapped, the row has the provider, the model and
\* the key that the last of them asked for, for any threads and drafts and
\* through restarts of the process (api/v1.py:850-876).
THEOREM RowsAreTheLastPut == Spec => []RowIsTheLastPut
  <1>1. RowInv => RowIsTheLastPut
    BY DEF RowInv
  <1> QED BY <1>1, InitRow, StepRow, PTL DEF Spec
=============================================================================
