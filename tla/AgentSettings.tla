--------------------------- MODULE AgentSettings ---------------------------
(***************************************************************************)
(* The one row of agent_runtime_settings, the process environment behind    *)
(* it, and the requests that use both: PUT /agent-settings, the draft       *)
(* validation, and the intelligent-mode planning that calls an LLM          *)
(* (api/v1.py 386-476, 850-876, 739-756; llm_provider.py).                  *)
(*                                                                          *)
(* These handlers are synchronous: each runs in a thread of the one API     *)
(* process, with a session of its own, and they interleave anywhere.  A     *)
(* commit writes the columns whose value differs from the one that was      *)
(* loaded.  The key of an LLM call travels through os.environ, which the    *)
(* threads share.  Base URL, Pi options and the encryption of the key do    *)
(* not matter here: they are columns like the model, and a bijection.       *)
(***************************************************************************)
CONSTANTS
    Threads,            \* request threads; each serves one request after another
    Keys, NoKey,
    NoRow,
    DefaultProvider,    \* INFLAB_LLM_PROVIDER
    DefaultKey,         \* INFLAB_LLM_API_KEY
    Drafts              \* the payloads that clients send

Enabled == {"openai_compatible", "anthropic"}
Providers == Enabled \cup {"disabled"}
KeyOrNone == Keys \cup {NoKey}

ASSUME SettingsAssumption ==
    /\ NoKey \notin Keys
    /\ DefaultProvider \in Providers
    /\ DefaultKey \in KeyOrNone

\* model: is a model configured.
Settings == [provider : Providers, model : BOOLEAN, key : KeyOrNone]
Payloads == [provider : Providers, model : BOOLEAN, key : KeyOrNone,
             clear : BOOLEAN]

Default == [provider |-> DefaultProvider, model |-> TRUE, key |-> DefaultKey]
NoPayload == [provider |-> "disabled", model |-> FALSE, key |-> NoKey,
              clear |-> FALSE]
Mixed == [NoPayload EXCEPT !.provider = "mixed"]

ASSUME DraftAssumption == NoRow \notin Settings /\ Drafts \subseteq Payloads

VARIABLES
    row,        \* the default row, or NoRow
    environ,    \* OPENAI_API_KEY and ANTHROPIC_API_KEY of the API process
    pc,         \* idle, putting, planning, calling, called
    payload,    \* of a PUT
    seen,       \* the row a PUT loaded, the effective settings of a call
    sent,       \* the key an LLM call went out with
    disturbed,  \* another call wrote the same variable during this one
    last        \* payload of the last committed PUT; none once PUTs overlapped

request == <<payload, seen>>
history == <<disturbed, last>>
vars == <<row, environ, pc, request, sent, history>>

Variables == {"OPENAI_API_KEY", "ANTHROPIC_API_KEY"}
EmptyEnviron == [v \in Variables |-> NoKey]

TypeOK ==
    /\ row \in Settings \cup {NoRow}
    /\ environ \in [Variables -> KeyOrNone]
    /\ pc \in [Threads -> {"idle", "putting", "planning", "calling", "called"}]
    /\ payload \in [Threads -> Payloads]
    /\ seen \in [Threads -> Settings \cup {NoRow}]
    /\ sent \in [Threads -> KeyOrNone]
    /\ disturbed \in [Threads -> BOOLEAN]
    /\ last \in Payloads \cup {Mixed}

Init ==
    /\ row = NoRow
    /\ environ = EmptyEnviron
    /\ pc = [t \in Threads |-> "idle"]
    /\ payload = [t \in Threads |-> NoPayload]
    /\ seen = [t \in Threads |-> NoRow]
    /\ sent = [t \in Threads |-> NoKey]
    /\ disturbed = [t \in Threads |-> FALSE]
    /\ last = NoPayload

-----------------------------------------------------------------------------
\* The settings in force: the row, with the default key where it has none.
Effective(r) ==
    IF r = NoRow THEN Default
    ELSE [provider |-> r.provider,
          model |-> r.model,
          key |-> IF r.key = NoKey THEN DefaultKey ELSE r.key]

\* Mutant: the draft's request to clear the key is forgotten.
ForgetsClear(p, r) == p.key # NoKey \/ Effective(r).key # NoKey

\* Does the draft validation report a key (it looks at the draft's first)?
PayloadHasKey(p, r) ==
    \/ p.key # NoKey
    \/ ~p.clear /\ Effective(r).key # NoKey

\* Mutant: an emptied model field is not written.
KeepsModel(p, r) ==
    [provider |-> p.provider,
     model |-> p.model \/ (r # NoRow /\ r.model),
     key |-> IF p.clear THEN NoKey
             ELSE IF p.key # NoKey THEN p.key
             ELSE IF r = NoRow THEN NoKey ELSE r.key]

\* What the handler assigns to the record it has loaded, r.
Assigned(p, r) ==
    [provider |-> p.provider,
     model |-> p.model,
     key |-> IF p.clear THEN NoKey
             ELSE IF p.key # NoKey THEN p.key
             ELSE IF r = NoRow THEN NoKey ELSE r.key]

\* Mutant: the UPDATE carries every column.
WholeRow(old, new, current) == new

\* The UPDATE carries the columns that differ from the loaded ones.
Written(old, new, current) == IF new = old THEN current ELSE new
ChangedColumns(old, new, current) ==
    [provider |-> Written(old.provider, new.provider, current.provider),
     model |-> Written(old.model, new.model, current.model),
     key |-> Written(old.key, new.key, current.key)]

\* update_agent_settings up to the query.
LoadForPut(t) ==
    /\ pc[t] \in {"idle", "called"}
    /\ \E p \in Drafts : payload' = [payload EXCEPT ![t] = p]
    /\ pc' = [pc EXCEPT ![t] = "putting"]
    /\ seen' = [seen EXCEPT ![t] = row]
    /\ last' = IF \E o \in Threads \ {t} : pc[o] = "putting" THEN Mixed ELSE last
    /\ UNCHANGED <<row, environ, sent, disturbed>>

Answered(t) ==
    /\ pc' = [pc EXCEPT ![t] = "idle"]
    /\ payload' = [payload EXCEPT ![t] = NoPayload]
    /\ seen' = [seen EXCEPT ![t] = NoRow]
    /\ UNCHANGED <<environ, sent, disturbed>>

\* The commit: an UPDATE, or the INSERT of the first PUT.
CommitPut(t) ==
    /\ pc[t] = "putting"
    /\ seen[t] = NoRow => row = NoRow
    /\ row' = IF seen[t] = NoRow THEN Assigned(payload[t], NoRow)
              ELSE ChangedColumns(seen[t], Assigned(payload[t], seen[t]), row)
    /\ last' = IF last = Mixed THEN Mixed ELSE payload[t]
    /\ Answered(t)

\* Two first PUTs: the primary key refuses the second INSERT.
PutCollides(t) ==
    /\ pc[t] = "putting"
    /\ seen[t] = NoRow /\ row # NoRow
    /\ Answered(t)
    /\ UNCHANGED <<row, last>>

-----------------------------------------------------------------------------
\* Planning in intelligent mode with a provider and a model.  Without a model
\* it raises before anything is set; standard mode calls nothing.
StartPlanning(t) ==
    /\ pc[t] \in {"idle", "called"}
    /\ Effective(row).provider \in Enabled
    /\ Effective(row).model
    /\ pc' = [pc EXCEPT ![t] = "planning"]
    /\ seen' = [seen EXCEPT ![t] = Effective(row)]
    /\ sent' = [sent EXCEPT ![t] = NoKey]
    /\ disturbed' = [disturbed EXCEPT ![t] = FALSE]
    /\ UNCHANGED <<row, environ, payload, last>>

\* Mutant: every key goes to the OpenAI variable.
OneVariable(p) == "OPENAI_API_KEY"

\* The variable LiteLLMCandidateProvider.generate assigns.
VariableOf(p) ==
    IF p = "anthropic" THEN "ANTHROPIC_API_KEY" ELSE "OPENAI_API_KEY"

\* The variable litellm reads for a model of this provider.
ReadByLitellm(p) ==
    [anthropic |-> "ANTHROPIC_API_KEY",
     openai_compatible |-> "OPENAI_API_KEY"][p]

\* Without a key the variable is left as it is.
SetEnviron(t) ==
    /\ pc[t] = "planning"
    /\ pc' = [pc EXCEPT ![t] = "calling"]
    /\ IF seen[t].key = NoKey
       THEN UNCHANGED <<environ, disturbed>>
       ELSE /\ environ' = [environ EXCEPT
                             ![VariableOf(seen[t].provider)] = seen[t].key]
            /\ disturbed' = [o \in Threads |->
                 disturbed[o] \/ /\ o # t
                                 /\ pc[o] = "calling"
                                 /\ seen[o].provider = seen[t].provider]
    /\ UNCHANGED <<row, request, sent, last>>

\* litellm.completion, whatever it returns.
CallLLM(t) ==
    /\ pc[t] = "calling"
    /\ pc' = [pc EXCEPT ![t] = "called"]
    /\ sent' = [sent EXCEPT ![t] = environ[ReadByLitellm(seen[t].provider)]]
    /\ UNCHANGED <<row, environ, request, history>>

\* pm2 restarts the API process: requests are gone, and so is the environment
\* that earlier calls have set.
Restart ==
    /\ environ' = EmptyEnviron
    /\ pc' = [t \in Threads |-> "idle"]
    /\ payload' = [t \in Threads |-> NoPayload]
    /\ seen' = [t \in Threads |-> NoRow]
    /\ sent' = [t \in Threads |-> NoKey]
    /\ disturbed' = [t \in Threads |-> FALSE]
    /\ UNCHANGED <<row, last>>

Put(t) == LoadForPut(t) \/ CommitPut(t) \/ PutCollides(t)
Plan(t) == StartPlanning(t) \/ SetEnviron(t) \/ CallLLM(t)

Next == Restart \/ \E t \in Threads : Put(t) \/ Plan(t)

Spec == Init /\ [][Next]_vars

-----------------------------------------------------------------------------
\* A PUT with a blank key keeps the stored one (docs/api.md:145), also when
\* another PUT replaces that key between its load and its commit.
BlankPutKeepsTheKey ==
    [][\A t \in Threads :
         /\ pc[t] = "putting" /\ pc'[t] = "idle"
         /\ row # NoRow /\ row' # row
         /\ payload[t].key = NoKey /\ ~payload[t].clear
         => row'.key = row.key]_vars

\* An LLM call goes out with the key of the settings it read, unless another
\* call of the same provider ran into it.
UndisturbedCallSendsItsKey ==
    \A t \in Threads :
        pc[t] = "called" /\ seen[t].key # NoKey /\ ~disturbed[t]
            => sent[t] = seen[t].key

\* As long as PUTs do not overlap, the row is what the last one asked for;
\* overlapping ones may leave the provider of one with the model of another.
RowIsTheLastPut ==
    row # NoRow /\ last # Mixed =>
        /\ row.provider = last.provider
        /\ row.model = last.model
        /\ last.clear => row.key = NoKey
        /\ ~last.clear /\ last.key # NoKey => row.key = last.key

\* A call whose settings hold no key sends none: a removed key is not used any
\* more (docs/api.md:146, "clear_api_key=true removes it").
RemovedKeyIsNotSent ==
    \A t \in Threads :
        pc[t] = "called" /\ seen[t].key = NoKey => sent[t] = NoKey

\* The validation of a draft that enables a provider says whether a key will be
\* configured once nobody overtakes its PUT (api/v1.py:511-524).  Drafts that
\* clear the key are excepted where a default key appears behind it, or where
\* they name a key as well: validation says the opposite of what will be.
ValidationPredictsTheKey ==
    [][\A t \in Threads :
         /\ CommitPut(t) /\ seen[t] = row
         /\ payload[t].provider \in Enabled
         /\ payload[t].clear => payload[t].key = NoKey /\ DefaultKey = NoKey
         => (Effective(row').key # NoKey <=> PayloadHasKey(payload[t], row))]_vars
=============================================================================
