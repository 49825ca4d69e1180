---------------------------- MODULE DemoSeedProofs ----------------------------
(***************************************************************************)
(* For any number of seeders, however they overlap, fail and are interrupted *)
(* by renamings and other edits: the demo data that is committed is whole, a  *)
(* seeder that finds everything adds nothing, and seeders one after the other *)
(* leave one record of each kind.                                            *)
(***************************************************************************)
EXTENDS DemoSeed, FiniteSetTheorems, TLAPS

\* The machines that are or were called demo-a100-01.
Demo == named \cup renamed

AfterSnapshot == {"model", "bootstrap", "container", "bare_metal", "commit"}
AfterModel == {"bootstrap", "container", "bare_metal", "commit"}
AfterBootstrap == {"container", "bare_metal", "commit"}
AfterMode(mode) ==
    IF mode = "container" THEN {"bare_metal", "commit"} ELSE {"commit"}

\* What a session will not insert it has found.
MachineFound(s) ==
    Open(s) => \/ draft[s].machine /\ machine[s] = s
               \/ ~draft[s].machine /\ machine[s] \in Demo
SnapshotFound(s) == pc[s] \in AfterSnapshot => draft[s].snapshot \/ snapshots # {}
ModelFound(s) == pc[s] \in AfterModel => draft[s].model \/ models # {}
RunFound(s) ==
    pc[s] \in AfterBootstrap =>
        draft[s].run \/ \E run \in runs : run.machine = machine[s]
ExperimentsFound(s) ==
    \A mode \in Modes : pc[s] \in AfterMode(mode) =>
        mode \in draft[s].experiments \/ OfMode(mode) # {}

Found(s) == /\ MachineFound(s) /\ SnapshotFound(s) /\ ModelFound(s)
            /\ RunFound(s) /\ ExperimentsFound(s)

\* A session that has found everything when it started inserts nothing.
NothingToAdd(s) ==
    complete[s] /\ Open(s) =>
        /\ draft[s] = Empty
        /\ snapshots # {} /\ models # {}
        /\ \A mode \in Modes : OfMode(mode) # {}

NothingDrafted(s) == pc[s] = "idle" => draft[s] = Empty

SnapshotsAreOfDemo == snapshots \subseteq Demo

SeedInv ==
    /\ TypeOK
    /\ \A s \in Seeders : Found(s) /\ NothingToAdd(s) /\ NothingDrafted(s)
    /\ SnapshotsAreOfDemo
    /\ DemoDataIsWhole

-----------------------------------------------------------------------------
(* Lemmas.                                                                  *)

\* Rows are never deleted, and a renamed machine is still a demo machine.
Grows ==
    /\ Demo \subseteq Demo'
    /\ snapshots \subseteq snapshots' /\ models \subseteq models'
    /\ runs \subseteq runs' /\ experiments \subseteq experiments'

LEMMA TablesGrow == Next => Grows
  <1>1. Rename => Grows
    BY DEF Rename, Grows, Demo
  <1>2. ASSUME NEW s \in Seeders, Commit(s) PROVE Grows
    BY <1>2 DEF Commit, Grows, Demo
  <1>3. UNCHANGED tables => Grows
    BY DEF tables, Grows, Demo
  <1>4. ASSUME NEW s \in Seeders, Seed(s), ~Commit(s) PROVE UNCHANGED tables
    BY <1>4 DEF Seed, SelectMachine, SelectSnapshot, SelectModel,
                SelectBootstrap, Fail, SelectExperiment
  <1>5. Edit => UNCHANGED tables
    BY DEF Edit
  <1> QED BY <1>1, <1>2, <1>3, <1>4, <1>5 DEF Next

\* With more experiments there are not fewer of a mode.
LEMMA ModesGrow ==
    ASSUME experiments \subseteq experiments', NEW mode, OfMode(mode) # {}
    PROVE  OfMode(mode)' # {}
  BY DEF OfMode

\* A session that stands still keeps what it has found.
LEMMA OthersKeep ==
    ASSUME Grows, NEW o \in Seeders, pc'[o] = pc[o], machine'[o] = machine[o],
           draft'[o] = draft[o], complete'[o] = complete[o],
           Found(o), NothingToAdd(o), NothingDrafted(o)
    PROVE  Found(o)' /\ NothingToAdd(o)' /\ NothingDrafted(o)'
  <1>1. Open(o)' <=> Open(o)
    BY DEF Open
  <1>2. MachineFound(o)' /\ SnapshotFound(o)' /\ ModelFound(o)'
    BY <1>1 DEF Grows, Found, MachineFound, SnapshotFound, ModelFound
  <1>3. RunFound(o)'
    BY DEF Grows, Found, RunFound
  <1>4. ExperimentsFound(o)'
    BY ModesGrow DEF Grows, Found, ExperimentsFound
  <1>5. NothingToAdd(o)'
    BY <1>1, ModesGrow DEF Grows, NothingToAdd
  <1> QED BY <1>2, <1>3, <1>4, <1>5 DEF Found, NothingDrafted

\* A step that leaves the tables alone leaves the data as whole as it is.
LEMMA DataUntouched ==
    ASSUME SeedInv, UNCHANGED tables
    PROVE  SnapshotsAreOfDemo' /\ DemoDataIsWhole'
  BY DEF SeedInv, tables, SnapshotsAreOfDemo, Demo, DemoDataIsWhole, OfMode

\* Replacing one field of a draft gives a draft.
LEMMA DraftFields ==
    ASSUME NEW d \in Draft, NEW b \in BOOLEAN
    PROVE  /\ [d EXCEPT !.machine = b] \in Draft
           /\ [d EXCEPT !.snapshot = b] \in Draft
           /\ [d EXCEPT !.model = b] \in Draft
           /\ [d EXCEPT !.run = b] \in Draft
  BY DEF Draft

LEMMA DraftModes ==
    ASSUME NEW d \in Draft, NEW e \in SUBSET Modes
    PROVE  [d EXCEPT !.experiments = e] \in Draft
  BY DEF Draft

\* A draft without rows stays so when a field is set to what it is.
LEMMA EmptyFields ==
    ASSUME NEW d \in Draft, d = Empty
    PROVE  /\ [d EXCEPT !.snapshot = FALSE] = d
           /\ [d EXCEPT !.model = FALSE] = d
           /\ [d EXCEPT !.run = FALSE] = d
           /\ [d EXCEPT !.experiments = {}] = d
  <1>1. d.snapshot = FALSE /\ d.model = FALSE /\ d.run = FALSE /\ d.experiments = {}
    BY DEF Empty
  <1> QED BY <1>1 DEF Draft

\* A step of one session keeps the types if its own parts are of their types.
LEMMA OwnTypes ==
    ASSUME TypeOK, NEW s \in Seeders, UNCHANGED tables,
           NEW stage \in Stages, pc' = [pc EXCEPT ![s] = stage],
           NEW d \in Draft, draft' = [draft EXCEPT ![s] = d],
           machine' \in [Seeders -> Seeders \cup {Nobody}],
           edited' = edited, reset' \in [Seeders -> SUBSET Columns],
           complete' \in [Seeders -> BOOLEAN], serial' \in BOOLEAN
    PROVE  /\ TypeOK'
           /\ pc'[s] = stage /\ draft'[s] = d
           /\ \A o \in Seeders \ {s} : pc'[o] = pc[o] /\ draft'[o] = draft[o]
  BY DEF TypeOK, tables

LEMMA InitSeed == Init => SeedInv
  <1> SUFFICES ASSUME Init PROVE SeedInv
    OBVIOUS
  <1>1. TypeOK
    BY DEF Init, TypeOK, Stages, Draft, Empty
  <1>2. \A s \in Seeders : Found(s) /\ NothingToAdd(s) /\ NothingDrafted(s)
    BY DEF Init, Open, Found, MachineFound, SnapshotFound, ModelFound, RunFound,
           ExperimentsFound, NothingToAdd, NothingDrafted, AfterSnapshot,
           AfterModel, AfterBootstrap, AfterMode
  <1>3. SnapshotsAreOfDemo /\ DemoDataIsWhole
    BY DEF Init, SnapshotsAreOfDemo, DemoDataIsWhole
  <1> QED BY <1>1, <1>2, <1>3 DEF SeedInv

-----------------------------------------------------------------------------
(* The steps of a session.                                                  *)

\* A step of one session that leaves the tables alone preserves the invariant
\* if it does so for the session itself.
LEMMA OwnStep ==
    ASSUME SeedInv, NEW s \in Seeders, UNCHANGED tables, TypeOK',
           \A o \in Seeders \ {s} :
               /\ pc'[o] = pc[o] /\ machine'[o] = machine[o]
               /\ draft'[o] = draft[o] /\ complete'[o] = complete[o],
           Found(s)' /\ NothingToAdd(s)' /\ NothingDrafted(s)'
    PROVE  SeedInv'
  <1>1. Grows
    BY DEF tables, Grows, Demo
  <1>2. \A o \in Seeders : Found(o)' /\ NothingToAdd(o)' /\ NothingDrafted(o)'
    BY <1>1, OthersKeep DEF SeedInv
  <1> QED BY <1>2, DataUntouched DEF SeedInv

LEMMA SelectMachineSeed ==
    ASSUME SeedInv, NEW s \in Seeders, SelectMachine(s)
    PROVE  SeedInv'
  <1> USE DEF SeedInv
  <1> DEFINE d == IF named = {} THEN [draft[s] EXCEPT !.machine = TRUE]
                  ELSE draft[s]
  <1>1. /\ pc[s] = "idle" /\ pc' = [pc EXCEPT ![s] = "snapshot"]
        /\ complete' = [complete EXCEPT ![s] = Complete]
        /\ UNCHANGED <<tables, edited>>
        /\ serial' = (serial /\ \A o \in Seeders : ~Open(o))
    BY DEF SelectMachine, Goto
  <1>2. /\ draft[s] = Empty /\ draft[s] \in Draft
        /\ pc \in [Seeders -> Stages] /\ draft \in [Seeders -> Draft]
        /\ machine \in [Seeders -> Seeders \cup {Nobody}]
        /\ complete \in [Seeders -> BOOLEAN]
    BY <1>1 DEF NothingDrafted, TypeOK
  <1>3. draft' = [draft EXCEPT ![s] = d]
    BY <1>2 DEF SelectMachine
  <1>4. \E m \in Seeders : /\ machine' = [machine EXCEPT ![s] = m]
                          /\ IF named = {} THEN m = s ELSE m \in named
    BY DEF SelectMachine, TypeOK
  <1>5. d \in Draft /\ (d.machine <=> named = {})
    <2>1. CASE named = {}
      <3>1. d = [draft[s] EXCEPT !.machine = TRUE]
        BY <2>1
      <3> QED BY <1>2, <2>1, <3>1, DraftFields DEF Draft
    <2>2. CASE named # {}
      <3>1. d = draft[s] /\ draft[s].machine = FALSE
        BY <1>2, <2>2 DEF Empty
      <3> QED BY <1>2, <2>2, <3>1
    <2> QED BY <2>1, <2>2
  <1>6. /\ TypeOK' /\ pc'[s] = "snapshot" /\ draft'[s] = d
        /\ \A o \in Seeders \ {s} : pc'[o] = pc[o] /\ draft'[o] = draft[o]
    <2>1. /\ "snapshot" \in Stages /\ serial' \in BOOLEAN
          /\ machine' \in [Seeders -> Seeders \cup {Nobody}]
          /\ complete' \in [Seeders -> BOOLEAN]
      BY <1>1, <1>2, <1>4 DEF Stages, Complete
    <2>2. reset' \in [Seeders -> SUBSET Columns]
      BY DEF SelectMachine, EditedColumns, TypeOK
    <2> QED BY <1>1, <1>3, <1>5, <2>1, <2>2, OwnTypes
  <1>7. Found(s)'
    <2>1. MachineFound(s)'
      BY <1>1, <1>2, <1>4, <1>5, <1>6 DEF MachineFound, Demo, tables
    <2> QED BY <1>6, <2>1
            DEF Found, SnapshotFound, ModelFound, RunFound, ExperimentsFound,
                AfterSnapshot, AfterModel, AfterBootstrap, AfterMode
  <1>8. NothingToAdd(s)'
    <2> SUFFICES ASSUME complete'[s] PROVE NothingToAdd(s)'
      BY DEF NothingToAdd
    <2>1. Complete
      BY <1>1, <1>2
    <2> QED BY <1>1, <1>2, <1>6, <2>1
            DEF NothingToAdd, Complete, OfMode, tables
  <1>9. NothingDrafted(s)'
    BY <1>6 DEF NothingDrafted
  <1>10. \A o \in Seeders \ {s} :
           machine'[o] = machine[o] /\ complete'[o] = complete[o]
    BY <1>1, <1>2, <1>4
  <1> QED BY <1>1, <1>6, <1>7, <1>8, <1>9, <1>10, OwnStep

\* A look-up: one field of the draft is settled, and the session goes on.
LEMMA LookUpSeed ==
    ASSUME SeedInv, NEW s \in Seeders, Open(s),
           UNCHANGED <<tables, edited, machine, reset, complete, serial>>,
           NEW stage \in Stages \ {"idle"},
           pc' = [pc EXCEPT ![s] = stage],
           NEW d \in Draft, draft' = [draft EXCEPT ![s] = d],
           d.machine = draft[s].machine,
           complete[s] /\ draft[s] = Empty => d = Empty,
           SnapshotFound(s)', ModelFound(s)', RunFound(s)', ExperimentsFound(s)'
    PROVE  SeedInv'
  <1>1. /\ TypeOK' /\ pc'[s] = stage /\ draft'[s] = d
        /\ \A o \in Seeders \ {s} : pc'[o] = pc[o] /\ draft'[o] = draft[o]
    BY OwnTypes DEF SeedInv, TypeOK
  <1>2. MachineFound(s)'
    BY <1>1 DEF SeedInv, Found, MachineFound, Demo, tables
  <1>3. NothingToAdd(s)'
    BY <1>1 DEF SeedInv, NothingToAdd, OfMode, tables
  <1>4. NothingDrafted(s)'
    BY <1>1 DEF NothingDrafted
  <1> QED BY <1>1, <1>2, <1>3, <1>4, OwnStep DEF Found

LEMMA SelectSnapshotSeed ==
    ASSUME SeedInv, NEW s \in Seeders, SelectSnapshot(s)
    PROVE  SeedInv'
  <1> DEFINE d == [draft[s] EXCEPT !.snapshot = snapshots = {}]
  <1>1. /\ pc[s] = "snapshot" /\ pc' = [pc EXCEPT ![s] = "model"]
        /\ draft' = [draft EXCEPT ![s] = d]
        /\ UNCHANGED <<tables, edited, machine, reset, complete, serial>>
    BY DEF SelectSnapshot, Goto
  <1>2. /\ draft[s] \in Draft /\ d \in Draft
        /\ pc \in [Seeders -> Stages] /\ draft \in [Seeders -> Draft]
    BY DraftFields DEF SeedInv, TypeOK
  <1>3. /\ d.machine = draft[s].machine /\ d.experiments = draft[s].experiments
        /\ d.snapshot <=> snapshots = {}
    BY <1>2 DEF Draft
  <1>4. complete[s] /\ draft[s] = Empty => d = Empty
    <2>1. complete[s] => (snapshots = {}) = FALSE
      BY <1>1 DEF SeedInv, NothingToAdd, Open
    <2> QED BY <1>2, <2>1, EmptyFields
  <1>5. /\ SnapshotFound(s)' /\ ModelFound(s)' /\ RunFound(s)'
        /\ ExperimentsFound(s)'
    BY <1>1, <1>2, <1>3
    DEF SeedInv, Found, SnapshotFound, ModelFound, RunFound, ExperimentsFound,
        tables, AfterSnapshot, AfterModel, AfterBootstrap, AfterMode
  <1>6. Open(s) /\ "model" \in Stages \ {"idle"}
    BY <1>1 DEF Open, Stages
  <1> QED BY <1>1, <1>2, <1>3, <1>4, <1>5, <1>6, LookUpSeed

LEMMA SelectModelSeed ==
    ASSUME SeedInv, NEW s \in Seeders, SelectModel(s)
    PROVE  SeedInv'
  <1> DEFINE d == [draft[s] EXCEPT !.model = models = {}]
  <1>1. /\ pc[s] = "model" /\ pc' = [pc EXCEPT ![s] = "bootstrap"]
        /\ draft' = [draft EXCEPT ![s] = d]
        /\ UNCHANGED <<tables, edited, machine, reset, complete, serial>>
    BY DEF SelectModel, Goto, IsModelMissing
  <1>2. /\ draft[s] \in Draft /\ d \in Draft
        /\ pc \in [Seeders -> Stages] /\ draft \in [Seeders -> Draft]
    BY DraftFields DEF SeedInv, TypeOK
  <1>3. /\ d.machine = draft[s].machine /\ d.experiments = draft[s].experiments
        /\ (d.model <=> models = {}) /\ d.snapshot = draft[s].snapshot
    BY <1>2 DEF Draft
  <1>4. complete[s] /\ draft[s] = Empty => d = Empty
    <2>1. complete[s] => (models = {}) = FALSE
      BY <1>1 DEF SeedInv, NothingToAdd, Open
    <2> QED BY <1>2, <2>1, EmptyFields
  <1>5. /\ SnapshotFound(s)' /\ ModelFound(s)' /\ RunFound(s)'
        /\ ExperimentsFound(s)'
    BY <1>1, <1>2, <1>3
    DEF SeedInv, Found, SnapshotFound, ModelFound, RunFound, ExperimentsFound,
        tables, AfterSnapshot, AfterModel, AfterBootstrap, AfterMode
  <1>6. Open(s) /\ "bootstrap" \in Stages \ {"idle"}
    BY <1>1 DEF Open, Stages
  <1> QED BY <1>1, <1>2, <1>3, <1>4, <1>5, <1>6, LookUpSeed

\* A demo machine has a bootstrap run, so that a complete data set needs none.
LEMMA SelectBootstrapSeed ==
    ASSUME SeedInv, NEW s \in Seeders, SelectBootstrap(s)
    PROVE  SeedInv'
  <1> DEFINE d == [draft[s] EXCEPT !.run = \A run \in runs : run.machine # machine[s]]
  <1>1. /\ pc[s] = "bootstrap" /\ pc' = [pc EXCEPT ![s] = "container"]
        /\ draft' = [draft EXCEPT ![s] = d]
        /\ UNCHANGED <<tables, edited, machine, reset, complete, serial>>
    BY DEF SelectBootstrap, Goto
  <1>2. /\ draft[s] \in Draft /\ d \in Draft
        /\ pc \in [Seeders -> Stages] /\ draft \in [Seeders -> Draft]
    BY DraftFields DEF SeedInv, TypeOK
  <1>3. /\ d.machine = draft[s].machine /\ d.experiments = draft[s].experiments
        /\ d.run <=> \A run \in runs : run.machine # machine[s]
        /\ d.snapshot = draft[s].snapshot /\ d.model = draft[s].model
    BY <1>2 DEF Draft
  <1>4. complete[s] /\ draft[s] = Empty => d = Empty
    <2>1. complete[s] => (\A run \in runs : run.machine # machine[s]) = FALSE
      <3>1. complete[s] => draft[s].machine = FALSE
        BY <1>1 DEF SeedInv, NothingToAdd, Open, Empty
      <3>2. complete[s] => machine[s] \in Demo
        BY <1>1, <3>1 DEF SeedInv, Found, MachineFound, Open
      <3> QED BY <3>2 DEF SeedInv, DemoDataIsWhole, Demo
    <2> QED BY <1>2, <2>1, EmptyFields
  <1>5. /\ SnapshotFound(s)' /\ ModelFound(s)' /\ RunFound(s)'
        /\ ExperimentsFound(s)'
    BY <1>1, <1>2, <1>3
    DEF SeedInv, Found, SnapshotFound, ModelFound, RunFound, ExperimentsFound,
        tables, AfterSnapshot, AfterModel, AfterBootstrap, AfterMode
  <1>6. Open(s) /\ "container" \in Stages \ {"idle"}
    BY <1>1 DEF Open, Stages
  <1> QED BY <1>1, <1>2, <1>3, <1>4, <1>5, <1>6, LookUpSeed

LEMMA SelectExperimentSeed ==
    ASSUME SeedInv, NEW s \in Seeders, NEW mode \in Modes, SelectExperiment(s, mode)
    PROVE  SeedInv'
  <1> DEFINE chosen == IF OfMode(mode) # {} THEN draft[s].experiments
                       ELSE draft[s].experiments \cup {mode}
             d == [draft[s] EXCEPT !.experiments = chosen]
             stage == IF mode = "container" THEN "bare_metal" ELSE "commit"
  <1>1. /\ pc[s] = mode /\ pc' = [pc EXCEPT ![s] = stage]
        /\ draft' = [draft EXCEPT ![s] = d]
        /\ UNCHANGED <<tables, edited, machine, reset, complete, serial>>
    BY DEF SelectExperiment, Goto, FoundExperiment
  <1>2. /\ draft[s] \in Draft /\ chosen \in SUBSET Modes
        /\ pc \in [Seeders -> Stages] /\ draft \in [Seeders -> Draft]
    BY DEF SeedInv, TypeOK, Draft
  <1>3. /\ d \in Draft /\ d.machine = draft[s].machine
        /\ d.snapshot = draft[s].snapshot /\ d.model = draft[s].model
        /\ d.run = draft[s].run /\ d.experiments = chosen
    BY <1>2, DraftModes DEF Draft
  <1>4. complete[s] /\ draft[s] = Empty => d = Empty
    <2>1. complete[s] => OfMode(mode) # {}
      BY <1>1 DEF SeedInv, NothingToAdd, Open, Modes
    <2> QED BY <1>2, <2>1, EmptyFields DEF Empty
  <1>5. SnapshotFound(s)' /\ ModelFound(s)' /\ RunFound(s)'
    BY <1>1, <1>2, <1>3
    DEF SeedInv, Found, SnapshotFound, ModelFound, RunFound, Modes, tables,
        AfterSnapshot, AfterModel, AfterBootstrap
  <1>6. ExperimentsFound(s)'
    BY <1>1, <1>2, <1>3
    DEF SeedInv, Found, ExperimentsFound, OfMode, Modes, tables, AfterMode
  <1>7. Open(s) /\ stage \in Stages \ {"idle"}
    BY <1>1 DEF Open, Stages, Modes
  <1> QED BY <1>1, <1>2, <1>3, <1>4, <1>5, <1>6, <1>7, LookUpSeed

-----------------------------------------------------------------------------
(* The end of a session.                                                    *)

\* What the session inserts completes what it has found.
LEMMA CommitData ==
    ASSUME SeedInv, NEW s \in Seeders, Commit(s)
    PROVE  SnapshotsAreOfDemo' /\ DemoDataIsWhole'
  <1>1. /\ pc[s] = "commit" /\ renamed' = renamed
        /\ named' = named \cup Rows(s, draft[s].machine)
        /\ snapshots' = IF draft[s].snapshot THEN snapshots \cup {machine[s]}
                        ELSE snapshots
        /\ models' = models \cup Rows(s, draft[s].model)
        /\ runs' = runs \cup {[machine |-> machine[s], by |-> t]
                                 : t \in Rows(s, draft[s].run)}
        /\ experiments' = experiments \cup
             {[machine |-> machine[s], mode |-> mode, by |-> s]
                : mode \in draft[s].experiments}
    BY DEF Commit
  <1>2. machine[s] \in Demo' /\ Demo' = Demo \cup {machine[s]}
    BY <1>1 DEF SeedInv, Found, MachineFound, Open, Demo, Rows
  <1>3. SnapshotsAreOfDemo'
    BY <1>1, <1>2 DEF SeedInv, SnapshotsAreOfDemo
  <1>4. \E run \in runs' : run.machine = machine[s]
    <2>1. CASE draft[s].run
      <3>1. [machine |-> machine[s], by |-> s] \in runs'
        BY <1>1, <2>1 DEF Rows
      <3> QED BY <3>1
    <2>2. CASE ~draft[s].run
      BY <1>1, <2>2 DEF SeedInv, Found, RunFound, AfterBootstrap
    <2> QED BY <2>1, <2>2
  <1>5. \A m \in Demo' : \E run \in runs' : run.machine = m
    <2>1. \A m \in Demo : \E run \in runs : run.machine = m
      BY DEF SeedInv, DemoDataIsWhole, Demo
    <2> QED BY <1>1, <1>2, <1>4, <2>1
  <1>6. snapshots' # {}
    BY <1>1 DEF SeedInv, Found, SnapshotFound, AfterSnapshot
  <1>7. \A m \in Demo' \ snapshots' : snapshots' \cap (Demo' \ {m}) # {}
    BY <1>3, <1>6 DEF SnapshotsAreOfDemo
  <1>8. \A e \in experiments' : e.machine \in Demo'
    <2>1. \A e \in experiments : e.machine \in Demo
      BY DEF SeedInv, DemoDataIsWhole, Demo
    <2> QED BY <1>1, <1>2, <2>1
  <1>9. models' # {}
    BY <1>1 DEF SeedInv, Found, ModelFound, AfterModel, Rows
  <1>10. ASSUME NEW mode \in Modes PROVE OfMode(mode)' # {}
    <2>1. CASE mode \in draft[s].experiments
      <3>1. [machine |-> machine[s], mode |-> mode, by |-> s] \in experiments'
        BY <1>1, <2>1
      <3> QED BY <3>1 DEF OfMode
    <2>2. CASE mode \notin draft[s].experiments
      <3>1. OfMode(mode) # {}
        BY <1>1, <2>2 DEF SeedInv, Found, ExperimentsFound, AfterMode
      <3> QED BY <1>1, <3>1 DEF OfMode
    <2> QED BY <2>1, <2>2
  <1> QED BY <1>3, <1>5, <1>7, <1>8, <1>9, <1>10 DEF DemoDataIsWhole, Demo

LEMMA CommitSeed ==
    ASSUME SeedInv, NEW s \in Seeders, Commit(s)
    PROVE  SeedInv'
  <1>1. /\ pc[s] = "commit" /\ pc' = [pc EXCEPT ![s] = "done"]
        /\ edited' \subseteq edited
        /\ UNCHANGED <<renamed, machine, draft, reset, complete, serial>>
    BY DEF Commit, Goto
  <1>2. /\ machine[s] \in Seeders /\ draft[s] \in Draft
    BY <1>1 DEF SeedInv, TypeOK, Found, MachineFound, Open, Demo
  <1>3. TypeOK'
    <2>1. named' \subseteq Seeders /\ snapshots' \subseteq Seeders
          /\ models' \subseteq Seeders
      BY <1>2 DEF SeedInv, TypeOK, Commit, Rows
    <2>2. runs' \subseteq [machine : Seeders, by : Seeders]
      BY <1>2 DEF SeedInv, TypeOK, Commit, Rows
    <2>3. experiments' \subseteq [machine : Seeders, mode : Modes, by : Seeders]
      BY <1>2 DEF SeedInv, TypeOK, Commit, Draft
    <2>4. pc' \in [Seeders -> Stages]
      BY <1>1 DEF SeedInv, TypeOK, Stages
    <2> QED BY <1>1, <2>1, <2>2, <2>3, <2>4 DEF SeedInv, TypeOK
  <1>4. Found(s)' /\ NothingToAdd(s)' /\ NothingDrafted(s)'
    <2>1. pc'[s] = "done"
      BY <1>1 DEF SeedInv, TypeOK
    <2> QED BY <2>1
            DEF Found, MachineFound, SnapshotFound, ModelFound, RunFound,
                ExperimentsFound, NothingToAdd, NothingDrafted, Open,
                AfterSnapshot, AfterModel, AfterBootstrap, AfterMode
  <1>5. \A o \in Seeders \ {s} :
          Found(o)' /\ NothingToAdd(o)' /\ NothingDrafted(o)'
    <2>1. Grows
      BY TablesGrow DEF Next, Seed
    <2>2. \A o \in Seeders \ {s} :
            /\ pc'[o] = pc[o] /\ machine'[o] = machine[o]
            /\ draft'[o] = draft[o] /\ complete'[o] = complete[o]
      BY <1>1 DEF SeedInv, TypeOK
    <2> QED BY <2>1, <2>2, OthersKeep DEF SeedInv
  <1> QED BY <1>3, <1>4, <1>5, CommitData DEF SeedInv

LEMMA FailSeed ==
    ASSUME SeedInv, NEW s \in Seeders, Fail(s)
    PROVE  SeedInv'
  <1>1. /\ pc' = [pc EXCEPT ![s] = "failed"] /\ UNCHANGED tables
        /\ UNCHANGED <<edited, machine, draft, reset, complete, serial>>
    BY DEF Fail, Goto
  <1>2. TypeOK' /\ pc'[s] = "failed"
    BY <1>1 DEF SeedInv, TypeOK, tables, Stages
  <1>3. Found(s)' /\ NothingToAdd(s)' /\ NothingDrafted(s)'
    BY <1>2
    DEF Found, MachineFound, SnapshotFound, ModelFound, RunFound,
        ExperimentsFound, NothingToAdd, NothingDrafted, Open,
        AfterSnapshot, AfterModel, AfterBootstrap, AfterMode
  <1>4. \A o \in Seeders \ {s} :
          /\ pc'[o] = pc[o] /\ machine'[o] = machine[o]
          /\ draft'[o] = draft[o] /\ complete'[o] = complete[o]
    BY <1>1 DEF SeedInv, TypeOK
  <1> QED BY <1>1, <1>2, <1>3, <1>4, OwnStep

\* Renaming moves a machine among the demo machines and touches no session.
LEMMA RenameSeed == SeedInv /\ Rename => SeedInv'
  <1> SUFFICES ASSUME SeedInv, Rename PROVE SeedInv'
    OBVIOUS
  <1>1. /\ Demo' = Demo
        /\ UNCHANGED <<snapshots, models, runs, experiments, edited, pc, machine,
                       draft, reset, complete>>
        /\ serial' = FALSE /\ named' \subseteq named
    BY DEF Rename, Demo
  <1>2. TypeOK'
    BY <1>1 DEF SeedInv, TypeOK, Rename
  <1>3. \A o \in Seeders : Found(o)' /\ NothingToAdd(o)' /\ NothingDrafted(o)'
    <2>1. Grows
      BY <1>1 DEF Grows
    <2> QED BY <1>1, <2>1, OthersKeep DEF SeedInv
  <1>4. SnapshotsAreOfDemo' /\ DemoDataIsWhole'
    BY <1>1 DEF SeedInv, SnapshotsAreOfDemo, DemoDataIsWhole, OfMode, Demo
  <1> QED BY <1>2, <1>3, <1>4 DEF SeedInv

\* An edit touches columns of a demo machine and nothing else.
LEMMA EditSeed == SeedInv /\ Edit => SeedInv'
  <1> SUFFICES ASSUME SeedInv, Edit PROVE SeedInv'
    OBVIOUS
  <1>1. UNCHANGED <<tables, pc, machine, draft, reset, complete, serial>>
    BY DEF Edit
  <1>2. Grows
    BY <1>1 DEF tables, Grows, Demo
  <1>3. edited' \subseteq Seeders \X Columns
    <2>1. PICK m \in named \cup renamed, cs \in SUBSET Columns :
            edited' = (edited \ ({m} \X Columns)) \cup ({m} \X cs)
      BY DEF Edit
    <2> QED BY <2>1 DEF SeedInv, TypeOK
  <1>4. TypeOK'
    BY <1>1, <1>3 DEF SeedInv, TypeOK, tables
  <1>5. \A o \in Seeders : Found(o)' /\ NothingToAdd(o)' /\ NothingDrafted(o)'
    BY <1>1, <1>2, OthersKeep DEF SeedInv
  <1> QED BY <1>1, <1>4, <1>5, DataUntouched DEF SeedInv

LEMMA StepSeed == SeedInv /\ [Next]_vars => SeedInv'
  <1> SUFFICES ASSUME SeedInv, [Next]_vars PROVE SeedInv'
    OBVIOUS
  <1>1. ASSUME NEW s \in Seeders, Seed(s) PROVE SeedInv'
    BY <1>1, SelectMachineSeed, SelectSnapshotSeed, SelectModelSeed,
       SelectBootstrapSeed, SelectExperimentSeed, CommitSeed, FailSeed DEF Seed
  <1>2. CASE UNCHANGED vars
    <2>1. /\ Grows
          /\ UNCHANGED <<tables, edited, pc, machine, draft, reset, complete, serial>>
      BY <1>2 DEF vars, tables, Grows, Demo
    <2>2. TypeOK'
      BY <2>1 DEF SeedInv, TypeOK, tables
    <2>3. \A o \in Seeders : Found(o)' /\ NothingToAdd(o)' /\ NothingDrafted(o)'
      BY <2>1, OthersKeep DEF SeedInv
    <2> QED BY <2>1, <2>2, <2>3, DataUntouched DEF SeedInv
  <1> QED BY <1>1, <1>2, RenameSeed, EditSeed DEF Next

THEOREM SeedInvariance == Spec => []SeedInv
  BY InitSeed, StepSeed, PTL DEF Spec

\* The tables and the sessions keep their types (demo_data.py:82-326).
THEOREM SeedTypeCorrect == Spec => []TypeOK
  <1>1. SeedInv => TypeOK
    BY DEF SeedInv
  <1> QED BY <1>1, SeedInvariance, PTL

\* For any number of seeders and whatever overlaps, fails or is renamed: the
\* committed demo data is whole, since a session inserts what it has not found,
\* and what it has found is never deleted (demo_data.py:82-170).
THEOREM DemoDataStaysWhole == Spec => []DemoDataIsWhole
  <1>1. SeedInv => DemoDataIsWhole
    BY DEF SeedInv
  <1> QED BY <1>1, SeedInvariance, PTL

\* A seeder that finds everything when it starts adds no row, however many others
\* run and whatever is renamed or edited meanwhile, and no other change of it is
\* committed than that it sets back edited columns of the machine it found
\* (demo_data.py:82-326).
THEOREM CompleteDataIsLeftAlone == Spec => SeedingAgainAddsNothing
  <1> DEFINE LeavesAlone(s) ==
               /\ UNCHANGED tables
               /\ edited' \subseteq edited
               /\ \A m \in Seeders, c \in Columns :
                    <<m, c>> \in edited \ edited' => m = machine[s] /\ c \in reset[s]
  <1>1. SeedInv /\ [Next]_vars =>
          [\A s \in Seeders :
             pc[s] = "commit" /\ pc'[s] = "done" /\ complete[s]
                 => LeavesAlone(s)]_vars
    <2> SUFFICES ASSUME SeedInv, Next, NEW s \in Seeders,
                        pc[s] = "commit", pc'[s] = "done", complete[s]
                 PROVE  LeavesAlone(s)
      OBVIOUS
    <2>1. Commit(s)
      <3>1. PICK o \in Seeders : Seed(o)
        BY DEF Next, Rename, Edit
      <3>2. o = s
        BY <3>1 DEF SeedInv, TypeOK, Seed, SelectMachine, SelectSnapshot,
                    SelectModel, SelectBootstrap, SelectExperiment, Commit, Fail,
                    Goto
      <3> QED BY <3>1, <3>2 DEF SeedInv, TypeOK, Seed, SelectMachine,
                 SelectSnapshot, SelectModel, SelectBootstrap, SelectExperiment,
                 Fail, Goto, Modes
    <2>2. draft[s] = Empty
      BY DEF SeedInv, NothingToAdd, Open
    <2>3. UNCHANGED tables
      BY <2>1, <2>2 DEF Commit, Rows, Empty, tables
    <2>4. edited' = edited \ ({machine[s]} \X reset[s])
      BY <2>1 DEF Commit
    <2> QED BY <2>3, <2>4
  <1> QED BY <1>1, SeedInvariance, PTL DEF Spec, SeedingAgainAddsNothing

-----------------------------------------------------------------------------
(* Seeders one after the other.                                             *)

NoData == /\ named = {} /\ snapshots = {} /\ models = {} /\ runs = {}
          /\ experiments = {}

\* The data set that m has inserted, and nothing else.
OneDataSet(m) ==
    /\ named = {m} /\ snapshots = {m} /\ models = {m}
    /\ runs = {[machine |-> m, by |-> m]}
    /\ experiments = {[machine |-> m, mode |-> mode, by |-> m] : mode \in Modes}

\* A session that runs alone drafts everything or nothing.
ModesDrafted(s) ==
    CASE pc[s] = "bare_metal" -> {"container"}
      [] pc[s] = "commit" -> Modes
      [] OTHER -> {}

DraftsAll(s) ==
    /\ draft[s].machine
    /\ pc[s] \in AfterSnapshot => draft[s].snapshot
    /\ pc[s] \in AfterModel => draft[s].model
    /\ pc[s] \in AfterBootstrap => draft[s].run
    /\ draft[s].experiments = ModesDrafted(s)

SerialData ==
    /\ renamed = {}
    /\ NoData \/ \E m \in Seeders : OneDataSet(m)
    /\ \A s, o \in Seeders : Open(s) /\ Open(o) => s = o
    /\ \A s \in Seeders : Open(s) =>
         IF NoData THEN DraftsAll(s) ELSE draft[s] = Empty

SerialInv == SeedInv /\ (serial => SerialData)

LEMMA InitSerial == Init => SerialInv
  <1>1. Init => SerialData
    BY DEF Init, SerialData, NoData, Open
  <1> QED BY <1>1, InitSeed DEF SerialInv

\* A step of the only open session that leaves the tables alone.
LEMMA LoneStep ==
    ASSUME SerialData, NEW s \in Seeders, UNCHANGED tables,
           \A o \in Seeders \ {s} : ~Open(o) /\ pc'[o] = pc[o],
           Open(s)' => IF NoData THEN DraftsAll(s)' ELSE draft'[s] = Empty
    PROVE  SerialData'
  <1>1. \A o \in Seeders \ {s} : ~Open(o)'
    BY DEF Open
  <1>2. NoData' <=> NoData
    BY DEF tables, NoData
  <1>3. \A m \in Seeders : OneDataSet(m) => OneDataSet(m)'
    BY DEF tables, OneDataSet
  <1>4. renamed' = {} /\ (NoData' \/ \E m \in Seeders : OneDataSet(m)')
    BY <1>2, <1>3 DEF tables, SerialData
  <1>5. \A u, o \in Seeders : Open(u)' /\ Open(o)' => u = o
    BY <1>1
  <1>6. \A u \in Seeders : Open(u)' =>
          IF NoData' THEN DraftsAll(u)' ELSE draft'[u] = Empty
    BY <1>1, <1>2
  <1> QED BY <1>4, <1>5, <1>6 DEF SerialData

LEMMA SelectMachineSerial ==
    ASSUME SerialInv, serial', NEW s \in Seeders, SelectMachine(s)
    PROVE  SerialData'
  <1> USE DEF SerialInv, SeedInv
  <1>1. /\ pc' = [pc EXCEPT ![s] = "snapshot"] /\ UNCHANGED tables
        /\ serial /\ \A o \in Seeders : ~Open(o)
        /\ draft[s] = Empty
    BY DEF SelectMachine, Goto, NothingDrafted
  <1>2. \A o \in Seeders \ {s} : pc'[o] = pc[o]
    BY <1>1 DEF TypeOK
  <1>3. CASE NoData
    <2>1. draft' = [draft EXCEPT ![s].machine = TRUE]
      BY <1>3 DEF SelectMachine, NoData
    <2>2. draft'[s].machine /\ draft'[s].experiments = {} /\ pc'[s] = "snapshot"
      BY <1>1, <2>1 DEF TypeOK, Draft, Empty
    <2>3. DraftsAll(s)'
      BY <2>2 DEF DraftsAll, ModesDrafted, AfterSnapshot, AfterModel,
                  AfterBootstrap
    <2> QED BY <1>1, <1>2, <1>3, <2>3, LoneStep
  <1>4. CASE ~NoData
    <2>1. named # {}
      BY <1>1, <1>4 DEF SerialData, OneDataSet
    <2>2. draft' = draft
      BY <2>1 DEF SelectMachine
    <2> QED BY <1>1, <1>2, <1>4, <2>2, LoneStep
  <1> QED BY <1>3, <1>4

\* A look-up of the only open session: it finds nothing or everything.
LEMMA LookUpSerial ==
    ASSUME SerialInv, serial, NEW s \in Seeders, Open(s), UNCHANGED tables,
           NEW stage \in Stages, pc' = [pc EXCEPT ![s] = stage],
           NoData /\ DraftsAll(s) => DraftsAll(s)',
           ~NoData /\ draft[s] = Empty => draft'[s] = Empty
    PROVE  SerialData'
  <1>1. \A o \in Seeders \ {s} : ~Open(o) /\ pc'[o] = pc[o]
    BY DEF SerialInv, SerialData, SeedInv, TypeOK
  <1>2. IF NoData THEN DraftsAll(s)' ELSE draft'[s] = Empty
    BY DEF SerialInv, SerialData
  <1> QED BY <1>1, <1>2, LoneStep DEF SerialInv

LEMMA SelectSnapshotSerial ==
    ASSUME SerialInv, serial, NEW s \in Seeders, SelectSnapshot(s)
    PROVE  SerialData'
  <1> DEFINE d == [draft[s] EXCEPT !.snapshot = (snapshots = {})]
  <1>1. /\ pc[s] = "snapshot" /\ pc' = [pc EXCEPT ![s] = "model"]
        /\ UNCHANGED tables
        /\ pc \in [Seeders -> Stages] /\ draft[s] \in Draft
        /\ draft'[s] = d
    BY DEF SelectSnapshot, Goto, SerialInv, SeedInv, TypeOK
  <1>2. NoData /\ DraftsAll(s) => DraftsAll(s)'
    BY <1>1 DEF NoData, DraftsAll, ModesDrafted, Draft, AfterSnapshot,
                AfterModel, AfterBootstrap
  <1>3. ~NoData /\ draft[s] = Empty => draft'[s] = Empty
    <2>1. ~NoData => (snapshots = {}) = FALSE
      BY DEF SerialInv, SerialData, OneDataSet
    <2> QED BY <1>1, <2>1, EmptyFields
  <1>4. Open(s) /\ "model" \in Stages
    BY <1>1 DEF Open, Stages
  <1> QED BY <1>1, <1>2, <1>3, <1>4, LookUpSerial

LEMMA SelectModelSerial ==
    ASSUME SerialInv, serial, NEW s \in Seeders, SelectModel(s)
    PROVE  SerialData'
  <1> DEFINE d == [draft[s] EXCEPT !.model = (models = {})]
  <1>1. /\ pc[s] = "model" /\ pc' = [pc EXCEPT ![s] = "bootstrap"]
        /\ UNCHANGED tables
        /\ pc \in [Seeders -> Stages] /\ draft[s] \in Draft
        /\ draft'[s] = d
    BY DEF SelectModel, IsModelMissing, Goto, SerialInv, SeedInv, TypeOK
  <1>2. NoData /\ DraftsAll(s) => DraftsAll(s)'
    BY <1>1 DEF NoData, DraftsAll, ModesDrafted, Draft, AfterSnapshot,
                AfterModel, AfterBootstrap
  <1>3. ~NoData /\ draft[s] = Empty => draft'[s] = Empty
    <2>1. ~NoData => (models = {}) = FALSE
      BY DEF SerialInv, SerialData, OneDataSet
    <2> QED BY <1>1, <2>1, EmptyFields
  <1>4. Open(s) /\ "bootstrap" \in Stages
    BY <1>1 DEF Open, Stages
  <1> QED BY <1>1, <1>2, <1>3, <1>4, LookUpSerial

\* The one machine has the one run.
LEMMA SelectBootstrapSerial ==
    ASSUME SerialInv, serial, NEW s \in Seeders, SelectBootstrap(s)
    PROVE  SerialData'
  <1> DEFINE missing == \A run \in runs : run.machine # machine[s]
             d == [draft[s] EXCEPT !.run = missing]
  <1>1. /\ pc[s] = "bootstrap" /\ pc' = [pc EXCEPT ![s] = "container"]
        /\ UNCHANGED tables
        /\ pc \in [Seeders -> Stages] /\ draft[s] \in Draft
        /\ draft'[s] = d
    BY DEF SelectBootstrap, Goto, SerialInv, SeedInv, TypeOK
  <1>2. NoData /\ DraftsAll(s) => DraftsAll(s)'
    BY <1>1 DEF NoData, DraftsAll, ModesDrafted, Draft, AfterSnapshot,
                AfterModel, AfterBootstrap
  <1>3. ~NoData /\ draft[s] = Empty => draft'[s] = Empty
    <2> SUFFICES ASSUME ~NoData, draft[s] = Empty PROVE draft'[s] = Empty
      OBVIOUS
    <2>1. PICK m \in Seeders : OneDataSet(m)
      BY DEF SerialInv, SerialData
    <2>2. machine[s] = m
      <3>1. draft[s].machine = FALSE /\ Open(s)
        BY <1>1 DEF Empty, Open
      <3> QED BY <2>1, <3>1 DEF SerialInv, SeedInv, Found, MachineFound, Demo,
                                OneDataSet, SerialData
    <2>3. missing = FALSE
      BY <2>1, <2>2 DEF OneDataSet
    <2> QED BY <1>1, <2>3, EmptyFields
  <1>4. Open(s) /\ "container" \in Stages
    BY <1>1 DEF Open, Stages
  <1> QED BY <1>1, <1>2, <1>3, <1>4, LookUpSerial

LEMMA SelectExperimentSerial ==
    ASSUME SerialInv, serial, NEW s \in Seeders, NEW mode \in Modes,
           SelectExperiment(s, mode)
    PROVE  SerialData'
  <1> DEFINE chosen == IF OfMode(mode) # {} THEN draft[s].experiments
                       ELSE draft[s].experiments \cup {mode}
             d == [draft[s] EXCEPT !.experiments = chosen]
             stage == IF mode = "container" THEN "bare_metal" ELSE "commit"
  <1>1. /\ pc[s] = mode /\ pc' = [pc EXCEPT ![s] = stage]
        /\ UNCHANGED tables
        /\ pc \in [Seeders -> Stages] /\ draft[s] \in Draft
        /\ draft'[s] = d
    BY DEF SelectExperiment, FoundExperiment, Goto, SerialInv, SeedInv, TypeOK
  <1>2. NoData /\ DraftsAll(s) => DraftsAll(s)'
    <2> SUFFICES ASSUME NoData, DraftsAll(s) PROVE DraftsAll(s)'
      OBVIOUS
    <2>1. chosen = draft[s].experiments \cup {mode}
      BY DEF NoData, OfMode
    <2>2. chosen = IF mode = "container" THEN {"container"} ELSE Modes
      BY <1>1, <2>1 DEF DraftsAll, ModesDrafted, Modes
    <2>3. pc'[s] = stage
      BY <1>1
    <2>4. draft'[s].experiments = ModesDrafted(s)'
      BY <1>1, <2>2, <2>3 DEF Draft, ModesDrafted, Modes
    <2> QED BY <1>1, <2>3, <2>4 DEF DraftsAll, Draft, Modes, AfterSnapshot,
               AfterModel, AfterBootstrap
  <1>3. ~NoData /\ draft[s] = Empty => draft'[s] = Empty
    <2>1. ~NoData => OfMode(mode) # {}
      <3>1. ASSUME NEW m \in Seeders, OneDataSet(m) PROVE OfMode(mode) # {}
        <4>1. [machine |-> m, mode |-> mode, by |-> m] \in OfMode(mode)
          BY <3>1 DEF OneDataSet, OfMode
        <4> QED BY <4>1
      <3> QED BY <3>1 DEF SerialInv, SerialData
    <2> QED BY <1>1, <2>1, EmptyFields DEF Empty
  <1>4. Open(s) /\ stage \in Stages
    BY <1>1 DEF Open, Stages, Modes
  <1> QED BY <1>1, <1>2, <1>3, <1>4, LookUpSerial

\* A lone session commits the whole data set or nothing.
LEMMA CommitSerial ==
    ASSUME SerialInv, serial, NEW s \in Seeders, Commit(s)
    PROVE  SerialData'
  <1>1. /\ pc[s] = "commit" /\ pc' = [pc EXCEPT ![s] = "done"]
        /\ renamed' = renamed /\ Open(s)
        /\ pc \in [Seeders -> Stages]
    BY DEF Commit, Goto, Open, SerialInv, SeedInv, TypeOK
  <1>2. \A o \in Seeders : ~Open(o)'
    BY <1>1 DEF SerialInv, SerialData, Open
  <1>3. NoData' \/ \E m \in Seeders : OneDataSet(m)'
    <2>1. CASE NoData
      <3>1. DraftsAll(s)
        BY <1>1, <2>1 DEF SerialInv, SerialData
      <3>2. machine[s] = s
        BY <1>1, <3>1 DEF SerialInv, SeedInv, Found, MachineFound, DraftsAll
      <3>3. OneDataSet(s)'
        BY <1>1, <2>1, <3>1, <3>2
        DEF Commit, Rows, NoData, DraftsAll, ModesDrafted, OneDataSet,
            AfterSnapshot, AfterModel, AfterBootstrap
      <3> QED BY <3>3
    <2>2. CASE ~NoData
      <3>1. draft[s] = Empty
        BY <1>1, <2>2 DEF SerialInv, SerialData
      <3>2. UNCHANGED <<named, snapshots, models, runs, experiments>>
        BY <3>1 DEF Commit, Rows, Empty
      <3> QED BY <2>2, <3>2 DEF SerialInv, SerialData, OneDataSet
    <2> QED BY <2>1, <2>2
  <1> QED BY <1>1, <1>2, <1>3 DEF SerialInv, SerialData

LEMMA FailSerial ==
    ASSUME SerialInv, serial, NEW s \in Seeders, Fail(s)
    PROVE  SerialData'
  <1>1. /\ pc' = [pc EXCEPT ![s] = "failed"] /\ UNCHANGED tables /\ Open(s)
        /\ pc \in [Seeders -> Stages]
    BY DEF Fail, Goto, SerialInv, SeedInv, TypeOK
  <1>2. \A o \in Seeders \ {s} : ~Open(o) /\ pc'[o] = pc[o]
    BY <1>1 DEF SerialInv, SerialData
  <1>3. ~Open(s)'
    BY <1>1 DEF Open
  <1> QED BY <1>1, <1>2, <1>3, LoneStep DEF SerialInv

LEMMA StepSerial == SerialInv /\ [Next]_vars => SerialInv'
  <1> SUFFICES ASSUME SerialInv, [Next]_vars, serial' PROVE SerialData'
    BY StepSeed DEF SerialInv
  <1>1. CASE UNCHANGED vars
    BY <1>1 DEF vars, tables, SerialInv, SerialData, NoData, OneDataSet,
                DraftsAll, ModesDrafted, Open
  <1>2. CASE Rename
    BY <1>2 DEF Rename
  <1>3. CASE Edit
    BY <1>3 DEF Edit, tables, SerialInv, SerialData, NoData, OneDataSet,
                DraftsAll, ModesDrafted, Open
  <1>4. ASSUME NEW s \in Seeders, Seed(s) PROVE SerialData'
    <2>1. CASE SelectMachine(s)
      BY <2>1, SelectMachineSerial
    <2>2. CASE ~SelectMachine(s)
      <3>1. serial
        BY <1>4, <2>2 DEF Seed, SelectSnapshot, SelectModel, SelectBootstrap,
                          SelectExperiment, Commit, Fail
      <3> QED BY <1>4, <2>2, <3>1, SelectSnapshotSerial, SelectModelSerial,
                 SelectBootstrapSerial, SelectExperimentSerial, CommitSerial,
                 FailSerial DEF Seed
    <2> QED BY <2>1, <2>2
  <1> QED BY <1>1, <1>2, <1>3, <1>4 DEF Next

\* One record of each kind, counted.
LEMMA OneDataSetCounted ==
    ASSUME NEW m, OneDataSet(m)
    PROVE  /\ Cardinality(named) = 1 /\ Cardinality(snapshots) = 1
           /\ Cardinality(models) = 1 /\ Cardinality(runs) = 1
           /\ \A mode \in Modes : Cardinality(OfMode(mode)) = 1
  <1>1. ASSUME NEW mode \in Modes
        PROVE  OfMode(mode) = {[machine |-> m, mode |-> mode, by |-> m]}
    BY DEF OneDataSet, OfMode
  <1>2. \A x : Cardinality({x}) = 1
    BY FS_Singleton
  <1> QED BY <1>1, <1>2 DEF OneDataSet

LEMMA NoDataCounted ==
    ASSUME NoData
    PROVE  /\ Cardinality(named) = 0 /\ Cardinality(snapshots) = 0
           /\ Cardinality(models) = 0 /\ Cardinality(runs) = 0
           /\ \A mode \in Modes : Cardinality(OfMode(mode)) = 0
  <1>1. \A mode \in Modes : OfMode(mode) = {}
    BY DEF NoData, OfMode
  <1> QED BY <1>1, FS_EmptySet DEF NoData

\* However many seeders run one after the other, and whichever of them fail,
\* there is one record of each kind in the end (docs/api.md:20).
THEOREM SerialSeedersAreIdempotent == Spec => []SerialSeedingIsIdempotent
  <1>1. SerialInv => SerialSeedingIsIdempotent
    <2> SUFFICES ASSUME SerialInv, serial
                 PROVE  /\ \A rows \in {named, snapshots, models, runs,
                               OfMode("container"), OfMode("bare_metal")} :
                             Cardinality(rows) = Cardinality(named)
                        /\ Cardinality(named) <= 1
      BY DEF SerialSeedingIsIdempotent
    <2>1. CASE NoData
      BY <2>1, NoDataCounted DEF Modes
    <2>2. CASE \E m \in Seeders : OneDataSet(m)
      BY <2>2, OneDataSetCounted DEF Modes
    <2> QED BY <2>1, <2>2 DEF SerialInv, SerialData
  <1> QED BY <1>1, InitSerial, StepSerial, PTL DEF Spec
=============================================================================
