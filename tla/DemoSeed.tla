------------------------------ MODULE DemoSeed ------------------------------
(***************************************************************************)
(* seed_demo_data (demo_data.py:82-326): a chain of look-ups by name, each    *)
(* followed by an insert if nothing was found, in one transaction.  It runs   *)
(* at start-up of the API process (api/app.py:26-32) and on every POST        *)
(* /dev/seed-demo-data, in a thread of its own, and no name is unique.        *)
(*                                                                          *)
(* The id of a seeder is the id of the rows it inserts.  The machine is never *)
(* deleted: its bootstrap run references it.  It can be renamed by PATCH, and  *)
(* PATCH, probes and bootstraps change columns that a seeder writes as well.   *)
(***************************************************************************)
EXTENDS FiniteSets, Naturals

CONSTANTS
    Seeders, Nobody,
    Columns         \* status, runtime_mode, machine_profile, fingerprint

ASSUME NobodyAssumption == Nobody \notin Seeders

Modes == {"container", "bare_metal"}

VARIABLES
    named,          \* committed machines called demo-a100-01
    renamed,        \* committed machines that were called so
    snapshots,      \* machines that have a committed demo snapshot
    models,         \* committed models called Demo Qwen3-32B
    runs,           \* committed bootstrap runs: [machine, by]
    experiments,    \* committed demo experiments: [machine, mode, by]
    edited,         \* columns of machines that differ from the demo data
    pc,
    machine,        \* the machine that a seeder works on
    draft,          \* what its session will insert
    reset,          \* the columns of a machine that it will set back
    complete,       \* history: was everything there when it started?
    serial          \* history: no overlap and no renaming so far

tables == <<named, renamed, snapshots, models, runs, experiments>>
vars == <<tables, edited, pc, machine, draft, reset, complete, serial>>

Stages == {"idle", "snapshot", "model", "bootstrap", "container", "bare_metal",
           "commit", "done", "failed"}
Draft == [machine : BOOLEAN, snapshot : BOOLEAN, model : BOOLEAN,
          run : BOOLEAN, experiments : SUBSET Modes]
Empty == [machine |-> FALSE, snapshot |-> FALSE, model |-> FALSE,
          run |-> FALSE, experiments |-> {}]

TypeOK ==
    /\ named \subseteq Seeders /\ renamed \subseteq Seeders
    /\ snapshots \subseteq Seeders /\ models \subseteq Seeders
    /\ runs \subseteq [machine : Seeders, by : Seeders]
    /\ experiments \subseteq [machine : Seeders, mode : Modes, by : Seeders]
    /\ pc \in [Seeders -> Stages]
    /\ machine \in [Seeders -> Seeders \cup {Nobody}]
    /\ draft \in [Seeders -> Draft]
    /\ edited \subseteq Seeders \X Columns
    /\ reset \in [Seeders -> SUBSET Columns]
    /\ complete \in [Seeders -> BOOLEAN]
    /\ serial \in BOOLEAN

Init ==
    /\ named = {} /\ renamed = {} /\ snapshots = {} /\ models = {}
    /\ runs = {} /\ experiments = {}
    /\ pc = [s \in Seeders |-> "idle"]
    /\ machine = [s \in Seeders |-> Nobody]
    /\ draft = [s \in Seeders |-> Empty]
    /\ edited = {}
    /\ reset = [s \in Seeders |-> {}]
    /\ complete = [s \in Seeders |-> FALSE]
    /\ serial = TRUE

Open(s) == pc[s] \notin {"idle", "done", "failed"}
Goto(s, stage) == pc' = [pc EXCEPT ![s] = stage]

OfMode(mode) == {e \in experiments : e.mode = mode}

Complete == /\ named # {} /\ snapshots # {} /\ models # {}
            /\ \A mode \in Modes : OfMode(mode) # {}

-----------------------------------------------------------------------------
\* Mutant: the new machine is committed at once.
SelectMachineAndCommit(s) ==
    /\ pc[s] = "idle"
    /\ \/ /\ named = {}
          /\ machine' = [machine EXCEPT ![s] = s]
          /\ named' = {s}
       \/ /\ \E m \in named : machine' = [machine EXCEPT ![s] = m]
          /\ UNCHANGED named
    /\ complete' = [complete EXCEPT ![s] = Complete]
    /\ serial' = (serial /\ \A o \in Seeders : ~Open(o))
    /\ Goto(s, "snapshot")
    /\ UNCHANGED <<renamed, snapshots, models, runs, experiments, edited, draft,
                   reset>>

EditedColumns(m) == {c \in Columns : <<m, c>> \in edited}

\* _ensure_machine: any one of the machines of that name, or a new one.  Of the
\* one that is found four columns are assigned, and the flush writes those of
\* them that differ from what was loaded.
SelectMachine(s) ==
    /\ pc[s] = "idle"
    /\ \/ /\ named = {}
          /\ machine' = [machine EXCEPT ![s] = s]
          /\ draft' = [draft EXCEPT ![s].machine = TRUE]
          /\ UNCHANGED reset
       \/ \E m \in named :
            /\ machine' = [machine EXCEPT ![s] = m]
            /\ reset' = [reset EXCEPT ![s] = EditedColumns(m)]
            /\ UNCHANGED draft
    /\ complete' = [complete EXCEPT ![s] = Complete]
    /\ serial' = (serial /\ \A o \in Seeders : ~Open(o))
    /\ Goto(s, "snapshot")
    /\ UNCHANGED <<tables, edited>>

\* The snapshot is looked up by its fingerprint, whatever its machine is.
SelectSnapshot(s) ==
    /\ pc[s] = "snapshot"
    /\ draft' = [draft EXCEPT ![s].snapshot = (snapshots = {})]
    /\ Goto(s, "model")
    /\ UNCHANGED <<tables, edited, machine, reset, complete, serial>>

\* Mutant: the model of an earlier seeding is not found again.
ModelMissing == TRUE

IsModelMissing == models = {}

SelectModel(s) ==
    /\ pc[s] = "model"
    /\ draft' = [draft EXCEPT ![s].model = IsModelMissing]
    /\ Goto(s, "bootstrap")
    /\ UNCHANGED <<tables, edited, machine, reset, complete, serial>>

SelectBootstrap(s) ==
    /\ pc[s] = "bootstrap"
    /\ draft' = [draft EXCEPT ![s].run =
                   \A run \in runs : run.machine # machine[s]]
    /\ Goto(s, "container")
    /\ UNCHANGED <<tables, edited, machine, reset, complete, serial>>

\* Mutant: an experiment is looked up by its machine's name as well.
FoundByMachineName(s, mode) == \E e \in OfMode(mode) : e.machine \in named

FoundExperiment(s, mode) == OfMode(mode) # {}

\* _ensure_experiment, for one mode and then for the other.
SelectExperiment(s, mode) ==
    /\ pc[s] = mode
    /\ draft' = [draft EXCEPT ![s].experiments =
                   IF FoundExperiment(s, mode) THEN @ ELSE @ \cup {mode}]
    /\ Goto(s, IF mode = "container" THEN "bare_metal" ELSE "commit")
    /\ UNCHANGED <<tables, edited, machine, reset, complete, serial>>

\* The rows a session has added.
Rows(s, added) == IF added THEN {s} ELSE {}

\* The transaction, with the changes to the machine that was found: a flush
\* locks its row until the commit, so that edits come before or after both.
Commit(s) ==
    /\ pc[s] = "commit"
    /\ edited' = edited \ ({machine[s]} \X reset[s])
    /\ named' = named \cup Rows(s, draft[s].machine)
    /\ snapshots' = IF draft[s].snapshot THEN snapshots \cup {machine[s]}
                    ELSE snapshots
    /\ models' = models \cup Rows(s, draft[s].model)
    /\ runs' = runs \cup {[machine |-> machine[s], by |-> t]
                            : t \in Rows(s, draft[s].run)}
    /\ experiments' = experiments \cup
         {[machine |-> machine[s], mode |-> mode, by |-> s]
            : mode \in draft[s].experiments}
    /\ Goto(s, "done")
    /\ UNCHANGED <<renamed, machine, draft, reset, complete, serial>>

\* A database error or the end of the process: nothing is committed.  pm2
\* starts the API again, which is another seeder.
Fail(s) ==
    /\ Open(s)
    /\ Goto(s, "failed")
    /\ UNCHANGED <<tables, edited, machine, draft, reset, complete, serial>>

\* PATCH of the machine's name.
Rename ==
    /\ \E m \in named : named' = named \ {m} /\ renamed' = renamed \cup {m}
    /\ serial' = FALSE
    /\ UNCHANGED <<snapshots, models, runs, experiments, edited, pc, machine,
                   draft, reset, complete>>

\* A PATCH, probe or bootstrap leaves other columns than before different from
\* the demo data.
Edit ==
    /\ \E m \in named \cup renamed : \E cs \in SUBSET Columns \ {EditedColumns(m)} :
         edited' = (edited \ ({m} \X Columns)) \cup ({m} \X cs)
    /\ UNCHANGED <<tables, pc, machine, draft, reset, complete, serial>>

Seed(s) == \/ SelectMachine(s) \/ SelectSnapshot(s) \/ SelectModel(s)
           \/ SelectBootstrap(s) \/ Commit(s) \/ Fail(s)
           \/ \E mode \in Modes : SelectExperiment(s, mode)

Next == Rename \/ Edit \/ \E s \in Seeders : Seed(s)

Spec == Init /\ [][Next]_vars

-----------------------------------------------------------------------------
\* Seeders that do not overlap, some of which may fail, leave one record of
\* each kind, however many they are.
SerialSeedingIsIdempotent ==
    serial =>
        /\ \A rows \in {named, snapshots, models, runs,
                        OfMode("container"), OfMode("bare_metal")} :
             Cardinality(rows) = Cardinality(named)
        /\ Cardinality(named) <= 1

\* Whatever overlaps, fails or is renamed: a demo machine has its bootstrap
\* run, it has its snapshot or another demo machine has it, an experiment has
\* its machine, and where there is or was a demo machine there are a model and
\* both experiments.
DemoDataIsWhole ==
    LET demo == named \cup renamed
    IN  /\ \A m \in demo : \E run \in runs : run.machine = m
        /\ \A m \in demo \ snapshots : snapshots \cap (demo \ {m}) # {}
        /\ \A e \in experiments : e.machine \in demo
        /\ demo # {} => models # {} /\ \A mode \in Modes : OfMode(mode) # {}

\* A seeder that finds everything in place when it starts adds no row, also
\* when earlier ones have left duplicates and a machine is renamed meanwhile.
\* What it does change are the columns of the machine it found that somebody had
\* edited by then: they are set back (demo_data.py:101-105), while an edit of
\* any other column, made before or meanwhile, stays.
SeedingAgainAddsNothing ==
    [][\A s \in Seeders :
         pc[s] = "commit" /\ pc'[s] = "done" /\ complete[s] =>
             /\ UNCHANGED tables
             /\ edited' \subseteq edited
             /\ \A m \in Seeders, c \in Columns :
                  <<m, c>> \in edited \ edited' => m = machine[s] /\ c \in reset[s]]_vars
=============================================================================
