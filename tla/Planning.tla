------------------------------ MODULE Planning ------------------------------
(***************************************************************************)
(* Candidate planning (tuning.py:35-150, api/v1.py:721-783): the standard    *)
(* matrix, the fixed candidates and the LLM's, pruning, and the cut to the   *)
(* trial budget.  TuningLoop then runs what is planned here.                 *)
(*                                                                          *)
(* A candidate keeps the parameters that planning computes or looks at; the  *)
(* memory fraction is in percent.  Every candidate is built through          *)
(* FrameworkParams, so the second validation (tuning.py:144-149) drops none. *)
(***************************************************************************)
EXTENDS TuningLoop, FiniteSets

CONSTANTS
    GpuCounts,      \* _machine_gpu_count, at least 1
    Budgets,        \* int(budget["max_trials"]): any integer
    LlmAnswers      \* sequences of candidates an LLM may add

Candidate(tp, memory, length, seqs, tokens) ==
    [tensor_parallel_size |-> tp, gpu_memory_utilization |-> memory,
     max_model_len |-> length, max_num_seqs |-> seqs,
     max_num_batched_tokens |-> tokens]

\* What FrameworkParams accepts.
FrameworkParams ==
    [tensor_parallel_size : Nat \ {0}, gpu_memory_utilization : 1 .. 100,
     max_model_len : Nat \ {0}, max_num_seqs : Nat \ {0},
     max_num_batched_tokens : Nat \ {0}]

\* Its defaults, in all but two parameters.
Point(memory, seqs) == Candidate(1, memory, 4096, seqs, 8192)

AtMost(a, b) == IF a <= b THEN a ELSE b
AtLeastOne(a) == IF a >= 1 THEN a ELSE 1

\* Python's s[:n], also for a negative n.
Cut(s, n) == SubSeq(s, 1, IF n >= 0 THEN AtMost(n, Len(s)) ELSE Len(s) + n)

-----------------------------------------------------------------------------
IoPoints == {512, 2048, 16384, 50000}       \* input and output length alike
Concurrencies == {1, 4, 8, 16, 32}

\* Mutant: the batch is capped where a long context does not fit.
SmallBatch(context, n) == AtMost(context * n, 65536)

BatchedTokens(context, n) ==
    AtMost(IF context * n >= 512 THEN context * n ELSE 512, 131072)

BoundedParallel(gpus, n) == AtMost(AtLeastOne(gpus), n)

MatrixCase(gpus, io, n) ==
    LET context == io + io + 16
    IN Candidate(AtLeastOne(BoundedParallel(gpus, n)), 88, context, n,
                 BatchedTokens(context, n))

\* Mutant: sorted by concurrency first.
WideFirst(a, b) ==
    \/ a.max_num_seqs < b.max_num_seqs
    \/ a.max_num_seqs = b.max_num_seqs /\ a.max_model_len < b.max_model_len

Before(a, b) ==
    \/ a.max_model_len < b.max_model_len
    \/ a.max_model_len = b.max_model_len /\ a.max_num_seqs < b.max_num_seqs

MatrixCases(gpus) ==
    {MatrixCase(gpus, io, n) : io \in IoPoints, n \in Concurrencies}

\* A set of cases, in the order of the sort.  No two cases of the matrix share
\* both keys, and so there is one such sequence.
InOrder(cases) ==
    [k \in 1 .. Cardinality(cases) |->
        CHOOSE c \in cases : Cardinality({d \in cases : Before(d, c)}) = k - 1]

\* standard_matrix.  All pairs differ in their number of prompts, so that the
\* test for repeated pairs never removes one.
StandardMatrix(gpus) == InOrder(MatrixCases(gpus))

-----------------------------------------------------------------------------
RuleBaseline(gpus) == Candidate(AtLeastOne(gpus), 88, 4096, 128, 8192)

GridSearch == <<Point(82, 64), Point(82, 128), Point(90, 64), Point(90, 128)>>

\* The two points that random.Random(7) yields.
RandomSearch == <<Point(83, 96), Point(84, 64)>>

MockLlm == <<Candidate(1, 86, 4096, 96, 6144)>>

Offered(gpus, llm) ==
    <<RuleBaseline(gpus)>> \o GridSearch \o RandomSearch \o MockLlm \o llm

\* The condition of heuristic_prune.
Kept(c) ==
    /\ c.max_num_seqs * c.max_model_len <= 1048576
    /\ c.gpu_memory_utilization <= 94

\* heuristic_prune: of the first i candidates, those that it keeps.
Pruned(candidates) ==
    LET kept[i \in 0 .. Len(candidates)] ==
          IF i = 0 THEN <<>>
          ELSE IF Kept(candidates[i]) THEN Append(kept[i - 1], candidates[i])
          ELSE kept[i - 1]
    IN kept[Len(candidates)]

\* Mutant: the budget is spent before pruning.
PruneAfterCut(q) ==
    IF q.mode = "standard" THEN Cut(StandardMatrix(q.gpus), q.budget)
    ELSE Pruned(Cut(Offered(q.gpus, q.llm), q.budget))

\* plan_candidates.
PlanCandidates(q) ==
    IF q.mode = "standard" THEN Cut(StandardMatrix(q.gpus), q.budget)
    ELSE Cut(Pruned(Offered(q.gpus, q.llm)), q.budget)

\* Without a provider the LLM adds nothing; standard mode never asks it.
AllRequests ==
    [mode : {"standard"}, gpus : GpuCounts, budget : Budgets, llm : {<<>>}]
    \cup [mode : {"intelligent"}, gpus : GpuCounts, budget : Budgets,
          llm : LlmAnswers \cup {<<>>}]

AllPlans == [q \in AllRequests |-> PlanCandidates(q)]

\* The loop runs what plan_candidates returns for what is asked.
ASSUME PlanningAssumption ==
    /\ GpuCounts \subseteq Nat \ {0}
    /\ Budgets \subseteq Int
    /\ LlmAnswers \subseteq Seq(FrameworkParams)
    /\ PlanRequests = AllRequests
    /\ PlanOf = AllPlans

-----------------------------------------------------------------------------
plan == PlanOf[request]

\* The standard matrix goes from short to long contexts and, within one, from
\* few to many requests, each case once (docs/api.md:122-123).
MatrixIsProgressive ==
    request.mode = "standard" =>
        LET cases == plan
        IN \A i \in 1 .. Len(cases) : \A j \in 1 .. Len(cases) :
             i < j =>
                 \/ cases[i].max_model_len < cases[j].max_model_len
                 \/ /\ cases[i].max_model_len = cases[j].max_model_len
                    /\ cases[i].max_num_seqs < cases[j].max_num_seqs

\* A case of the matrix can be launched on the machine: it asks for no more
\* GPUs than there are, and a batch holds at least one whole context.
MatrixFitsTheMachine ==
    request.mode = "standard" =>
        LET cases == plan
        IN \A i \in 1 .. Len(cases) :
             /\ cases[i].tensor_parallel_size <= request.gpus
             /\ cases[i].max_num_batched_tokens >= cases[i].max_model_len

\* A candidate worth a trial: its requests fit into 2^20 tokens of context and
\* it leaves 6 % of the memory alone.
Wanted(c) ==
    /\ c.max_num_seqs * c.max_model_len <= 1048576
    /\ c.gpu_memory_utilization <= 94

\* Reference definition of an intelligent plan: a wanted candidate is in it
\* exactly if fewer wanted ones than the limit come before it, and no other is,
\* so that pruning does not cost trials.  The limit is the budget; a negative one
\* takes as many off the end of the wanted ones (tuning.py:150).
IntelligentPlanIsComplete ==
    request.mode = "intelligent" =>
        LET offered == Offered(request.gpus, request.llm)
            rank(i) == Cardinality({j \in 1 .. i : Wanted(offered[j])})
            limit == IF request.budget >= 0 THEN request.budget
                     ELSE rank(Len(offered)) + request.budget
            planned == {i \in 1 .. Len(offered) :
                          rank(i) > rank(i - 1) /\ rank(i) <= limit}
            cases == plan
        IN /\ Len(cases) = Cardinality(planned)
           /\ \A i \in planned : cases[rank(i)] = offered[i]
=============================================================================
