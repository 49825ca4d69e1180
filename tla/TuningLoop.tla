----------------------------- MODULE TuningLoop -----------------------------
(***************************************************************************)
(* run_agent_tuning_loop (tuning.py:153-189): one trial per planned          *)
(* candidate, in order, keeping the first observation with the highest       *)
(* score.  The runner is a callback of the caller: it may return anything that *)
(* float() takes for a score, NaN too, or raise, and then the loop returns     *)
(* nothing.  Two infinite scores compare like two equal numbers.              *)
(***************************************************************************)
EXTENDS Integers, Sequences

CONSTANTS
    PlanRequests,   \* what can be asked for
    PlanOf,         \* the candidates plan_candidates returns for each request
    NaN,            \* the float that no comparison holds of
    Scores          \* tokens per second; 0 when a result has no metrics

ASSUME LoopAssumption ==
    /\ NaN \notin Int
    /\ Scores \subseteq Int \cup {NaN}
    /\ \A q \in PlanRequests : Len(PlanOf[q]) \in Nat

VARIABLES
    request,
    observations,   \* the scores of the trials so far
    best,           \* index of the best observation, 0 for None
    phase           \* running, returned, raised

loopVars == <<request, observations, best, phase>>

LoopTypeOK ==
    /\ request \in PlanRequests
    /\ observations \in Seq(Scores)
    /\ best \in 0 .. Len(observations)
    /\ phase \in {"running", "returned", "raised"}

LoopInit ==
    /\ request \in PlanRequests
    /\ observations = <<>>
    /\ best = 0
    /\ phase = "running"

IsNumber(s) == s # NaN

\* Mutant: a later trial with the same score replaces the best one.
AtLeast(s) ==
    \/ best = 0
    \/ /\ IsNumber(s) /\ IsNumber(observations[best])
       /\ s >= observations[best]

\* A comparison with NaN is false, whichever side it is on.
Better(s) ==
    \/ best = 0
    \/ /\ IsNumber(s) /\ IsNumber(observations[best])
       /\ s > observations[best]

Trial ==
    /\ phase = "running"
    /\ Len(observations) < Len(PlanOf[request])
    /\ \E s \in Scores :
         /\ observations' = Append(observations, s)
         /\ best' = IF Better(s) THEN Len(observations) + 1 ELSE best
    /\ UNCHANGED <<request, phase>>

RunnerRaises ==
    /\ phase = "running"
    /\ Len(observations) < Len(PlanOf[request])
    /\ phase' = "raised"
    /\ UNCHANGED <<request, observations, best>>

Return ==
    /\ phase = "running"
    /\ Len(observations) = Len(PlanOf[request])
    /\ phase' = "returned"
    /\ UNCHANGED <<request, observations, best>>

Outcome == IF observations = <<>> THEN "no_candidates" ELSE "succeeded"

LoopNext == Trial \/ RunnerRaises \/ Return

LoopSpec == LoopInit /\ [][LoopNext]_loopVars

-----------------------------------------------------------------------------
\* At any moment best is the first trial with the highest score so far: a tie
\* keeps the earlier, cheaper candidate, and a trial that scores NaN is passed
\* over, unless it is the very first: that one stays the best whatever is
\* measured after it (tuning.py:175, 182).
BestIsFirstMaximum ==
    /\ best = 0 <=> observations = <<>>
    /\ best # 0 =>
         IF IsNumber(observations[1])
         THEN /\ IsNumber(observations[best])
              /\ \A i \in 1 .. Len(observations) : IsNumber(observations[i]) =>
                   /\ observations[i] <= observations[best]
                   /\ i < best => observations[i] < observations[best]
         ELSE best = 1
=============================================================================
