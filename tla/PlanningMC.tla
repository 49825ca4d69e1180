----------------------------- MODULE PlanningMC -----------------------------
(* Instances of Planning and TuningLoop for TLC. *)
EXTENDS Planning

\* LLM answers: one candidate that is kept, one too large for the heuristic,
\* one with too much memory, and a dropped one before a kept one.
Fits == Candidate(2, 84, 8192, 64, 16384)
TooLarge == Candidate(4, 84, 16384, 128, 16384)
TooFull == Candidate(1, 96, 4096, 64, 8192)
Answers == {<<Fits>>, <<TooLarge>>, <<TooFull>>, <<TooLarge, Fits>>,
            <<Fits, TooFull, Fits>>}

AllBudgets == {-25, -9, -1, 0, 1, 2, 4, 7, 8, 9, 10, 16, 19, 20, 21}

\* TLC tries every score on plans of up to this many candidates only.
MaxScored == 4
LongPlansScoreZero ==
    Len(plan) > MaxScored => \A i \in 1 .. Len(observations) : observations[i] = 0
=============================================================================
