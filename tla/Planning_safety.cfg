SPECIFICATION LoopSpec
CONSTANTS
  GpuCounts = {1, 2, 4, 8, 40}
  Budgets <- AllBudgets
  LlmAnswers <- Answers
  PlanRequests <- AllRequests
  PlanOf <- AllPlans
  NaN = NaN
  Scores = {0, 1, 2, NaN}
CONSTRAINTS
  LongPlansScoreZero
INVARIANTS
  BestIsFirstMaximum
  MatrixIsProgressive
  MatrixFitsTheMachine
  IntelligentPlanIsComplete
CHECK_DEADLOCK FALSE
