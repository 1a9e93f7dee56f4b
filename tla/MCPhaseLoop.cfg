SPECIFICATION FairSpec
CONSTANT Phases <- PlanWorkTestsPush
CONSTANT MaxSelfReview = 2
CONSTANT RequireApproval = TRUE
CONSTANT MaxRuns = 2
CONSTANT MaxTurns = 6
CONSTANT MaxCrashes = 1
INVARIANT OrderInv
INVARIANT PlanIsApproved
INVARIANT ReviewIsEarned
INVARIANT ReviewRounds
PROPERTY NotRunningForever
CHECK_DEADLOCK FALSE
