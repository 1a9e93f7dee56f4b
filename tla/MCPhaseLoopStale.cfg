SPECIFICATION Spec
CONSTANT Phases <- PlanWorkTests
CONSTANT MaxSelfReview = 2
CONSTANT RequireApproval = FALSE
CONSTANT MaxRuns = 2
CONSTANT MaxTurns = 4
CONSTANT MaxCrashes = 1
PROPERTY RecoveryRedoes
CHECK_DEADLOCK FALSE
