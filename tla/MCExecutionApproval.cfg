SPECIFICATION Spec
CONSTANTS
  Callers = {c1, c2}
  MaxContent = 1
  MaxConfig = 0
  Policies = {"manual-approval"}
  Entries = {"execute", "follow_up", "resume", "restore"}
  None = None
SYMMETRY CallerSymmetry
INVARIANT IInv
PROPERTIES
  BlockSavesTheInterruptedStatus
  OutstandingBlockIsKept
  OneDispatchPerBlock
CHECK_DEADLOCK FALSE
