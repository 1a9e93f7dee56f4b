SPECIFICATION Spec
CONSTANTS
  Callers = {c1}
  MaxContent = 1
  MaxConfig = 1
  Policies = {"manual-approval", "allow", "deny"}
  Entries = {"execute", "follow_up", "resume", "restore", "respawn", "recover_session_legacy"}
  None = None
INVARIANT PendingIsDecidable
CHECK_DEADLOCK FALSE
