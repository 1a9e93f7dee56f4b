SPECIFICATION Spec
CONSTANTS
  Handlers = {h1, h2}
  None = None
  Ops = {"execute", "followUp", "respawn", "restore", "retry", "delete", "archive", "sleep", "sessionKill",
         "put", "overlap", "die", "restart", "listFails", "killFails"}
  MaxGen = 2
SYMMETRY Symmetric
INVARIANTS IInv OneCredential
PROPERTIES StatusIsCurrent RollbackRevokesItsOwn
CHECK_DEADLOCK FALSE
