SPECIFICATION Spec
CONSTANTS
  Handlers = {h1, h2}
  None = None
  Ops = {"execute", "retry", "delete", "archive", "sleep", "sessionKill", "put", "die", "listFails", "killFails"}
  MaxGen = 3
SYMMETRY Symmetric
INVARIANT NullHasNoToken
PROPERTIES RotatesWhenGone SessionKillRevokes
CHECK_DEADLOCK FALSE
