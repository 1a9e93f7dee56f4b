\* Two launches, two losses of a connection or restarts of the hub.
SPECIFICATION FairSpec
CONSTANTS
  MaxLaunch = 2
  MaxFault = 2
  MaxPrompt = 0
  MaxQueue = 1
  ByHand = FALSE
  ScopedAuth = FALSE
  None = None
INVARIANTS
  IInv
  MonitorAgrees
PROPERTIES
  AuthoritySpec
  ExpiresItsOwn
  LaunchBinds
\* all processes are gone and the launches are used up
CHECK_DEADLOCK FALSE
