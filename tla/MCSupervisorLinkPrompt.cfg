\* One launch, a supervisor started by hand and a prompt, one loss or restart.
SPECIFICATION Spec
CONSTANTS
  MaxLaunch = 1
  MaxFault = 1
  MaxPrompt = 1
  MaxQueue = 0
  ByHand = TRUE
  ScopedAuth = FALSE
  None = None
INVARIANT SubmittedOnce
PROPERTIES
  ByHandTakesNoPlace
\* all processes are gone and the launch is used up
CHECK_DEADLOCK FALSE
