\* Two changes from outside and one turn: a signal may come at each await of a tick.
SPECIFICATION FairSpec
CONSTANT MaxEvents = 2
CONSTANT MaxTurns = 1
INVARIANT IInv
PROPERTY DoneIsTold
PROPERTY ProbeNeverRelights
PROPERTY SignalIsHeard
