\* Two turns of one task: the second may start while the first waits.
SPECIFICATION FairSpec
CONSTANT MaxTurns = 2
INVARIANT IInv
INVARIANT OnlyNewestRuns
INVARIANT SignalIsKept
PROPERTY EndsOnce
PROPERTY WaitEnds
PROPERTY PromiseSpec
\* All turns of the bound may have ended.
CHECK_DEADLOCK FALSE
