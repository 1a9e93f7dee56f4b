SPECIFICATION FairSpec
CONSTANTS
  Requests = {r1, r2}
  Tasks = {t1, t2}
  Servers = {s1, s2}
  None = None
INVARIANTS
  IInv
  MutualExclusion
  NoLeak
  SomeoneMoves
PROPERTIES RefinesFifo EveryCallRuns
