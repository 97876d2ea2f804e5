CONSTANTS
  Threads = {t1, t2, t3}
  Capacities <- MCCapacities
  Repli = 3
SPECIFICATION FairSpec
INVARIANTS
  CounterIsExact
  Bounded
PROPERTY WaitEnds
