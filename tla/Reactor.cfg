SPECIFICATION FairSpec
CONSTANTS
  t1 = t1
  t2 = t2
  AnyCore = AnyCore
  NCores = 2
  Threads = {t1}
  BatchSize = 1
INVARIANTS
  
  ThreadsPlaced

  
CHECK_DEADLOCK FALSE
