SPECIFICATION FairSpec
CONSTANTS
  Threads <- TwoThreads
  Devs = {d1}
  Iters = {i1}
  MaxRef = 1
  NoThread = NoThread
PROPERTIES
  IterationCompletes
  UnregisterFinishes
  ImplementsRefCountedDevice
CHECK_DEADLOCK FALSE
