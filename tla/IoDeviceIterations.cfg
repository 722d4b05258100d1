SPECIFICATION Spec
CONSTANTS
  Threads <- TwoThreads
  Devs = {d1}
  Iters = {i1, i2}
  MaxRef = 1
  NoThread = NoThread
SYMMETRY IterSymmetry
INVARIANTS
  IteratedStaysRegistered
  ForEachVisitsAll
  ExitedIsQuiet
CHECK_DEADLOCK FALSE
