SPECIFICATION Spec
CONSTANTS
  Threads <- TwoThreads
  Devs = {d1, d2}
  Iters = {}
  MaxRef = 2
  NoThread = NoThread
INVARIANTS
  TypeOK
  RefcntCountsHolders
  FreedHasNoChannel
  FreedExactlyOnce
  PutMessagesMatch
CHECK_DEADLOCK FALSE
