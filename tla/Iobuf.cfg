SPECIFICATION FairSpec
CONSTANTS
  t1 = t1
  t2 = t2
  c1 = c1
  c2 = c2
  c3 = c3
  b1 = b1
  b2 = b2
  b3 = b3
  e1 = e1
  e2 = e2
  Threads = {t1, t2}
  Channels = {c1, c2, c3}
  ThreadOf <- TwoAndOne
  CacheSize <- Sizes
  Buffers = {b1, b2, b3}
  Entries = {e1, e2}
  BatchSize = 2
  PopulateSize = 1
  MaxChannels = 2
INVARIANTS
  BuffersAccounted
  CachesKept
PROPERTIES
  WaiterServed
