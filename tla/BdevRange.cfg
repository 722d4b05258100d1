SPECIFICATION FairSpec
CONSTANTS
  qs = qs
  cw1 = cw1
  cw2 = cw2
  rd = rd
  wr = wr
  in = in
  pt = pt
  NoLock = NoLock
  NThreads = 2
  Locks = {qs, cw1, cw2}
  Quiesces = {qs}
  LockThread <- LockHomes
  Ios = {rd, wr, in, pt}
  IoThread <- IoHomes
  IoType <- Types
  IoLock <- PartOf
  Blocks <- Lbas
  MaxNoMem = 1
INVARIANTS
  RangesExclude
  RangesFollowed
PROPERTIES
  RangesProgress
CHECK_DEADLOCK FALSE
