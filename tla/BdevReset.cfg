SPECIFICATION FairSpec
CONSTANTS
  a = a
  x = x
  r1 = r1
  r2 = r2
  NoReset = NoReset
  NThreads = 2
  Ios = {a, x}
  OwnIos = {a}
  SequenceIos = {a}
  IoThread <- Homes
  Resets = {r1, r2}
  ResetThread <- ResetHomes
INVARIANTS
  IosAccounted
  FreezeHolds
  SkippedAfterDrain
PROPERTIES
  AllComplete
CHECK_DEADLOCK FALSE
