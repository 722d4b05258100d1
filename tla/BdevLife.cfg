SPECIFICATION FairSpec
CONSTANTS
  d0 = d0
  d1 = d1
  d2 = d2
  r1 = r1
  l1 = l1
  Descs = {d0, d1, d2}
  ExamineDesc = d0
  Resets = {r1}
  Locks = {l1}
  Keys = {1}
  NoKey = NoKey
  MaxEvents = 1
INVARIANTS
  FreedAfterEvents
  
  ClaimsKept

  
CHECK_DEADLOCK FALSE
