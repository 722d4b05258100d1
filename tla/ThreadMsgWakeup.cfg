SPECIFICATION FairSpec
CONSTANTS
  s1 = s1
  s2 = s2
  Senders = {s1, s2}
  MaxSent = 2
  BatchSize = 2
  MaxSwitches = 1
INVARIANTS
  WakeupSound
PROPERTIES
  MessagesRun
CHECK_DEADLOCK FALSE
