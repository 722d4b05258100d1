SPECIFICATION FairSpec
CONSTANTS
  a = a
  b = b
  c = c
  Pollers = {a, b, c}
  Period <- Mixed
  InterruptEnabled = FALSE
  MaxPollTicks = 1
  NoPoller = NoPoller
INVARIANTS
  PollersInPlace
  NoDuePollerMissed
PROPERTIES
  NoStarvation
  UnregisteredIsFreed
