SPECIFICATION Spec
CONSTANTS
  a = a
  b = b
  c = c
  Pollers = {a, b, c}
  Period <- Mixed
  InterruptEnabled = TRUE
  MaxPollTicks = 0
  NoPoller = NoPoller
INVARIANTS
  PollersInPlace
CHECK_DEADLOCK FALSE
