SPECIFICATION Spec
CONSTANTS
  Callers = {c1, c2}
  Socks = {s1, s2}
  NoTask = NoTask
  EPOLL_QUEUE_LEN = 1
  MaxPendings = 1
  MaxInterrupts = 1
  MaxData = 0
SYMMETRY Symmetry
INVARIANTS NoLostWakeup NoStrandedInput ClosedGoesAway
PROPERTY QueueRefined
CHECK_DEADLOCK FALSE
