SPECIFICATION FairSpec
CONSTANTS
  Callers = {c1, c2}
  Socks = {s1}
  NoTask = NoTask
  EPOLL_QUEUE_LEN = 1
  MaxPendings = 1
  MaxInterrupts = 0
  MaxData = 1
PROPERTIES TasksTaken LoopEnds
CHECK_DEADLOCK FALSE
