SPECIFICATION FairSpec
CONSTANTS
  c1 = c1  c2 = c2
  Callers = {c1, c2}
  Ops <- Everything
  Workers = {w1, w2}
  Names = {"write"}
  Slots = 1
  Delays = {1}
  MaxNamed = 2
  MaxAlone = 1
  MaxBacklog = 0
  MaxCalls = 3
INVARIANTS OneThreadPerName QuietAfterDestroy
PROPERTIES NamedRefined QueuesDrained PoolEnds
CHECK_DEADLOCK FALSE
