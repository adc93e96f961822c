CONSTANTS
  Scripts <- Pairs
  MaxCalls = 2
  Hosts = {h1, h2}
  FirstHost = h1
  NoHost = NoHost
  MaxConns = 2
  MaxMoves = 1
  CLIENT_POOL_SIZE = 2
  MAX_SENDMSG_CLIENT_NUM = 1
  Excluded = {2}
  Allowed = TRUE
  Reliable = TRUE
SPECIFICATION FairSpec
CHECK_DEADLOCK FALSE
INVARIANTS HandledOnce OnePlace IdentifiedFirst
PROPERTIES CallsRefined WaitingReleased
