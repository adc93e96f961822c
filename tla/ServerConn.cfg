CONSTANTS
  p1 = p1  p2 = p2
  Callers = {p1, p2}
  Ops <- OwnerAndUser
  MaxCalls = 2
  MaxConns = 2
  NoAnswer = NoAnswer
SPECIFICATION FairSpec
CHECK_DEADLOCK FALSE
INVARIANT TakenIsSet
PROPERTIES CallsRefined CallsReturn
