CONSTANTS
  Names <- TwoNames
  Conns = {c1, c2}
  Dests <- AllDests
  NoTask = NoTask
  QuitRounds = 1
  MaxMsgs = 2
SPECIFICATION FairSpec
INVARIANT RelayInOrder
PROPERTIES RelayRefined RelayTaken ServerEnds
