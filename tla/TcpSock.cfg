SPECIFICATION Spec
CONSTANTS
  Data = {d1, d2, d3}
  NoData = NoData
  SndBuf = 1
  MaxInput = 1
  MaxDis = 1
SYMMETRY Symmetry
INVARIANTS SentInOrder BufferedIsFlushed OutputGoesOn
CHECK_DEADLOCK FALSE
