SPECIFICATION Spec
CONSTANTS
  Data = {d1, d2}
  NoData = NoData
  SndBuf = 1
  MaxInput = 1
  MaxDis = 0
INVARIANT NeverStalled
CHECK_DEADLOCK FALSE
