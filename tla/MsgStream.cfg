SPECIFICATION StreamSpec
CONSTANTS
  MAX_SERVICE_NAME = 4
  DEFAULT_SIZE = 8
  GROW_SIZE = 70
  SHRINK_SIZE = 64
  DOWN_SIZE = 4
  MAX_SIZE = 64
  HALF = 0
  Messages <- MCMessages
  Contents <- MCContents
  BLOCK_SIZE = 8
  PY_RECV = 24
  Streams <- MCStreams
  MaxFrames <- MCMaxFrames
  Chunks = {8}
CHECK_DEADLOCK FALSE
INVARIANTS NoByteLost DecodedAsSent NothingLeftUnhandled ContentArrives
