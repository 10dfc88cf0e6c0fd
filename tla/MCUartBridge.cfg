CONSTANTS
  DEPTH = 3
  LANES = 2
  BYTE = 3
  TX_TIME = 9
  GAP = 6
  RESP_IDLE = 1
  TIMEOUT = 14
  FIFO = 2
  MAX_OUT = 4
SPECIFICATION FairSpec
INVARIANTS
  TypeOK
  ImageExact
  OutputThenResponse
PROPERTIES
  FrameAnswered
  BackToIdle
