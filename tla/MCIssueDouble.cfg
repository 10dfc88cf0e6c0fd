CONSTANTS
  DEPTH = 3
  IQ_DEPTH = 4
  LSQ_DEPTH = 2
  Mixes <- MemoryMix
SPECIFICATION Spec
INVARIANTS
  AccessOnce
