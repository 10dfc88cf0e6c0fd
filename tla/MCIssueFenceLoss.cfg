CONSTANTS
  DEPTH = 3
  IQ_DEPTH = 4
  LSQ_DEPTH = 2
  Mixes <- FenceMix
SPECIFICATION FairSpec
PROPERTIES
  HeadCompletes
