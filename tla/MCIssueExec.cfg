CONSTANTS
  DEPTH = 5
  IQ_DEPTH = 3
  LSQ_DEPTH = 2
  Mixes <- Sound
SPECIFICATION FairSpec
INVARIANTS
  TypeOK
  NoOpLost
  AccessOnce
  WakeupExact
  AccessAtHead
  DispatchAccepted
PROPERTIES
  HeadCompletes
