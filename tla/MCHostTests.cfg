CONSTANTS
  Radix = 4
  PipeCap = 2
  SpikeTicks = 1
  ReadMax = 3
  LinkTicks = 1
  SilenceMax = 2
  PauseMax = 1
  Tests <- AllTests
  Extras <- PlainExtras
  Impatient = FALSE
SPECIFICATION FairSpec
INVARIANTS
  TypeOK
  ArtifactsAgree
  ReferenceExact
  AnswerExact

  
