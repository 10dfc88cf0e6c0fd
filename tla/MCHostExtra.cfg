CONSTANTS
  Radix = 4
  PipeCap = 2
  SpikeTicks = 1
  ReadMax = 3
  LinkTicks = 1
  SilenceMax = 2
  PauseMax = 1
  Tests <- OneTest
  Extras <- LikeAResponse
  Impatient = FALSE
SPECIFICATION Spec
INVARIANTS
  AnswerExact
