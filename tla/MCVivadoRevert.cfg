CONSTANTS
  MaxVersion = 1
  Commands <- Simple
  Reverts = TRUE
  EditsWhileRunning = FALSE
SPECIFICATION Spec
INVARIANTS
  VerdictTrue
