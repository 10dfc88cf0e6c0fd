CONSTANTS
  MaxVersion = 2
  Commands <- Documented
  Reverts = FALSE
  EditsWhileRunning = TRUE
SPECIFICATION Spec
INVARIANTS
  TypeOK
  VerdictTrue
  BoardNotStale
  
