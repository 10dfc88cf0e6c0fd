CONSTANTS
  DEPTH = 3
  NREG = 1
  NPRD = 4
  CP_DEPTH = 3
  NoEntry = NoEntry
  WbPorts = 1
  DualAlloc = TRUE
  Kinds <- SystemKinds
  Faults = "reset"
  Mret = FALSE
SPECIFICATION Spec
INVARIANTS
  RatPrecise
  NoRegisterLost
  BusyExact
