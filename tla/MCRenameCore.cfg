CONSTANTS
  DEPTH = 3
  NREG = 1
  NPRD = 4
  CP_DEPTH = 3
  NoEntry = NoEntry
  WbPorts = 1
  DualAlloc = FALSE
  Kinds <- SingleKinds
  Faults = "none"
  Mret = FALSE
SPECIFICATION Spec
INVARIANTS
  TypeOK
  RatPrecise
  NoLiveReuse
  NoRegisterLost
  BusyExact
  SnapshotKept
