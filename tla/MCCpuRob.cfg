CONSTANTS
  DEPTH = 3
  NREG = 1
  NPRD = 6
  MaxPrd = 4
  NoEntry = NoEntry
  Ops <- MCOps
  WbPorts = 2
  DualAlloc = FALSE
SPECIFICATION FairSpec
INVARIANTS
  TypeOK
  WindowExact
  
  PendingDistinct
PROPERTIES
  LeavingAccounted
  ScanEnds
  InOrder
