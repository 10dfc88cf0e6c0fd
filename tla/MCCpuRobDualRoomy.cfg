CONSTANTS
  DEPTH = 4
  NREG = 1
  NPRD = 6
  MaxPrd = 3
  NoEntry = NoEntry
  Ops <- MCOps
  WbPorts = 2
  DualAlloc = TRUE
SPECIFICATION Spec
INVARIANTS
  WindowExact
  
PROPERTIES
  InOrder
