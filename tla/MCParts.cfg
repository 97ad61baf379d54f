CONSTANTS
  NR_WP = 4
  Exprs = {e1, e2}
  NoExpr = none
  Vals = {0, 1}
  IRING_SIZE = 3
  Listed = {f}
  Unlisted = {u}
  MaxExecuted = 6
  WORD = 16
  Regs <- MCRegs
  Mem <- MCMem
  LANES = 8
  BYTE = 256
  XLEN = 8
  Factors <- MCFactors
  SymType <- MCSymType
SPECIFICATION PartSpec
CHECK_DEADLOCK FALSE
INVARIANTS
  MultipliesSigned
  Partition
  PrintsLastInstructions
  IndentedByDepth
PROPERTIES
  ImplementsSet
  ExecutesRV64IM
  ExpressionsMeanWhatCMeans
  WritesByLane
  DependenciesKeepTheirMeaning
  DependenciesReadBack
