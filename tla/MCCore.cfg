CONSTANTS
  Code <- MCCode
  Data <- MCData
  Word <- MCWord
  PcReset <- MCPcReset
  Addr0 = 0
  Word0 <- MCWord0
  Nop <- MCNop
  SnpcOf <- MCSnpcOf
  WordBits = 2
  NReg = 3
  NCell = 2
  Ecall = 3
  Images <- MCImages
  ProgramSets <- ProcessorSets
SPECIFICATION FairSpec
CHECK_DEADLOCK FALSE
INVARIANTS
  TypeOK
  PipeInv
PROPERTIES
  RunsISA
  UsesFetchBus
  HarnessPcAgrees
  KeepsRetiring
