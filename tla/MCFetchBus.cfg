CONSTANTS
  c1 = c1
  c2 = c2
  d1 = d1
  reset = reset
  w0 = w0
  w1 = w1
  Code <- MCCode
  PcReset <- reset
  Addr0 <- d1
  Word0 <- w0
  Nop <- w0
  SnpcOf <- MCSnpcOf
  Data <- OneDatum
  Word <- TwoWords
SPECIFICATION FairSpec
INVARIANTS
  IInv
  FetchedWord
  FetchInOrder
  LoadValue
  StoreValue
PROPERTIES
  AtomicSpec
  AccessFinishes
  FetchAnswered
