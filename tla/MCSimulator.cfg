CONSTANTS
  NR_WP = 2
  Exprs = {"a0", "pc"}
  NoExpr = "none"
  Vals = {0, 1, 2, 3}
  Setups <- RunSetups
  ProgLen = 3
  MaxSi = 2
SPECIFICATION FairSimSpec
CHECK_DEADLOCK FALSE
INVARIANTS SimTypeOK EndsForGood ReportsTheEnd FailureIsReported
PROPERTIES NoChangeMissed CommandsReturn
