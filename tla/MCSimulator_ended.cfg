CONSTANTS
  NR_WP = 1
  Exprs = {"a0", "pc"}
  NoExpr = "none"
  Vals = {0, 1, 2, 3}
  Setups <- EndedSetups
  ProgLen = 3
  MaxSi = 2
SPECIFICATION SimSpec
CHECK_DEADLOCK FALSE
INVARIANT EndsForGood
