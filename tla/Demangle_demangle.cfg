SPECIFICATION Spec
CONSTANTS
  INT_MAX = 2147483647
  Sizes = {0, 1, 3, 5, 6, 8, 100}
  Symbols <- AllSymbols
  NoText = "-"
INVARIANTS
  TypeOK
  NeverTruncated
  WellFormedDemangled
  ProgressOrRestore
CHECK_DEADLOCK FALSE
