SPECIFICATION Spec
CONSTANTS
  MaxBlocks = 3
  ReorgDepth = 1
  MaxHeight = 4
  MaxReorgs = 2
  MaxForkDepth = 2
  MaxPending = 0
  MaxErrors = 1
  MaxTipErrors = 0
INVARIANT
  DimmedRowsAreReplaced
CHECK_DEADLOCK FALSE
