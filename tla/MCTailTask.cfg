SPECIFICATION Spec
CONSTANTS
  MaxBlocks = 3
  ReorgDepth = 1
  MaxHeight = 5
  MaxReorgs = 2
  MaxForkDepth = 2
  MaxPending = 0
  MaxErrors = 1
  MaxTipErrors = 1
INVARIANTS
  TailTypeOK
  LiveRowsOnOneChain
  NoGapInTail
  TipIsShown
PROPERTY
  LiveEndsByError
CHECK_DEADLOCK FALSE
