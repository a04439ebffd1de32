SPECIFICATION Spec
CONSTANTS
  Txid <- MCTxid
  Vouts <- MCVouts
  Prevouts <- MCPrevouts
  FeeBase <- MCFeeBase
  Pool <- MCPool
  Confirmed <- MCConfirmed
  GateSize = 2
  MaxRows = 2
  MaxSeq = 2
  MaxCycles = 2
  MaxPending = 0
INVARIANT
  CacheNeverStale
CHECK_DEADLOCK FALSE
