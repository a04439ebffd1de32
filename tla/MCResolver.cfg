SPECIFICATION FairSpec
CONSTANTS
  Txid <- MCTxid
  Vouts <- MCVouts
  Prevouts <- MCOneChild
  FeeBase <- MCFeeBase
  Pool <- MCPool
  Confirmed <- MCConfirmed
  GateSize = 2
  MaxRows = 2
  MaxSeq = 3
  MaxCycles = 2
  MaxPending = 0
INVARIANTS
  ResolverTypeOK
  NeverWrongTotal
  GateHolds
  NoDuplicateRows
  SeqNamesOneTx
  FeedsAgree
  ConfirmedNeverAbsent
PROPERTY
  ResolversReport
CHECK_DEADLOCK FALSE
