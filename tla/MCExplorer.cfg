SPECIFICATION Spec
CONSTANTS
  Txid <- MCTxid
  Pool <- MCPool
  NoTx = NoTx
  BlockTxs <- MCBlockTxs
  HitLists <- MCHitLists
  Inputs <- MCInputs
  MaxReqs = 1
  MaxAnswers = 0
INVARIANTS
  ExplorerTypeOK
  FocusHasPane
  CursorOnRow
  NoOrphanJob
CHECK_DEADLOCK FALSE
