SPECIFICATION Spec
CONSTANTS
  Txid <- MCTxid
  Pool <- MCPool
  NoTx = NoTx
  BlockTxs <- MCBlockTxs
  HitLists <- MCHitLists
  Inputs <- MCInputs
  MaxReqs = 1
  MaxAnswers = 0
INVARIANT
  ProgressMeansResolving
CHECK_DEADLOCK FALSE
