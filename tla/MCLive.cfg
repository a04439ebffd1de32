SPECIFICATION LiveSpec
CONSTANTS
  MaxBlocks = 3
  ReorgDepth = 1
  MaxHeight = 4
  MaxReorgs = 1
  MaxForkDepth = 2
  MaxPending = 0
  MaxErrors = 1
  MaxTipErrors = 0
  Txid <- MCTxid
  Pool <- MCPool
  NoTx = NoTx
  BlockTxs <- MCBlockTxs
  HitLists = {}
  Inputs <- MCInputs
  MaxReqs = 1
  MaxAnswers = 0
PROPERTIES
  MinedBlockIsShown
  OwedBlocksArrive
  ReconnectsToLive
  ContextArrives
  KeysKeepFocusDrawn
CHECK_DEADLOCK FALSE
