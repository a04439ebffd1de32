SPECIFICATION Spec
CONSTANTS
  Schedule <- MCSchedule
  Invocations <- MCInvocations
  Servers <- MCServers
  Raws <- MCRaws
  Pool <- MCPool
  MaxHeight = 4
  MaxBoundaries = 2
  Chains <- MCChains
  Breaks <- MCBreaks
  MaxCalls = 2
  Uris <- MCUris
  MaxTokens = 3
  MaxCircuits = 2
  Block <- MCBlock
  MaxBlocks = 3
  MaxBlockTimes = 3
  MaxInserts = 4
  MaxRows = 2
  MaxTxs = 4
  Boundaries <- MCBoundaries
  HeightSamples <- MCSamples
  TargetSpacing = 3
  CadenceWindow = 2
  Chars <- MCChars
  MaxBytes = 3
  MaxQueries = 2
  Parts = {"search bar"}
INVARIANT
  EditsNeverPanic
CHECK_DEADLOCK FALSE
