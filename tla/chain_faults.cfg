SPECIFICATION Spec
CONSTANTS
  Block <- MCBlock
  Genesis = "g"
  NoHash = "none"
  PrevHash <- MCPrevHash
  Depth <- MCDepth
  Timestamp <- MCTimestamp
  TxCount <- MCTxCount
  HashValue <- MCHashValue
  RecalculationRate = 2
  TargetElapsed = 120
  MaxDensed = 64
  MaxTxInBlock = 100
  SecondsInDay = 86400
  Times <- MCTimes
  ClockStepsBack = TRUE
  CrashPoints = {"idle", "block", "prev", "last"}
INVARIANTS TypeOK ChainIntact ConsensusTracksChain DifficultyFromChain
