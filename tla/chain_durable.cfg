SPECIFICATION FairSpec
CONSTANTS
  Block <- MCBlock
  Genesis = "g"
  NoHash = "none"
  PrevHash <- MCPrevHash
  Depth <- MCDepth
  Timestamp <- MCTimestamp
  TxCount <- MCTxCount
  HashValue <- MCHashValue
  RecalculationRate = 2
  TargetElapsed = 120
  MaxDensed = 64
  MaxTxInBlock = 100
  SecondsInDay = 86400
  Times <- MCTimes
  ClockStepsBack = FALSE
  CrashPoints = {"idle", "block"}
INVARIANTS StorageClosed StartsAgain
PROPERTIES ImplementsLog RestartCompletes
