SPECIFICATION FairSpec
CONSTANTS
  Node = {"a", "b"}
  Session <- MutualSessions
  Seeds <- MCSeeds
  InitialChains <- MutualChains
  MaxHeight <- OneMore
  Fragile <- OneFragile
CHECK_DEADLOCK FALSE
INVARIANTS TypeOK PoolsAgree RequestsCanBeAnswered DownloadIsConnected OneSourceDelivers
PROPERTY SessionsSettle
