SPECIFICATION Spec
CONSTANTS
  Node = {"a","b","c"}
  Session <- TwoSources
  Seeds <- MCSeeds
  InitialChains <- TwoSourcesChains
  MaxHeight <- NoMining
  Fragile = {}
CHECK_DEADLOCK FALSE
INVARIANT DownloadDelivers

