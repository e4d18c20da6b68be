SPECIFICATION Spec
CONSTANTS
  Address <- MCAddress
  NullAddress = "null"
  Tx = {"pay", "reward"}
  From <- MCFrom
  To <- MCTo
  Amount <- MCAmount
  Fee <- MCFee
  HasData <- MCHasData
  ContractAddress <- MCContractAddress
  Coinbase = {"miner"}
  GenesisAccount = "genesis"
  GenesisAmount = 10
  EmissionValue = 3
  VmStatuses = {"SUCCESS"}
  MaxBlocks = 2
  MaxTxInBlock = 1
  MaxHostCalls = 0
  MaxRestarts = 1
CHECK_DEADLOCK FALSE
INVARIANT ReplayNeverOverdraws
