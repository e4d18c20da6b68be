SPECIFICATION Spec
CONSTANTS
  Address <- MCAddress
  NullAddress = "null"
  Tx = {"costly", "create", "callBig", "prefund", "reward"}
  From <- MCFrom
  To <- MCTo
  Amount <- MCAmount
  Fee <- MCFee
  HasData <- MCHasData
  ContractAddress <- MCContractAddress
  Coinbase = {"miner"}
  GenesisAccount = "genesis"
  GenesisAmount = 10
  EmissionValue = 4
  VmStatuses = {"SUCCESS", "REVERT", "FAILURE"}
  MaxBlocks = 2
  MaxTxInBlock = 2
  MaxHostCalls = 1
  MaxRestarts = 1
CHECK_DEADLOCK FALSE
INVARIANTS TypeOK SupplyIsExact NonceCountsTransactions OneSpendIsCovered
PROPERTY FailureIsIsolated
