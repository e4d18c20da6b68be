SPECIFICATION FairSpec
CONSTANTS
  Tx = {"t1", "t2"}
  From <- MCFrom
  To <- MCTo
  Amount <- MCAmount
  Fee <- MCFee
  InitialBalance <- MCInitialBalance
  CoinbaseOf <- MCCoinbaseOf
  EmissionValue = 5
  Client = {c1, c2}
  MaxTxInBlock = 3
  ForeignLists <- MCForeignLists
  MaxSubmissions = 2
  MaxForeignBlocks = 1
CHECK_DEADLOCK FALSE
INVARIANTS TypeOK AcceptedIsKept BalancesFollowChain
PROPERTY SubmissionsAreAnswered
