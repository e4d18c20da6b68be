SPECIFICATION Spec
CONSTANTS
  Tx = {"t2"}
  From <- MCFrom
  To <- MCTo
  Amount <- MCAmount
  Fee <- MCFee
  InitialBalance <- MCInitialBalance
  CoinbaseOf <- MCCoinbaseOf
  EmissionValue = 5
  Client = {c1, c2}
  MaxTxInBlock = 1
  ForeignLists = {}
  MaxSubmissions = 2
  MaxForeignBlocks = 0
CHECK_DEADLOCK FALSE
INVARIANT TransferHappensOnce
