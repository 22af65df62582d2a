CONSTANTS
  t1 = t1
  t2 = t2
  Txid = {t1}
  Tx = {t1}
  TxidOf <- SameId
  Kind <- AllTransfers
  NoRow = NoRow
  Block <- ForkBlocks
  Genesis = "g"
  NoBlock = "none"
  Parent <- ForkParent
  Height <- ForkHeight
  Branch <- ForkBranch
  BlockTxs <- ForkTxs
  FirstTip = {"a1"}
  confirmations_number = 3
  lrc20_genesis_height = 3
  starting_block_height <- Unset
  force_reindex = FALSE
  MaxFaults = 0
  FaultKinds = {}
  TxsExpire = FALSE
SPECIFICATION Spec
PROPERTIES
  StopsOnlyForUnknownFork
