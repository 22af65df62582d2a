CONSTANTS
  t1 = t1
  t2 = t2
  Txid = {t1}
  Tx = {t1}
  TxidOf <- SameId
  Kind <- AllTransfers
  NoRow = NoRow
  Block <- ForkBlocks
  Genesis = "g"
  NoBlock = "none"
  Parent <- ForkParent
  Height <- ForkHeight
  Branch <- ForkBranch
  BlockTxs <- ForkTxs
  FirstTip = {"g"}
  confirmations_number = 3
  lrc20_genesis_height = 1
  starting_block_height <- Unset
  force_reindex = FALSE
  MaxFaults = 1
  FaultKinds = {"crash", "rpc", "retry", "load", "store"}
  TxsExpire = TRUE
SPECIFICATION FairSpec
INVARIANTS
  IndexerContinuesWindow
  WindowIsBranch
  OnlyBuriedTxsConfirmed
  NoEntryForgotten
PROPERTIES
  StatusesInOrder
  DeepTxEventuallyChecked
