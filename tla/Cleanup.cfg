SPECIFICATION Spec
CONSTANTS
  a = a
  b = b
  c = c
  i = i
  n = n
  s = s
  Tx = {a, b, c, i, n, s}
  Txid = {a, b, c, n, s}
  TxidOf <- SharedId
  Kind <- ExitKinds
  Parents <- MixedParents
  EmptyParents <- MixedEmpty
  Sound = {a, b, c, n, s}
  Permitted = {a, b, c}
  FromPeer = {}
  NoRow = NoRow
  confirmations_number = 1
  MaxSubmits = 4
  MaxFaults = 1
  FaultKinds = {"cleanup", "torn"}
CHECK_DEADLOCK FALSE
INVARIANTS WaitersKnown OnlyCheckedAttached
