SPECIFICATION FairSpec
CONSTANTS
  a = a
  b = b
  c = c
  i = i
  n = n
  s = s
  Tx = {a, b, c}
  Txid = {a, b, c}
  TxidOf <- SameId
  Kind <- IssueFirst
  Parents <- Diamond
  EmptyParents <- NoEmpty
  Sound = {a, b, c}
  Permitted = {a, b, c}
  FromPeer = {b}
  NoRow = NoRow
  confirmations_number = 1
  MaxSubmits = 4
  MaxFaults = 1
  FaultKinds = {"crash"}
CHECK_DEADLOCK FALSE
INVARIANTS NobodyLeftBehind MissingParentsRequested AttachingInHand
PROPERTIES FollowsLifecycle AllEventuallyAttached
