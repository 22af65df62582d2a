CONSTANTS
  i = i
  k = k
  ann = ann
  ann2 = ann2
  iss = iss
  tx = tx
  frz = frz
  unf = unf
  logo = logo
  own = own
  pkf = pkf
  bad = bad
  isa = isa
  Tx = {ann, iss, frz, unf, bad, tx, logo, own, pkf, ann2}
  Txid = {ann, iss, frz, unf, bad, tx, logo, own, pkf, ann2}
  confirmations_number = 1
  TxidOf <- SameId
  Kind <- TokenKinds
  Key = {i, k}
  Body <- TokenBody
  Issuer <- IssuerKey
  MaxAmount = 3
  MaxStored = 3
  MaxCrashes = 1
  NoRow = NoRow
  NoInfo = NoInfo
  NoKey = NoKey
SPECIFICATION Spec
SYMMETRY Freezes
CHECK_DEADLOCK FALSE
INVARIANTS FrozenIsOddFreezes TermsOfIssuer
