CONSTANTS
  METADATA_MAX_SIZE = 2
  AmountBits = 2
  Q = 17
  RANGE_PROOF_SIZE = 4
SPECIFICATION Spec
INVARIANTS RoundTrips OutputBindsReceipt ChecksExact BuiltAccepted RangeProofComplete PolicyHonoured FundsAccounted CosignersAgree SchemaByLevel
