CONSTANTS
  METADATA_MAX_SIZE = 2
  AmountBits = 2
  Q = 17
  RANGE_PROOF_SIZE = 4
SPECIFICATION Spec
INVARIANT ConvertsBack
