SPECIFICATION Spec
CONSTANTS
  o1 = o1
  o2 = o2
  NoRow = NoRow
  None = None
  SparkHash <- MCHash
  Mint = {"m"}
  Inputs <- MCInputs
  Outputs <- MCOutputs
  OperatorsOf <- MCOperatorsOf
  Operator <- MCOperators
  Unsigned = {}
  Exit <- MCExit
  SPARK_THRESHOLD = 2
  MaxAmount = 3
  validate_announcement = TRUE
  Announced = {"tok"}
  ForgedMints = {}
  ExitLeaves <- MCExitLeaves
  enforce_announcement = TRUE
  MaxSupply <- MCMaxSupply
  Freezable = {"tok"}
  HashOrder <- MCHashOrder
  PeerCreated <- MCPeer
  max_inv_size = 2
  FreezeRequests <- MCFreeze
  FirstFinal = {{}, {"m"}}
  MaxEvents = 1
  MaxQueue = 1
  MaxCalls = 3
SYMMETRY Operators
INVARIANTS FinalIsBacked NobodyWaits RpcReliable
PROPERTY BackOnlyWhenRespent
CHECK_DEADLOCK FALSE
