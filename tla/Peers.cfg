CONSTANTS
  a1 = a1
  a2 = a2
  ownAddr = ownAddr
  h = h
  aNonce = aNonce
  Addr <- MCAddr
  Ip <- MCIp
  AddrKey <- MCIp
  MAX_RANGE_SIZE = 1
  Host = {h}
  Resolves <- MCResolves
  Nonce = {aNonce}
  NoHost = NoHost
  NoNonce = NoNonce
  max_inbound_peers = 2
  target_outbound_peers = 1
  Own = {ownAddr}
  VersionMsg <- MCVersionMsg
  Gossip = {a2}
  Command <- MCCommand
  MaxOutbox = 2
SPECIFICATION Spec
INVARIANTS ManagersAgree BookBounded InboundBounded
PROPERTY BansLast
CHECK_DEADLOCK FALSE
