SPECIFICATION Spec
CONSTANTS
  s1 = s1
  s2 = s2
  s3 = s3
  g1 = g1
  g2 = g2
  ck = ck
  Games = {g1, g2}
  Sessions = {s1, s2, s3}
  Cookies = {ck}
  Heartbeats <- MCHeartbeats
  Peers <- MCPeers
  MaxNatnegEntries = 2
SYMMETRY Symmetry
INVARIANTS
  TypeOK
  IndexExact
  NatnegBounded
  LocalLookupPrecedence
  FoundAtOwnEndpoint
PROPERTIES
  KeepsRegistrationOrder
  ImplementsRoomRegistry
