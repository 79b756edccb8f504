SPECIFICATION Spec
CONSTANTS
  s1 = s1
  s2 = s2
  s3 = s3
  s4 = s4
  g1 = g1
  g2 = g2
  i1 = i1
  i2 = i2
  p1 = p1
  p2 = p2
  c1 = c1
  a1 = a1
  a2 = a2
  a3 = a3
  a4 = a4
  a5 = a5
  Nil = Nil
  Blank = Blank
  Games = {g1, g2}
  Sessions = {s1, s2, s3, s4}
  Heartbeats <- MCHeartbeats
  SameIP <- MCSameIP
  Conns = {c1}
  Dests <- MCDests
  Self <- MCSelf
  Reg <- MCReg
  Hosts <- MCHosts
  Returns = FALSE
  MaxNatnegEntries = 2
  QueueSize = 1
  Arrays = {a1, a2, a3, a4, a5}
INVARIANTS
  TypeOK
  PointersReadRooms
  PointersGoodUntilRemoval
PROPERTIES
  ImplementsBackend
  JoinReachesTarget
  JoinEntersBothEnds
