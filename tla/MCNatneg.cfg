SPECIFICATION Spec
CONSTANTS
  host = host
  guest = guest
  mkw = mkw
  ck = ck
  a1 = a1
  a2 = a2
  a3 = a3
  Nil = Nil
  Blank = Blank
  Arrays = {a1, a2, a3}
  Games = {mkw}
  Game = mkw
  Ids = {ck}
  Players = {host, guest}
  Sessions = {host, guest}
  Heartbeats <- MCHeartbeats
  SameIP <- MCSameIP
  Addr <- MCAddr
  Local <- MCLocal
  Reg <- MCReg
  Hosts = {host, guest}
  Seeded = {host, guest}
  Lossy = TRUE
  Prompt = FALSE
  MaxMail = 1
  TTL = 1
INVARIANTS
  TypeOK
  ConnectPointsAtPeer
