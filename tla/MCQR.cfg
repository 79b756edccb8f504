SPECIFICATION FairSpec
CONSTANTS
  s1 = s1
  mkw = mkw
  other = other
  d1 = d1
  None = None
  Blank = Blank
  Games = {mkw, other, Blank}
  KnownGames = {mkw, other}
  Sessions = {s1}
  Data = {d1}
  Timeout = 2
INVARIANTS
  TypeOK
  RejectedIsDelisted
PROPERTIES
  RoomsKeepOwners
  NoUnchallengedRegistration
  RoomsExpire
