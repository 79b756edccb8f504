SPECIFICATION FairSpec
CONSTANTS
  s1 = s1
  mkw = mkw
  other = other
  d1 = d1
  None = None
  Blank = Blank
  Games = {mkw, Blank}
  KnownGames = {mkw}
  Sessions = {s1}
  Data = {d1}
  Timeout = 2
PROPERTIES
  SilentRoomsGo
