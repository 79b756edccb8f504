SPECIFICATION Spec
CONSTANTS
  c1 = c1
  c2 = c2
  k1 = k1
  k2 = k2
  g0 = g0
  t1 = t1
  t2 = t2
  x1 = x1
  x2 = x2
  n1 = n1
  None = None
  Consoles = {c1, c2}
  Gsbrcds = {c1, c2, g0}
  License <- MCLicense
  Banned = {}
  Conns = {k1, k2}
  Userids = {2, 3, 4, 5}
  Names = {n1}
  Tokens = {t1, t2}
  Keys = {x1, x2}
  Starts <- MCStarts
  Failing = {"sessions"}
SYMMETRY Symmetry
INVARIANTS
  TypeOK
  UsersDistinct
  LoginsAndSessionsDistinct
  ToldProfileStays
PROPERTIES
  SessionEndsForCause
