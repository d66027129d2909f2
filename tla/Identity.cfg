SPECIFICATION Spec
CONSTANTS
  None = None
  e1 = e1
  u1 = u1
  n1 = n1
  n2 = n2
  p1 = p1
  p2 = p2
  Workers = {w1}
  Emails = {e1}
  Uids = {u1}
  Names = {n1, n2}
  Versions <- TwoClaims
  Passwords = {p1, p2}
  IDs = {i1, i2}
  DefaultProvider = "ldap"
  Registered = {e1}
  Administrators = {}
  MaxFaults = 1
INVARIANTS
  TypeOK
  SessionsAreJustified
PROPERTIES
  SyncStaysInBounds
  SyncCatchesUp
