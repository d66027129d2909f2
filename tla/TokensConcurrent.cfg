SPECIFICATION Spec
CONSTANTS
  None = None
  Workers = {w1, w2}
  Users = {u1}
  Tokens = {t1, t2, t3, t4, t5}
  MaxFaults = 1
  RevokeMayFail = TRUE
SYMMETRY Symmetry
INVARIANTS
  ExchangedIsRevoked
  ForksOnlyByRace
  NoRevival
CHECK_DEADLOCK FALSE
