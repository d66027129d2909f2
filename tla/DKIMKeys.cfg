SPECIFICATION Spec
CONSTANTS
  None = None
  Workers = {w1, w2}
  Generators = {g1, g2}
  Selectors = {s1}
  Keys = {k1, k2}
  DomainIDs = {d1, d2}
  MaxFaults = 1
SYMMETRY Symmetry
INVARIANTS
  KeyLostOnlyIfExposed
  TablesAreUsable
