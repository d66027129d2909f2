SPECIFICATION Spec
CONSTANTS
  None = None
  Workers = {w1, w2}
  Domains = {d1}
  Emails = {e1}
  DomainOf <- OneDomain
  DomainIDs = {g1, g2}
  IDs = {i1, i2}
  MaxFaults = 1
  Exclusive = FALSE
  DropDomains = TRUE
  IgnoredErrors = TRUE
SYMMETRY Symmetry
INVARIANTS
  RowsAreSound
  LdapManagesWhatSyncMade
CHECK_DEADLOCK FALSE
