SPECIFICATION Spec
CONSTANTS
  None = None
  Workers = {w1, w2}
  Domains = {d1}
  Emails = {e1, e2}
  DomainOf <- OneDomain
  DomainIDs = {g1}
  IDs = {i1, i2, i3}
  MaxFaults = 1
  Exclusive = TRUE
  DropDomains = FALSE
  IgnoredErrors = FALSE
SYMMETRY Symmetry
INVARIANTS
  ReadyHasMaildir
  NoInheritedMail
  DeletedLeavesNothing
PROPERTIES
  DeletesWhatItRead
CHECK_DEADLOCK FALSE
