SPECIFICATION FairSpec
CONSTANTS
  None = None
  Workers = {w1, w2}
  Domains = {d1}
  Emails = {e1}
  DomainOf <- OneDomain
  DomainIDs = {g1}
  IDs = {i1}
  MaxFaults = 1
  Exclusive = FALSE
  DropDomains = TRUE
  IgnoredErrors = TRUE
PROPERTIES
  ProvisioningRecovers
CHECK_DEADLOCK FALSE
