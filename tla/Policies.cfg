SPECIFICATION Spec
CONSTANTS
  Clients = {c1, c2}
  Senders = {a1}
  Limit = 2
  Window = 2
  MaxFailures = 1
  Accounts = {"e1", "e2"}
  NoTarget = NoTarget
  Editors = {e1, e2}
  Policies = {p1}
  NoPolicy = NoPolicy
  Initial = Initial
  Fallback = Fallback
  MaxDomainIds = 2
  MaxReadErrors = 1
  Mails = {m1, m2}
  Reconcilers = {s1, s2}
  Backups = {s3}
  MaxChanges = 2
  MaxScanErrors = 1
  DomainRows = {1}
  NoOne = NoOne
  Creates = {b1, b2}
  MaxEdits = 3
  MaxCrashes = 1
SYMMETRY Symmetry
INVARIANTS
  TypeOK
  LimitIsExact
  PoliciesAreKept
  AccountingHolds
  ArchivesAreSound
  InboundHolds
  
