SPECIFICATION Spec
CONSTANTS
  None = None
  Workers = {w1, w2}
  Mailboxes = {mb1, mb2}
  MsgIDs = {m1, m2, m3}
  Contents = {c1, c2, c3}
  MaxFaults = 1
  Resend = FALSE
  OnlineGC = FALSE
  LostReply = FALSE
SYMMETRY Symmetry
INVARIANTS
  NoDanglingMetadata
  ReadMissOnlyAfterDelete
PROPERTIES
  GCDeletesOnlyOrphans
  ImplementsArchive
