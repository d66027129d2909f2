SPECIFICATION Spec
CONSTANTS
  None = None
  Workers = {w1}
  Mailboxes = {mb1}
  MsgIDs = {m1, m2}
  Contents = {c1}
  MaxFaults = 0
  Resend = TRUE
  OnlineGC = FALSE
  LostReply = FALSE
INVARIANT
  NoDanglingMetadata
