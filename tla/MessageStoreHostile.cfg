SPECIFICATION FairExposureSpec
CONSTANTS
  None = None
  Workers = {w1, w2}
  Mailboxes = {mb1}
  MsgIDs = {m1, m2}
  Contents = {c1, c2}
  MaxFaults = 1
  Resend = TRUE
  OnlineGC = TRUE
  LostReply = TRUE
INVARIANTS
  LostOnlyIfExposed
PROPERTIES
  OrphansCollected
