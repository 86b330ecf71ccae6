SPECIFICATION Spec
CONSTANTS
  Requests = {q1, q2}
  Ids = {s1, s2, s3}
  NoId = NoId
  Passwords = {p1, p2}
  First = p1
  MaxSessions = 2
  HalfTTL = 2
  AbsoluteTTL = 4
SYMMETRY MCSymmetry
INVARIANTS
  SessionsInv
  TrimmedAreOldest
  OtherSessionsEnd
  UsedStaysLive
  OnlyUpgradeUndoesChange
CHECK_DEADLOCK FALSE
