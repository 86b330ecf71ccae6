SPECIFICATION Spec
CONSTANTS
  Requests = {q1, q2}
  Ids = {s1}
  NoId = NoId
  Passwords = {p1, p2}
  First = p1
  MaxSessions = 1
  HalfTTL = 2
  AbsoluteTTL = 4
SYMMETRY MCSymmetry
INVARIANT
  LatestChangeStands
CHECK_DEADLOCK FALSE
