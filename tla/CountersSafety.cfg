SPECIFICATION Spec
CONSTANTS
  Requests = {q1, q2}
  X1 = x1
  X2 = x2
  X3 = x3
  U1 = u1
  U2 = u2
  T1 = t1
  T2 = t2
  Users = {u1, u2}
  Posts = {x1, x2, x3}
  Tags = {t1, t2}
  Author <- MCAuthor
  TagsOf <- MCTagsOf
  Likes = {l1, l2}
  Comments = {c1}
  On <- MCOn
  Followers = {f1, f2}
  Threshold = 1
  Nothing = Nothing
SYMMETRY MCSymmetry
INVARIANTS
  CountersInv
  CountLatches
  KnownDeadlocks
