SPECIFICATION Spec
CONSTANTS
  Requests = {q1, q2}
  X1 = x1
  X2 = x2
  X3 = x3
  U1 = u1
  U2 = u2
  T1 = t1
  T2 = t2
  Users = {u1, u2}
  Posts = {x1, x2, x3}
  Tags = {t1, t2}
  Author <- MCAuthor
  TagsOf <- MCTagsOf
  Likes = {}
  Comments = {}
  On <- MCOn
  Followers = {}
  Threshold = 1
  Nothing = Nothing
SYMMETRY MCSymmetry
INVARIANT
  HashtagCountsMaintained
