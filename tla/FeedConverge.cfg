SPECIFICATION Spec
CONSTANTS
  Topics = {"entity-changes", "activity"}
  MaxId = 4
  Events <- FeedEvents
  NoEvent = NoEvent
  Relays = {r1}
  BatchSize = 3
  MaxAborts = 0
  Consumers = {c1}
  Nobody = Nobody
  MaxMishaps = 1
  Users = {star, ann, bob}
  Star = star
  Posts = {1, 2}
  Author <- MCAuthor
  CelebThreshold = 1
  BackfillLimit = 1
  MaxDrops = 1
SYMMETRY MCSymmetry
CONSTRAINTS
  OneFault
  FollowTheStar
INVARIANTS
  FeedInv
  FeedIsComplete
CHECK_DEADLOCK FALSE
