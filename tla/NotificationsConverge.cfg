SPECIFICATION Spec
CONSTANTS
  Topics = {"entity-changes", "activity"}
  MaxId = 3
  Events <- NotificationEvents
  NoEvent = NoEvent
  Relays = {r1}
  BatchSize = 2
  MaxAborts = 1
  Consumers = {c1}
  Nobody = Nobody
  MaxMishaps = 1
  Users = {owner, fan}
  Owner = owner
  Posts = {p1}
  Author <- MCAuthor
  Comments = {k1}
  Workload = {"like", "unlike", "comment", "uncomment", "follow", "unfollow", "delete", "read"}
  MaxDrops = 1
CONSTRAINT OneFault
INVARIANTS
  NotificationsInv
  Converged
PROPERTIES
  ReadStaysRead
CHECK_DEADLOCK FALSE
