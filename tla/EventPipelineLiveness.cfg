SPECIFICATION FairSpec
CONSTANTS
  Topics = {activity}
  MaxId = 2
  Events <- MCEvents
  NoEvent = NoEvent
  Relays = {r1, r2}
  BatchSize = 2
  MaxAborts = 1
  Consumers = {c1, c2}
  Nobody = Nobody
  MaxMishaps = 1
PROPERTIES
  EventuallyHandled
  EventuallyPublished
CHECK_DEADLOCK FALSE
