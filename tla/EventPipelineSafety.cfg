SPECIFICATION PipelineSpec
CONSTANTS
  Topics = {entityChanges, activity}
  MaxId = 2
  Events <- MCEvents
  NoEvent = NoEvent
  Relays = {r1, r2}
  BatchSize = 2
  MaxAborts = 1
  Consumers = {c1, c2}
  Nobody = Nobody
  MaxMishaps = 2
SYMMETRY MCSymmetry
INVARIANTS
  IInv
  NoEventLost
  DuplicatesArePaid
  CommittedMeansHandled
  ReplayOnlyAfterMishap
PROPERTIES
  KeepsPromise
CHECK_DEADLOCK FALSE
