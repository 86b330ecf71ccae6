SPECIFICATION FairSpec
CONSTANTS
  Relay = relay
  Consumers = {notifications}
  StaleAfter = 5
  ErrorWindow = 2
  FetchTimeout = 2
  CommitTimeout = 1
  ProduceTimeout = 1
  Never = Never
INVARIANTS
  MonitorInv
  LostPipelineShows
PROPERTIES
  RecoversReady
  BrokenBrokerShows
