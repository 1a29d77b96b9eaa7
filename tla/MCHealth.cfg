SPECIFICATION HealthSpec
CONSTANTS
  Topic <- MCTopic
  Event <- MCEvent
  TopicOf <- MCTopicOf
  Engineer <- MCEngineer
  PairOf <- MCPairOf
  Registered <- MCEngineer
  Malformed = {}
  Unresolved = {}
  MaxFaults = 0
  MaxDeaths = 0
  ConsumerGroup <- MCConsumerGroup
  CheckedGroup <- MCCheckedGroup
  LagThreshold = 1
  DlqThreshold = 1
  None = None
INVARIANTS LagIsOfConsumers
CHECK_DEADLOCK FALSE
