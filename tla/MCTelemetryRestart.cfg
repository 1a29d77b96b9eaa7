SPECIFICATION Spec
CONSTANTS
  Topic <- MCTopic
  Event <- MCEvent
  TopicOf <- MCTopicOf
  Engineer <- MCEngineer
  PairOf <- MCPairOf
  Registered <- MCRegistered
  Malformed <- MCMalformed
  Unresolved <- MCUnresolved
  MaxFaults = 1
  MaxDeaths = 0
PROPERTIES RestartedOnFailure
CHECK_DEADLOCK FALSE
