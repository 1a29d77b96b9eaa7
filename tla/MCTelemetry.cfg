SPECIFICATION Spec
CONSTANTS
  Topic <- MCTopic
  Event <- MCEvent
  TopicOf <- MCTopicOf
  Engineer <- MCEngineer
  PairOf <- MCPairOf
  Registered <- MCRegistered
  Malformed <- MCMalformed
  Unresolved <- MCUnresolved
  MaxFaults = 2
  MaxDeaths = 1
INVARIANTS TypeOK NoSilentLoss WeightWithinReplays DlqInOrder
PROPERTIES CommitAdvancesByOne ImplementsLedger EverySettled
\* Every event published and every bound reached, the consumers wait for good.
CHECK_DEADLOCK FALSE
