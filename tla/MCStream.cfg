SPECIFICATION Spec
CONSTANTS
  Request <- MCRequest
  Blocks <- MCBlocks
  PoolSize = 1
INVARIANTS
  TypeOK
  DeliveredIsCached
PROPERTIES
  ImplementsStream
  EveryRunEnds
CHECK_DEADLOCK FALSE
