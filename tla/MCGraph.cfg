SPECIFICATION ConsoleSpec
CONSTANTS
  a = a
  b = b
  r1 = r1
  r2 = r2
  r3 = r3
  SeedOrder <- MCSeedOrder
  SeedEdges <- MCSeedEdges
  Edge <- MCEdge
  Request <- MCRequest
  c1 = c1
  c2 = c2
  Reset <- MCReset
  Button = Button
  Nobody = Nobody
  Threshold = 0
  MaxFaults = 1
  MaxUpserts = 1
  MaxLost = 1
CONSTRAINT OneFailure
SYMMETRY Symmetric
INVARIANTS
  ConsoleTypeOK
  EdgesNameNodes
  SeededInFull
  ScoresAreComplete
  RefusedOnlyByOthers
  ResetEndsSeeded
PROPERTIES
  OnlyAdminForgets
CHECK_DEADLOCK FALSE
