SPECIFICATION SeededSpec
CONSTANTS
  e1 = e1
  e2 = e2
  e3 = e3
  Engineer <- MCEngineer
  Link <- MCLink
  Candidate = candidate
  MaxShared = 1
  Draw = {0, 2}
  MaxSimulated = 3
  Iterations = 2
  Unit = 360
INVARIANT SeedsMatter
CHECK_DEADLOCK FALSE
