SPECIFICATION Spec
CONSTANTS
  r1 = r1
  r2 = r2
  r3 = r3
  i1 = i1
  i2 = i2
  Request <- MCRequest
  Id <- MCId
  Key = {"url"}
  Result = {"result"}
  Nothing = Nothing
  MaxTime = 2
  MaxFaults = 1
  Permits = 2
  Limit = 2
  CacheTTL = 1
  ProfileTTL = 2
  ResultTTL = 1
  ReportTTL = 2
SYMMETRY Symmetric
INVARIANTS
  TypeOK
  CallsPerKey
  AnswerIsFound
  StoredIsIndexed
  ListIsComplete
  TokenReadable
  DeleteOnlyTemporary
CHECK_DEADLOCK FALSE
