SPECIFICATION Spec
CONSTANTS
  A = A
  B = B
  Slot <- MCSlot
  Team <- MCTeam
  FirstTeam = "core"
  NoTeam = "none"
  HistoryLimit = 1
  MaxCandidates = 2
  MaxStreams = 1
  MaxLoads = 1
INVARIANT SlotShowsOwnResult
CHECK_DEADLOCK FALSE
