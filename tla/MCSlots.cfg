SPECIFICATION Spec
CONSTANTS
  A = A
  B = B
  Slot <- MCSlot
  Team <- MCTeam
  FirstTeam = "core"
  NoTeam = "none"
  HistoryLimit = 1
  MaxCandidates = 2
  MaxStreams = 2
  MaxLoads = 2
INVARIANTS
  TypeOK
  SlotOwnsItsStream
  PageShowsOneTeam
  HistoryIsFaithful
PROPERTIES
  NothingHangs
CHECK_DEADLOCK FALSE
