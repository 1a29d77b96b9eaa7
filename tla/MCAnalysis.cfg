SPECIFICATION MCSpec
CONSTANTS
 e1 = e1
 e2 = e2
 e3 = e3
 e4 = e4
 r1 = r1
 r2 = r2
 alpha = alpha
 beta = beta
 Engineer <- MCEngineer
 Link <- MCLink
 Candidate = candidate
 MaxShared = 1
 Draw = {0, 2}
 MaxSimulated = 3
 Iterations = 2
 Unit = 10080
 Run <- MCRun
 EdgeCount = {0, 6, 7}
 Keep = 2
 Shift = 15
 MaxTime = 4
 MaxFailed = 1
 NoSnapshot = none
 Team <- MCTeam
 FirstTeam = alpha
 Nobody = nobody
 Size = 2
 MaxLists = 2
 MaxAsked = 2
 Slot <- MCSlot
 MaxOpened = 4
 Bearer = {"b1", "b2"}
 Kid = {"old", "new"}
 KeyTTL = 2
 MaxNow = 2
 MaxRotations = 2
SYMMETRY MCSymmetry
INVARIANTS
 AnalysisTypeOK
 SamplesAgree
 OverlapWithinReach
 RiskMeansTriangle
 LossIsOfCollaborators
 ShiftIsReported
 ResultOfSelection
 RiskIsSelected
 GraphIsOfPage
PROPERTIES
 VerdictsFollowRotation
CHECK_DEADLOCK FALSE
