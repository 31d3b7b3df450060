SPECIFICATION Spec
CONSTANTS
  a = a
  b = b
  None = None
  Inst <- Pair
  Creator = a
  Admins <- Pair
  Recovery = TRUE
  OtherGroups = FALSE
  Page = 2
  Committers <- Pair
  Targets <- Nobody
  MaxProposed = 2
  MaxCommits = 5
  MaxLog = 4
  MaxGlitches = 1
  MaxFaults = 1
INVARIANTS
  ConsensusAgrees
  UploadCursorHonest
  AnsweredOnce
  DivergenceNoticed
CHECK_DEADLOCK FALSE
