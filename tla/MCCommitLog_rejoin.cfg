SPECIFICATION Spec
CONSTANTS
  a = a
  b = b
  None = None
  Inst <- Pair
  Creator = a
  Admins <- JustA
  Recovery = FALSE
  OtherGroups = TRUE
  Page = 2
  Committers <- Pair
  Targets <- Pair
  MaxProposed = 4
  MaxCommits = 4
  MaxLog = 4
  MaxGlitches = 0
  MaxFaults = 0
INVARIANTS NoFalseAlarm CleanIsClean
CHECK_DEADLOCK FALSE
