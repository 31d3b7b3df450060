SPECIFICATION Spec
CONSTANTS
  t1 = t1
  t2 = t2
  Topics <- TwoTopics
  Floors = {0,1}
  ChunkCap = 1
  WithheldCap = 2
  Backlog = TRUE
  Yank = TRUE
  Trail = TRUE
  MaxLeases = 2
  MaxLog <- FirstUpto2
  MaxDeaths = 0
  MaxWedged = 0
  MaxResumes = 0
INVARIANTS
  ExactlyOnceInOrder
  CaughtUpHasHistory
  SubscriptionsMatch
CHECK_DEADLOCK FALSE
