SPECIFICATION Spec
CONSTANTS
  t1 = t1
  t2 = t2
  Topics <- OneTopic
  Floors = {0, 1}
  ChunkCap = 2
  WithheldCap = 1
  Backlog = FALSE
  Yank = TRUE
  Trail = TRUE
  MaxLeases = 2
  MaxLog <- Upto2
  MaxDeaths = 1
  MaxWedged = 1
  MaxResumes = 1
INVARIANTS
  ExactlyOnceInOrder
  ResumeMeansCaughtUp
  NobodyStranded
CHECK_DEADLOCK FALSE
