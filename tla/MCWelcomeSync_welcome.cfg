CONSTANTS
  g1 = g1
  g2 = g2
  Groups <- TwoGroups
  ReaderSets <- QueriesOrMore
  Mixed = FALSE
  MaxLen <- ThreeAndOne
  MaxQueued = 1
  MaxFaults = 1
SPECIFICATION FairSpec
CHECK_DEADLOCK FALSE
INVARIANTS StateAtCursor NothingLost LeaverAskedAgain
PROPERTIES Joined
