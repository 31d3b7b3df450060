SPECIFICATION Spec
CONSTANTS
  p = p
  Mls = Mls
  Origs <- OneOrig
  Page = 9
  Monotone = TRUE
  MaxCommits = 2
  MaxMessages = 2
  MaxTime = 3
  MaxStreams = 1
  MaxSyncs = 2
  MaxRounds = 1
INVARIANTS NothingSkipped InCausalOrder StreamCausal StreamComplete
CHECK_DEADLOCK FALSE
