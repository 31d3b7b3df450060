SPECIFICATION Spec
CONSTANTS
  a = a
  b = b
  Clients <- TwoClients
  Creator = a
  Ops <- RaceOps
  MaxVersion = 1
  MaxPast = 1
  MaxAttempts = 2
  Streaming = FALSE
  FaultKinds = {"dup", "ack"}
  MaxFaults = 2
  Quota <- OneEach
INVARIANTS
  NoFork
