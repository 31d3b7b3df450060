SPECIFICATION Spec
CONSTANTS
  a = a
  b = b
  Clients <- TwoClients
  Creator = a
  Ops <- EditOps
  MaxVersion = 1
  MaxPast = 1
  MaxAttempts = 2
  Streaming = FALSE
  FaultKinds = {}
  MaxFaults = 0
  Quota <- OneAndTwo
INVARIANTS
  NoFork
  NoLostUpdate
  ReportsAreTrue
  PublishedIsReadable
