SPECIFICATION FairSpec
CONSTANTS
  a = a
  b = b
  Clients <- TwoClients
  Creator = a
  Ops <- LiveOps
  MaxVersion = 2
  MaxPast = 1
  MaxAttempts = 2
  Streaming = FALSE
  FaultKinds = {"publish", "query"}
  MaxFaults = 1
  Quota <- OneEach
INVARIANTS
  RunsSupportedVersion
PROPERTIES
  IntentsResolve
  Converges
