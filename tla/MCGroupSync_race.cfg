SPECIFICATION Spec
CONSTANTS
  a = a
  b = b
  Clients <- TwoClients
  Creator = a
  Ops <- RaceOps
  MaxVersion = 1
  MaxPast = 1
  MaxAttempts = 2
  Streaming = TRUE
  FaultKinds = {"send", "dup", "retry", "crash", "welcome"}
  MaxFaults = 1
  Quota <- OneEach
INVARIANTS
  TypeOK IInv StateMatchesCursor WelcomeOfEveryAdd NoForkEvidence
PROPERTIES
  TerminalStays IsLedger
