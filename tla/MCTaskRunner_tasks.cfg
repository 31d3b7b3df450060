CONSTANTS
  l1 = l1  l2 = l2
  Leavers <- TwoLeavers
  Interval = 3
  Debounce = 1
  Grace = 2
  Backoff = 1
  Lifetime = 1
  MaxAttempts = 2
  Overlap = FALSE
  MaxTime = 3
  MaxPackages = 3
  MaxEvents = 2
  MaxFaults = 1
SPECIFICATION Spec
SYMMETRY AnyLeaver
CHECK_DEADLOCK FALSE
INVARIANTS CurrentPackageUsable WelcomeOpens NoOrphanKeys RotationScheduled DeletionScheduled OwnTaskKept
