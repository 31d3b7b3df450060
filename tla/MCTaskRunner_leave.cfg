CONSTANTS
  l1 = l1  l2 = l2
  Leavers <- TwoLeavers
  Interval = 3
  Debounce = 1
  Grace = 2
  Backoff = 1
  Lifetime = 1
  MaxAttempts = 2
  Overlap = FALSE
  MaxTime = 4
  MaxPackages = 2
  MaxEvents = 2
  MaxFaults = 0
SPECIFICATION Spec
CHECK_DEADLOCK FALSE
INVARIANTS LeaveRemembered
