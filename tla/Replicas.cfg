SPECIFICATION Spec
CONSTANTS
  Regions = {r1, r2}
  Profiles = {p1}
  Requests = {q1, q2}
  r1 = r1
  r2 = r2
  p1 = p1
  q1 = q1
  q2 = q2
  Free = Free
  Automatic = TRUE
  TargetBudget = 1
  TotalBudget = 2
  MaxInflight = 1
  MaxTargets = 2
  MaxCopies = 2
  MaxCrashes = 1
  MaxLosses = 1
SYMMETRY Symmetry
INVARIANTS
  PaidVolumeIsOwned
  SingleFlight
