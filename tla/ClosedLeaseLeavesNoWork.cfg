SPECIFICATION Spec
CONSTANTS
  Jobs = {j1}
  Leases = {l1}
  Workers = {w1}
  NoWorker = NoWorker
  NoLease = NoLease
  NoJob = NoJob
  j1 = j1
  l1 = l1
  w1 = w1
  MaxAttempts = 1
  LateCreation = FALSE
  MaxCrashes = 0
INVARIANTS
  ClosedLeaseLeavesNoWork
