SPECIFICATION FairSpec
CONSTANTS
  Jobs = {j1}
  Leases = {l1}
  Workers = {w1}
  NoWorker = NoWorker
  NoLease = NoLease
  NoJob = NoJob
  j1 = j1
  l1 = l1
  w1 = w1
  MaxAttempts = 1
  LateCreation = TRUE
  MaxCrashes = 1
PROPERTIES
  BoundLeaseCloses
  HardLimitCloses
  ImplementsBilling
