SPECIFICATION Spec
CONSTANTS
  Jobs = {j1}
  Leases = {l1, l2}
  Workers = {w1}
  NoWorker = NoWorker
  NoLease = NoLease
  NoJob = NoJob
  j1 = j1
  l1 = l1
  l2 = l2
  w1 = w1
  MaxAttempts = 1
  LateCreation = FALSE
  MaxCrashes = 1
SYMMETRY Symmetry
INVARIANTS
  TypeOK
  OneRental
  LiveMeansOpen
  BoundClosedMeansGone
PROPERTIES
  AuthorityNeverReturns
