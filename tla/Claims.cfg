SPECIFICATION Spec
CONSTANTS
  Jobs = {j1, j2}
  Leases = {l1, l2}
  Workers = {w1, w2}
  NoWorker = NoWorker
  NoLease = NoLease
  NoJob = NoJob
  j1 = j1
  j2 = j2
  l1 = l1
  l2 = l2
  w1 = w1
  w2 = w2
  MaxAttempts = 2
  LateCreation = FALSE
  MaxCrashes = 0
SYMMETRY Symmetry
CONSTRAINT OneJobOrMachine
INVARIANTS
  JobOnOneMachine
  QueuedHasAttempt
  ClaimIsTraceable
PROPERTIES
  TerminalLostOnlyToStaleRow
