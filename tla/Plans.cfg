SPECIFICATION Spec
CONSTANTS
  Jobs = {j1, j2}
  Plans = {p1, p2}
  Terms = {t1, t2}
  Keys = {k1, k2}
  Workers = {w1}
  Leases = {}
  j1 = j1
  j2 = j2
  p1 = p1
  p2 = p2
  t1 = t1
  t2 = t2
  k1 = k1
  k2 = k2
  w1 = w1
  NoWorker = NoWorker
  NoPlan = NoPlan
  NoJob = NoJob
  NoTerms = NoTerms
  NoKey = NoKey
  MaxAttempts = 2
  MaxQuotes = 2
SYMMETRY Symmetry
INVARIANTS
  OneJobPerPlan
  SameKeySameJob
  ClosureAgreesWithJob
PROPERTIES
  ImplementsContract
