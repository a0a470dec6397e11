SPECIFICATION CachesSpec
CONSTANTS
  Volumes = {v1, v2}
  Own = {v1}
  Requests = {q1, q2}
  v1 = v1
  v2 = v2
  q1 = q1
  q2 = q2
  r1 = r1
  NoVolume = NoVolume
  Free = Free
  Budget = 1
  MaxLosses = 1
  Manifests = {m1, m2, m3}
  Canary = m3
  Digests = {d1, d2}
  Poison = d2
  m1 = m1
  m2 = m2
  m3 = m3
  d1 = d1
  d2 = d2
  Holds <- MCHolds
  Older <- MCOlder
  Readers = {r1}
  MaxCorruptions = 1
  MaxReports = 2
SYMMETRY Symmetry
INVARIANTS
  NoOwnVolumeDeleted
  NoReportedDigestIsCovered
  ListedIsProjected
PROPERTIES
  DetachKeepsNewChoice
