SPECIFICATION MCSpec
CONSTANTS
    j1 = j1  j2 = j2  p1 = p1  p2 = p2  d1 = d1  d2 = d2  s1 = s1  s2 = s2
    Jobs = {j1, j2}
    Leases = {l1, l2}
    Workers = {w}
    NoWorker = NoWorker
    MaxAttempts = 2
    Me = w
    NoJob = NoJob
    Leased = TRUE
    Packs = {p1, p2}
    GitPacks = {p1}
    Pinned = {s1}
    Snapshot = {s2, d1}
    Digests = {d1, d2, s1, s2}
    Declares <- MCDeclares
    Uncached = {d2}
    Env = Env  NoEnv = NoEnv
    None = None  Torn = Torn
    Placed <- MCPlaced
    Foreign <- MCForeign
    MaxAccidents = 2
    Full = 2
    NoLease = NoLease
    PageSize = 2
    MaxCalls = 1
    MaxEvents = 2
    MaxFaults = 1
    MaxSnapshots = 2
    MaxLeases = 2
    MaxEntries = 8
CHECK_DEADLOCK FALSE
INVARIANTS JournalFollowsRow AnsweredOnce ResumedClientIsCurrent
PROPERTIES ShownProgressNeverFalls
INVARIANTS AssetsAreDeclared StagedIsPublished GitPackIsWhole PlacementIsAuthoritative
