SPECIFICATION StorageSpec
CONSTANTS
    w1 = w1  w2 = w2  c1 = c1  p1 = p1  p2 = p2  b1 = b1
    Workers = {w1, w2}
    Threads = {c1}
    Profiles = {p1, p2}
    Blobs = {b1}
    Needs <- MCNeeds
    NoOne = NoOne
    MaxGeneration = 2
    MaxAccidents = 1
    PartCount = 4
    Window = 2
    MaxUploads = 2
SYMMETRY Symmetry
CHECK_DEADLOCK FALSE
INVARIANTS TrustedGenerationWasReadWhole MergesWholeParts OwnErrorPropagates
PROPERTIES PublicationsKept ExpiryKeepsSharedObjects
