SPECIFICATION Spec
CONSTANTS
  Ids = {i1, i2}
  Contents = {c1, c2}
  Lease = 2
  DedupWindow = 1
  Retention = 1
  Delays = {1}
  MaxCount = 2
  PromoteBatch = 1
  PruneBatch = 1
  ScanLimit = 1
  LateRuns = FALSE
  MaxClock = 2
  MaxToken = 2
  MaxLost = 1
SYMMETRY Symmetry
INVARIANTS
  TypeOK
  HomesConsistent
  HolderIsLatestClaim
  LiveReachable
  NoSilentLoss
PROPERTIES
  NoEarlyTakeover
  OnlyHolderSettles
  FailedRetained
  DedupHonoured
  ImplementsReliableQueue
