SPECIFICATION Spec
CONSTANTS
  Ids = {i1, i2, i3}
  Contents = {c1}
  Lease = 1
  DedupWindow = 1
  Retention = 1
  Capacity = 2
  Delays <- RetryDelays
  MaxClock = 2
  MaxToken = 3
SYMMETRY IdSymmetry
INVARIANT ReadyExact
PROPERTIES
  ImplementsReliableQueue
