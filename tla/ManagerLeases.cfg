\* One task, two workers: takeovers, a failing call, a crash, retries, at any speed.
CONSTANTS
  i1 = i1
  w1 = w1
  w2 = w2
  Ids = {i1}
  Workers = {w1, w2}
  MaxRetries = 1
  Delay = 1
  Punctual = FALSE
  CallTime = 0
  MaxAge = 3
  CanStop = FALSE
  MaxFaults = 1
  MaxCrashes = 1
SPECIFICATION Spec
INVARIANTS TypeOK LeaseCovered NoLoss
PROPERTY VerdictStands
SYMMETRY WorkerSymmetry
