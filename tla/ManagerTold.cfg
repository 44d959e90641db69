\* Goroutines on time, calls of up to one interval: how late a lost lease is noticed.
CONSTANTS
  i1 = i1
  w1 = w1
  w2 = w2
  Ids = {i1}
  Workers = {w1, w2}
  MaxRetries = 1
  Delay = 1
  Punctual = TRUE
  CallTime = 1
  MaxAge = 5
  CanStop = FALSE
  MaxFaults = 2
  MaxCrashes = 0
SPECIFICATION Spec
INVARIANT ToldSoon
SYMMETRY WorkerSymmetry
