\* Stop at any moment, at any speed, with a failing call.
CONSTANTS
  i1 = i1
  w1 = w1
  Ids = {i1}
  Workers = {w1}
  MaxRetries = 1
  Delay = 1
  Punctual = FALSE
  CallTime = 0
  MaxAge = 3
  CanStop = TRUE
  MaxFaults = 1
  MaxCrashes = 0
SPECIFICATION StopSpec
INVARIANTS StopClean NoLoss
PROPERTIES VerdictStands StopTerminates WorkersLeave
