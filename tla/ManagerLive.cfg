\* Accepted tasks under fair and punctual goroutines, with a failing call and a crash.
CONSTANTS
  i1 = i1
  w1 = w1
  w2 = w2
  Ids = {i1}
  Workers = {w1, w2}
  MaxRetries = 1
  Delay = 1
  Punctual = TRUE
  CallTime = 0
  MaxAge = 4
  CanStop = FALSE
  MaxFaults = 3
  MaxCrashes = 1
SPECIFICATION FairSpec
PROPERTY TasksSettle
