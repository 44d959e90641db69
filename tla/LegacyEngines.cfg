\* Two callers, three entries, batches of two, half-second ticks.
CONSTANTS
  c1 = c1
  c2 = c2
  a = a
  b = b
  Payloads = {a, b}
  Callers = {c1, c2}
  Capacity = 1
  Counts = {1, 2}
  PerSecond = 2
  Delays = {2}
  MaxNow = 2
  MaxPut = 3
  MaxFaults = 1
SPECIFICATION Spec
SYMMETRY Symmetry
INVARIANTS Accounted GivenOnce
PROPERTY NotEarly
