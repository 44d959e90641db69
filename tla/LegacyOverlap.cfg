\* Two callers whose PopDelayed overlap.
CONSTANTS
  c1 = c1
  c2 = c2
  a = a
  b = b
  Payloads = {a, b}
  Callers = {c1, c2}
  Capacity = 1
  Counts = {1, 2}
  PerSecond = 2
  Delays = {2}
  MaxNow = 2
  MaxPut = 2
  MaxFaults = 0
SPECIFICATION Spec
SYMMETRY Symmetry
INVARIANT GivenToOneCaller
