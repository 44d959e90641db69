\* Two clients, three lock values, an expiry of two ticks, a repeated script.
CONSTANTS
  c1 = c1
  c2 = c2
  Clients = {c1, c2}
  NoClient = NoClient
  Expire = 2
  MaxAcq = 3
  MaxDups = 1
SPECIFICATION Spec
SYMMETRY ClientSymmetry
INVARIANT MutualExclusion
PROPERTY NoRevival
