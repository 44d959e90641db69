CONSTANTS
  p1 = p1
  p2 = p2
  Callers = {p1, p2}
  Names = {"default"}
  MaxRetries = 2
  PageSize = 2
  MaxOpen = 1
  FirstRows = 2
  MaxConns = 3
  MaxRows = 3
SPECIFICATION Spec
SYMMETRY CallerSymmetry
INVARIANTS NoLeak WalkComplete WalkCounts
PROPERTY NeverReplaced
