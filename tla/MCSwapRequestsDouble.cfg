SPECIFICATION Spec
CONSTANTS
  Request = {s1, p1, p2}
  Planner = {p1, p2}
  Employee = {e1, e2}
  NULL = NULL
  Bilateral = FALSE
  Disturbance = {}
  MaxSwaps = 1
SYMMETRY Symmetry
INVARIANT NoDoubleApply
CHECK_DEADLOCK FALSE
