\* A deletion that counted before the period was published.
SPECIFICATION Spec
CONSTANTS
  Request = {r1, r2}
  MaxSnapshot = 5
  MaxMoves = 6
  MaxEdit = 0
SYMMETRY Symmetry
CHECK_DEADLOCK FALSE
INVARIANT NeverDeletedOncePublished
