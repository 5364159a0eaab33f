\* Two requests and a retention run, interleaved in every way.
SPECIFICATION Spec
CONSTANTS
  Request = {r1, r2}
  MaxSnapshot = 6
  MaxMoves = 8
  MaxEdit = 1
SYMMETRY Symmetry
CHECK_DEADLOCK FALSE
INVARIANTS
  TypeOK
  CloseRefStored
PROPERTY FollowsCycle
