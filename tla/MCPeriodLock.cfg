SPECIFICATION Spec
CONSTANTS
  Process = {p1, p2, p3}
  HolderOf <- MCOwnHolder
  NULL = NULL
  TTL = 2
  Disturbance = {"die", "wipe"}
  MaxTime = 5
SYMMETRY Symmetry
INVARIANTS TypeOK LeaseExclusive LeaseBacked
PROPERTY ImplementsLease
CHECK_DEADLOCK FALSE
