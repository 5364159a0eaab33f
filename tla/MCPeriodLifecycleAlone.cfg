\* One planner at a time beside a retention run.
SPECIFICATION Spec
CONSTANTS
  Request = {r1}
  MaxSnapshot = 8
  MaxMoves = 11
  MaxEdit = 2
SYMMETRY Symmetry
CHECK_DEADLOCK FALSE
INVARIANTS
  ChainIntact
  TrailChained
  EvidenceKept
  SealMatches
  NeverDeletedOncePublished
