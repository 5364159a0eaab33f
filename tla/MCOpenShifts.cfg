SPECIFICATION FairSpec
CONSTANTS
  Request = {r1, r2}
  Employee = {e1, e2}
  NULL = NULL
  AutoApply = {TRUE, FALSE}
  Disturbance = {"close", "die", "outsider"}
  MaxRows = 3
INVARIANTS TypeOK OneFilling NotStranded
PROPERTIES NoStuckPending ClaimedUntilCancelled
CHECK_DEADLOCK FALSE
