\* An acknowledgement racing a transfer.
SPECIFICATION Spec
CONSTANTS
  early = early
  middle = middle
  Period = {p1}
  Employee = {e1, e2}
  Shift = {early, middle}
  Clash <- DayClash
  AssignmentId = {a1, a2}
  Request = {r1, r2}
  NoOne = NoOne
  MaxLoad = 2
  MaxVersion = 1
  Barrable = {}
SYMMETRY Symmetry
CHECK_DEADLOCK FALSE
INVARIANT AckIsSelf
