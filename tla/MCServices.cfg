SPECIFICATION Spec
CONSTANTS
  None = None
  Request = {s1, s2}
  OneRequest = {s3}
  Planner = {p1}
  Employee = {a, b}
  User = {m1, m2, m3}
  Message = {m1, m2, m3}
  Location = {a, b}
  Conflict = {c1}
  Context = {a, b}
  Field = {a, b}
  Value = {v1, v2}
  Fresh = Fresh
  MaxSwaps = 2
  MaxPending = 1
  MaxAttempts = 2
  LastHalfDay = 4
  MaxSpan = 2
  LastHour = 3
  MaxRows = 3
  FewRows = 2
  MaxSeats = 3
  Max = 2
  Window = 2
  LastSecond = 6
  MaxSnapshots = 1
  MaxId = 3
  MaxVersion = 3
  FewChanges = 2
  MaxChanges = 3
  Pattern = {a, b}
  FewDays = 2
  LastDay = 3
SYMMETRY Symmetry
INVARIANTS LimitsKept DoneOnce NothingLost CopiesTrue
CHECK_DEADLOCK FALSE
