\* One request at a time: what the validations guarantee without interleaving.
SPECIFICATION Spec
CONSTANTS
  early = early
  middle = middle
  Period = {p1}
  Employee = {e1, e2}
  Shift = {early, middle, late}
  Clash <- DayClash
  AssignmentId = {a1, a2, a3}
  Request = {r1}
  NoOne = NoOne
  MaxLoad = 1
  MaxVersion = 1
  Barrable <- SomeBars
SYMMETRY Symmetry
INVARIANTS
  NoDoubleBooking
  AckIsSelf
  NoOrphanAssignment
PROPERTIES
  PublishIsClean
  ChangeRespectsPeriod
