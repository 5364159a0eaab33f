\* Two requests at a time on one period: every interleaving of two planners,
\* two employees and the marketplace.
SPECIFICATION Spec
CONSTANTS
  early = early
  middle = middle
  Period = {p1}
  Employee = {e1, e2}
  Shift = {early, middle}
  Clash <- DayClash
  AssignmentId = {a1, a2}
  Request = {r1, r2}
  NoOne = NoOne
  MaxLoad = 1
  MaxVersion = 2
  Barrable = {}
SYMMETRY Symmetry
INVARIANTS
  TypeOK
  SlotKeyFaithful
  SlotUnique
  VersionNamesContent
\* The instance stops once its only period is deleted and eligibility is fixed.
CHECK_DEADLOCK FALSE
