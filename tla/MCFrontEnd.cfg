SPECIFICATION Spec
CONSTANTS
  None = None
  Period = {a, b}
  Row = {a, b}
  Shift = {a, b}
  Pattern = {a, b}
  Employee = {x, y}
  Name = {x, y}
  Dates = {x, y}
  Date = {d1, d2}
  FewClicks = 2
  SomeClicks = 3
  ManyClicks = 4
  MaxVersion = 1
  RowHeight = 2
  Overscan = 1
  Unsized = 2
  Threshold = 1
  Sizes = {0, 4}
  Heights = {0, 3}
INVARIANTS ShowsTheChosen ActsOnWhatIsShown OneMutation NoLostUpdate RowsInSight NothingStuck
SYMMETRY Symmetry
CHECK_DEADLOCK FALSE
