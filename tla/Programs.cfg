SPECIFICATION Spec
CONSTANTS
  p1 = p1
  p2 = p2
  a = a
  b = b
  c1 = c1
  c2 = c2
  Ids = {p1, p2}
  Srcs = {a, b}
  Calls = {c1, c2}
  Boot = Boot
  Blank = Blank
  None = None
  Requests <- MCRequests
  Starts <- MCStarts
  Flaky = {b}
  MaxBoots = 2
CHECK_DEADLOCK FALSE
INVARIANTS
  RowRestorable
  NothingForgotten
  NothingOrphaned
