SPECIFICATION Spec
CONSTANTS
  x = x
  y = y
  a = a
  b = b
  c1 = c1
  c2 = c2
  c3 = c3
  BusIds = {x, y}
  Srcs = {a, b}
  Volumes = {0, 50, 100}
  Calls = {c1, c2, c3}
  Late = {c1, c2}
  Boot = Boot
  Halt = Halt
  None = None
  Requests <- MCRequests
  Starts <- MCStarts
  MaxFaults = 1
CHECK_DEADLOCK FALSE
INVARIANTS
  KnobWorks
  NothingUnowned
  SavedAsIs
PROPERTY ConsoleImplemented
