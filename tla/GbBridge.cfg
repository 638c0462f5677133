SPECIFICATION FairSpec
CONSTANTS
  Streams = {s1}
  Tasks = {t1, t2}
  Main = Main
  None = None
  QueueCap = 2
CHECK_DEADLOCK FALSE
INVARIANTS
  PullsOwned
  PullIntact
PROPERTIES
  TeardownComplete
