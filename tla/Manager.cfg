SPECIFICATION FairSpec
CONSTANTS
  Ids = {i1}
  Callers = {c1, c2}
  Sources = {s1, s2}
  None = None
CHECK_DEADLOCK FALSE
INVARIANTS
  SourcesOwned
PROPERTIES
  AllReturn
