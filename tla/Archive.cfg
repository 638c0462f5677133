SPECIFICATION Spec
CONSTANTS
  path1 = path1
  path2 = path2
  ftp = ftp
  smb = smb
  dir1 = dir1
  dir2 = dir2
  None = None
  Recs = {1, 2, 3}
  Paths = {path1, path2}
  Targets = {ftp, smb}
  Dests = {dir1, dir2}
  PathOf <- MCPathOf
  SizeOf <- MCSizeOf
  Requests <- MCRequests
  Scenarios <- MCScenarios
  MaxAttempts = 2
  Batch = 1
  Ranges = {0, 1, 2, 3}
INVARIANTS
  NothingStranded
  
  RangeServed
PROPERTIES
  RemovedWhenDue
  Transported
