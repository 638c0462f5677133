SPECIFICATION FairSpec
CONSTANTS
  r1 = r1
  r2 = r2
  r3 = r3
  c1 = c1
  Devices = {d1}
  Registers = {r1, r2, r3}
  Calls = {c1}
  Workloads <- MCWorkloads
  None = None
  Expires <- MCExpires
  Grace = 0
  NonceTTL = 1
  Size = 2
  MaxTime = 2
CHECK_DEADLOCK FALSE
INVARIANTS
  RegistrationsAgree
  OnceOnly
PROPERTIES
  NothingOverstays
