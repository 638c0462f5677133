SPECIFICATION ApiSpec
CONSTANTS
  d = d
  root = root
  ann = ann
  s0 = s0
  s1 = s1
  s2 = s2
  Nobody = Nobody
  NoCfg = NoCfg
  Ids = {d}
  Cfgs <- MCCfgs
  DevReqs <- MCDevReqs
  GbOn = TRUE
  Users = {root, ann}
  Admin = root
  Passwords = {1, 2}
  DefaultPw = 1
  Tokens <- MCTokens
  AccReqs <- MCAccReqs
  Cases <- MCCases
  Timed = {s2}
CHECK_DEADLOCK FALSE
INVARIANTS
  DevicesAgree
  SessionsCurrent
