SPECIFICATION FairSpec
CONSTANTS
  v1 = v1
  v2 = v2
  b1 = b1
  u = u
  Visits = {v1, v2}
  Browsers = {b1}
  BrowserOf <- BrowserOfValue
  Agents = {u}
  AgentOf <- AgentOfValue
  Ips = {i1, i2}
  Hosts = {h1}
  Nothing = nothing
  CookieTtl = 1
  ChallengeTtl = 0
  MaxTime = 3
  MaxChanges = 1
  KindsOf <- KindsOfValue
INVARIANTS
  TypeOK
PROPERTIES
  AdmittedWasVerified
  VisitEnds
