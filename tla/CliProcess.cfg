SPECIFICATION FairSpec
CONSTANTS
  t1 = t1
  t2 = t2
  Main = main
  Term = term
  Tunnels = {t1, t2}
  Logins = {t1, t2, main, term}
  Users = {"u1", "u2"}
  Ranges = {r1, r2}
  UserAgents = {"v1", "v2"}
  Old = old
  OldUser = "u1"
  OldRange = r1
  OldUA = "v1"
  OldUntil = 1
  Agent = "v1"
  Nobody = nobody
  NoFile = nofile
  Torn = torn
  SessionTTL = 1
  TokenTTL = 2
  TrustTTL = 2
  MaxTime = 2
  Plans <- PlanValues
INVARIANTS
  TypeOK
  TrustIsLinked
  OwnRangeIsTrusted
  TokenNamesApprover
  NoServiceLeftBehind
  ExitCodeTells
PROPERTIES
  PrepareEnds
CHECK_DEADLOCK FALSE
