\* A close handler's late update and a reconnect.
SPECIFICATION Spec
CONSTANTS
  Sockets = {c1, c2}
  Sessions = {u1}
  Servers = {s1, s2}
  Names = {prefixed, n1, n2}
  PrefixName = prefixed
  Nobody = Nobody
  Overlap = FALSE
  DbFails = FALSE
INVARIANTS
  RegisteredIsActive
CHECK_DEADLOCK FALSE
