\* One process after another, reliable queries: rows against registry.
SPECIFICATION Spec
CONSTANTS
  Sockets = {c1, c2, c3}
  Sessions = {u1}
  Servers = {s1, s2}
  Names = {prefixed, n1, n2}
  PrefixName = prefixed
  Nobody = Nobody
  Overlap = FALSE
  DbFails = FALSE
SYMMETRY Symmetry
INVARIANTS
  ActiveRowIsHeld
  ActiveRowOwnerRuns
CHECK_DEADLOCK FALSE
