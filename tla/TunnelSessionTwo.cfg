\* Two processes that may overlap, queries that may fail.
SPECIFICATION FairSpec
CONSTANTS
  Sockets = {c1, c2}
  Sessions = {u1}
  Servers = {s1, s2}
  Names = {prefixed, n1}
  PrefixName = prefixed
  Nobody = Nobody
  Overlap = TRUE
  DbFails = TRUE
INVARIANTS
  TypeOK
  RegistryCoherent
PROPERTIES
  OnlyOwnCloseUnregisters
  ServerClosesOnlyLapsed
  LapsedUnregisters
CHECK_DEADLOCK FALSE
