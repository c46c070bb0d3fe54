SPECIFICATION FairSpec
CONSTANTS
  p1 = p1
  p2 = p2
  p3 = p3
  m1 = m1
  m2 = m2
  a = a
  b = b
  Procs = {p1, p2, p3}
  Nobody = nobody
  Plugins = {x}
  Names = {m1, m2}
  Sums = {a, b}
  NoSum = nosum
  Shipped <- ShippedValue
  File <- FileValue
INVARIANTS
  TypeOK
  LedgerIsTrue
  ReadyMeansMigrated
PROPERTIES
  WaitingEnds
CHECK_DEADLOCK FALSE
