SPECIFICATION FairSpec
CONSTANTS
  talker = talker
  other = other
  Visitors = {talker, other}
  Nobody = nobody
  Loads <- LoadValues
INVARIANTS
  TypeOK
  AppReadsARun
  VisitorReadsARun
  OrphanLeftEarly
PROPERTIES
  LeavingReachesApp
  AppEndReachesVisitor
  MessageArrives
CHECK_DEADLOCK FALSE
