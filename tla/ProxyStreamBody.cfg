\* One request, a body of up to two chunks, every way to fail.
SPECIFICATION FairSpec
CONSTANTS
  Requests = {r1}
  MaxChunks = 2
  LossyBus = FALSE
INVARIANTS
  TypeOK
  StreamWillEnd
  BodyInOrder
  ClosedMeansWhole
PROPERTIES
  ImplementsExchange
  WaitingIsAnswered
  LiveSettles
  WorkEnds
CHECK_DEADLOCK FALSE
