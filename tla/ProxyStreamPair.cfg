\* Two requests share the tunnel; responses carry no body; events get lost.
SPECIFICATION Spec
CONSTANTS
  Requests = {r1, r2}
  MaxChunks = 0
  LossyBus = TRUE
SYMMETRY Symmetry
INVARIANTS
  UsageCountedOnce
  PendingIsTimed
  RpcIsPending
  NoForgottenWork
CHECK_DEADLOCK FALSE
