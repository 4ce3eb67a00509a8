SPECIFICATION TLSFairSpec
CONSTANTS
  Clients = {c1, c2}
  Workers = {w1, w2}
  NumFds = 2
  Capacity = 3
  Free = Free
  Listener = Listener
INVARIANTS TLSFdOwnership ObjectsOwned CtxHeld RightRecipient
PROPERTIES ReadEnds WriteEnds TLSTaskAnswered
CHECK_DEADLOCK FALSE
