SPECIFICATION Spec
CONSTANTS
  Clients = {c1, c2, c3}
  Workers = {w1, w2}
  NumFds = 3
  Capacity = 4
  Free = Free
  Listener = Listener
SYMMETRY Symmetry
INVARIANTS TypeOK FdOwnership RightRecipient LeaksKnown
CHECK_DEADLOCK FALSE
