SPECIFICATION FairSpec
CONSTANTS
  Clients = {c1}
  Workers = {w1}
  NumFds = 2
  Capacity = 3
  Free = Free
  Listener = Listener
PROPERTY RequestServed
CHECK_DEADLOCK FALSE
