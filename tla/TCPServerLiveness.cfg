SPECIFICATION FairSpec
CONSTANTS
  Clients = {c1, c2}
  Workers = {w1, w2}
  NumFds = 3
  Capacity = 3
  Free = Free
  Listener = Listener
PROPERTIES TaskFinished TaskAnswered ShutdownCompletes
CHECK_DEADLOCK FALSE
