SPECIFICATION FairSpec
CONSTANTS
  Configs <- MainConfigs
  MaxSignals = 2
  MaxDepth = 2
INVARIANTS OneStopper NoJoinCycle
PROPERTY ShutdownEnds
CHECK_DEADLOCK FALSE
