\* The table branch of next; two workers and two pushes more than there are slots.
SPECIFICATION FairSpec
CONSTANTS
  Capacity = 3
  SMALL_INTEGER_OPTIMISATION_LIMIT = 4
  SizeModulus = 4
  Consumers = {c1, c2}
  MaxPushes = 5
INVARIANTS TypeOK NoTaskLost HandedOutOnce SizeCounts QueueInv NoLapBelowCapacity
PROPERTIES HandOff EveryTaskTaken
