SPECIFICATION Spec
CONSTANTS
  Capacity = 3
  SMALL_INTEGER_OPTIMISATION_LIMIT = 3
  SizeModulus = 4
  Consumers = {c1, c2}
  MaxPushes = 5
SYMMETRY ConsumerSymmetry
INVARIANT ExclusiveAccess
