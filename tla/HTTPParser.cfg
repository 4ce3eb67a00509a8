SPECIFICATION Spec
CONSTANTS
  Char <- MCChar
  Sent <- MCSent
  Damage <- MCDamage
  Builds = {TRUE, FALSE}
  SizeT = 65536
  Reach <- MCReach
INVARIANTS TypeOK RoundTrip CutNotAccepted PathInPlace ThrowsOnlyCut
PROPERTY ParseEnds
CHECK_DEADLOCK FALSE
