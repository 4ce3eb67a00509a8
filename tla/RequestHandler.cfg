SPECIFICATION Spec
CONSTANTS
  Path = {p1, p2}
  Body = {b1, b2}
  Absent = Absent
  Moved = Moved
  Unknown = Unknown
  Leaving = Leaving
  Choices = Choices
  None = None
  MaxStamp = 2
INVARIANTS TellsTruth ConditionHonoured
