SPECIFICATION Spec
CONSTANTS
  Obj = {x1, x2}
  Val = {v1, v2}
  Err = {e1, e2}
  Moved = Moved
  Args = {TRUE, FALSE}
INVARIANTS TypeOK LifetimesKept
PROPERTY AllOrNothing
CHECK_DEADLOCK FALSE
