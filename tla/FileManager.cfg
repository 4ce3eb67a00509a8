SPECIFICATION Spec
CONSTANTS
  Files = {index}
  None = None
  Empty = Empty
  extension <- MCExtension
  Outside = Outside
  Workers = {w1, w2}
  Units = {main_cpp, http_handler_cpp}
  FillUnit = main_cpp
  RequestUnit = main_cpp
  MaxVersion = 1
  MaxRuns = 2
SYMMETRY Symmetry
INVARIANTS RightContent 
PROPERTY StaysWarm
CHECK_DEADLOCK FALSE
