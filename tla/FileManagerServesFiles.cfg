SPECIFICATION Spec
CONSTANTS
  Files = {index}
  None = None
  Empty = Empty
  extension <- MCExtension
  Outside = Outside
  Workers = {w1}
  Units = {main_cpp, http_handler_cpp}
  FillUnit = main_cpp
  RequestUnit = http_handler_cpp
  MaxVersion = 1
  MaxRuns = 2
INVARIANT ServesFiles
CHECK_DEADLOCK FALSE
