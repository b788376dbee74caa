\* One caller, one file.
SPECIFICATION Spec
CONSTANTS
  Parsers = {p1}
  Files = {f1}
  Params = {x1}
  Contents = {c1}
  MaxParts = 1
  MaxTasks = 1
INVARIANT TaskIsReady
CHECK_DEADLOCK FALSE
