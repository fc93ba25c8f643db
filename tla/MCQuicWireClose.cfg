\* A call made after close().
SPECIFICATION Spec
CONSTANTS
  r = r
  w = w
  Calls = {r, w}
  Replayable = {r}
  Describe = {r}
  CarriesRun = {w}
  MaxConns = 5
  Addresses = 1
  DoorVersions = {9}
  Python311 = FALSE
CHECK_DEADLOCK FALSE
PROPERTY
  CloseIsFinal
