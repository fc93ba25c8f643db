\* Python 3.11, and a door replaced by an older one.
SPECIFICATION Spec
CONSTANTS
  r = r
  w = w
  Calls = {r, w}
  Replayable = {r}
  Describe = {r}
  CarriesRun = {w}
  MaxConns = 5
  Addresses = 1
  DoorVersions = {8, 9}
  Python311 = TRUE
CHECK_DEADLOCK FALSE
INVARIANT
  OldDoorHearsNoIssueWith
