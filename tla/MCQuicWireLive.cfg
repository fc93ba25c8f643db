\* Every call ends, whatever the door does: Python 3.12 and later, one version.
SPECIFICATION FairSpec
CONSTANTS
  r = r
  w = w
  Calls = {r, w}
  Replayable = {r}
  Describe = {r}
  CarriesRun = {w}
  MaxConns = 5
  Addresses = 1
  DoorVersions = {9}
  Python311 = FALSE
CHECK_DEADLOCK FALSE
PROPERTIES
  EveryCallEnds
