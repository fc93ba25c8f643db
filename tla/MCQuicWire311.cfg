\* Python 3.11: a dial may end before its task resumes; two addresses to try.
SPECIFICATION Spec
CONSTANTS
  r = r
  w = w
  Calls = {r, w}
  Replayable = {r}
  Describe = {r}
  CarriesRun = {}
  MaxConns = 4
  Addresses = 2
  DoorVersions = {9}
  Python311 = TRUE
CHECK_DEADLOCK FALSE
INVARIANTS
  SentAgainOnlyIfLost
  OneAtATime
  EndedConnectionOwesNothing
  NoConnectionLeaks
  PingedWhileOpen
PROPERTIES
  ImplementsRoundTrips
  TrustRefusalSticks
  StaleConnectionNeverReused
