\* Two servers in turn, of any package, with crashes and shutdowns.
SPECIFICATION FairSpec
CONSTANTS
  s1 = s1
  s2 = s2
  c = c
  d = d
  t1 = t1
  t2 = t2
  Nobody = Nobody
  Servers = {s1, s2}
  Clients = {c}
  Stops = {t1, t2}
  Speaks <- Packages
  Mine <- ThisPackage
  Orderly = TRUE
CHECK_DEADLOCK FALSE
INVARIANTS
  UpIsReachable
  LeftoverReplaced
  NegotiatesBest
PROPERTIES
  AcceptLoopEnds
  OfferStepsDown
  EveryConnectEnds
