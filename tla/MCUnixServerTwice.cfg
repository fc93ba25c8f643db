\* A second shutdown() of a server, after another has taken the path.
SPECIFICATION Spec
CONSTANTS
  s1 = s1
  s2 = s2
  c = c
  d = d
  t1 = t1
  t2 = t2
  Nobody = Nobody
  Servers = {s1, s2}
  Clients = {c}
  Stops = {t1, t2}
  Speaks <- OnePackage
  Mine <- ThisPackage
  Orderly = FALSE
CHECK_DEADLOCK FALSE
PROPERTY
  SecondShutdownIsNoOp
