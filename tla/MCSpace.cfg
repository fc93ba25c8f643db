\* Two connections, four spaces.
SPECIFICATION Spec
CONSTANTS
  t1 = t1
  t2 = t2
  n = n
  m = m
  read = read
  any = any
  except = except
  ann = ann
  bob = bob
  run1 = run1
  run2 = run2
  Nothing = Nothing
  Threads = {t1, t2}
  Names = {n, m}
  Scopes = {read, any, except, ann, bob}
  Families = {any}
  Exclusions = {except}
  Principals = {ann, bob}
  Runs = {run1, run2}
  Under <- FsScopes
  Spaces <- SomeSpaces
  Calls <- SomeCalls
CHECK_DEADLOCK FALSE
INVARIANTS
  GrantedBeforeAnswered
  HiddenIsUnbound
  RunIsOwn
  WritesNeverCached
