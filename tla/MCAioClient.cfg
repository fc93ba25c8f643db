\* Timeouts, cancellations, close() and a server that may go at any time.
SPECIFICATION FairSpec
CONSTANTS
  a = a
  b = b
  l = l
  NoCall = NoCall
  Calls = {a, b, l}
  Large = {l}
CHECK_DEADLOCK FALSE
INVARIANTS
  InStepUntilAbandoned
  RepliesUsedOnce
PROPERTIES
  ImplementsRoundTrips
  OnlyDrainHangs
