\* A reply that comes after its call timed out.
SPECIFICATION Spec
CONSTANTS
  a = a
  b = b
  l = l
  NoCall = NoCall
  Calls = {a, b}
  Large = {}
CHECK_DEADLOCK FALSE
INVARIANT
  StrictlyCallReply
