SPECIFICATION Spec
CONSTANTS
  p1 = p1
  p2 = p2
  a = a
  b = b
  Procs = {p1, p2}
  Pods = {a, b}
  None = None
  Holder <- MCHolder
  Duration <- MCDuration
  Wait <- MCWait
  FailIfUnavailable = {p2}
  MaxAge = 2
INVARIANT OnlyWhileHolding
