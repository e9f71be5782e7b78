CONSTANTS
  Thread = {t1, t2, t3}
  Obj = {a, b}
  Null = Null
  Anchor = Anchor
  TimedObj = {a, b}
  Interruptible = {}
  Blocking = {}
  MaxTimeout = 1
SPECIFICATION Spec
INVARIANTS
  WokenNotActive
CHECK_DEADLOCK FALSE
