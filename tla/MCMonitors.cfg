CONSTANTS
  Thread = {t1, t2, t3}
  Obj = {a, b}
  Null = Null
  Anchor = Anchor
  TimedObj = {a}
  Interruptible = {t1}
  Blocking = {t1}
  MaxTimeout = 1
SPECIFICATION FairSpec
INVARIANTS
  OnePlace
PROPERTIES
  ImplementsMonitors
  TimeoutsEnd
CHECK_DEADLOCK FALSE
