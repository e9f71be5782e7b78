CONSTANTS
  Thread = {t1, t2, t3}
  Settable = {}
  Slots = 1
SPECIFICATION FairSpec
PROPERTIES
  NoStarvation
CHECK_DEADLOCK FALSE
