CONSTANTS
  Thread = {t1, t2, t3}
  Settable = {t1}
  Slots = 2
  MaxTimers = 2
  Interval = 1
SPECIFICATION TicksFairSpec
INVARIANTS
  RingsDisjoint
  CountExact
  TickerHeld
  FailureHeals
PROPERTIES
  TicksShare
  TicksKeepComing
