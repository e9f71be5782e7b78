CONSTANTS
  Thread = {t1, t2}
  Display = {d1, d2}
  Null = Null
  MaxRequests = 4
SPECIFICATION FairSpec
INVARIANTS
  SpareUnshared
  NoTornPaint
  NoRequestLost
PROPERTIES
  ServedWhenReturned
  ServiceReturns
  EventuallyPainted
CHECK_DEADLOCK FALSE
