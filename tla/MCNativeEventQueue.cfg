CONSTANTS
  MaxEvents = 3
  Event = {key, pen}
  NoEvent = NoEvent
SPECIFICATION Spec
INVARIANTS
  FlagMeansBlocked
  NoLostWakeup
PROPERTIES
  ImplementsFifo
