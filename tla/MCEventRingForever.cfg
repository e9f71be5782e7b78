CONSTANTS
  NumMbx = 3
  Event = {key, media}
  NoEvent = NoEvent
  BusyLimit = 2
SPECIFICATION Spec
PROPERTIES
  ForeverBlocks
