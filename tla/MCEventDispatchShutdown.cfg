CONSTANTS
  MaxEvents = 2
  NoEvent = NoEvent
  Type = {key, paint}
  OnlyOne = {paint}
  Obj <- Objects
  Null = Null
  PoolSize = 1
  MaxStores = 2
  MaxPosts = 1
SPECIFICATION Spec
INVARIANTS
  ShutdownMeansStopped
CHECK_DEADLOCK FALSE
