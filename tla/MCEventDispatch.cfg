CONSTANTS
  MaxEvents = 2
  NoEvent = NoEvent
  Type = {key, paint}
  OnlyOne = {paint}
  Obj <- Objects
  Null = Null
  PoolSize = 1
  MaxStores = 2
  MaxPosts = 1
SPECIFICATION FairSpec
INVARIANTS
  WaitingIsQueued
  PoolUnshared
  PipelineOrdered
  NothingLost
PROPERTIES
  EventuallyHandled
  ShutdownDrains
  ShutdownCompletes
CHECK_DEADLOCK FALSE
