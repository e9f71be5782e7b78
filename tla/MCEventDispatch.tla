--------------------------- MODULE MCEventDispatch ---------------------------
(* EventDispatch for TLC: a native queue of two, a pool of one object, one *)
(* ordinary event type and one that is coalesced.  Objects are numbers and *)
(* there are enough of them for every event and both threads.              *)
EXTENDS EventDispatch

Objects == 1 .. MaxStores + MaxPosts + PoolSize + 2
=============================================================================
