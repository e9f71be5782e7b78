-------------------------- MODULE MCNativeEventQueue --------------------------
(* NativeEventQueue for TLC: three slots and two distinguishable events.   *)
EXTENDS NativeEventQueue
=============================================================================
