----------------------------- MODULE MCMonitors -----------------------------
(* Monitors for TLC: three threads, so that one holds a monitor while one  *)
(* queues and one waits, and two objects, so that a thread holds one       *)
(* monitor and waits for another and the lists of two objects are linked.  *)
(* Threads wait with a timeout on one of the objects only, except in the   *)
(* run that shows what happens otherwise.                                  *)
EXTENDS Monitors
=============================================================================
