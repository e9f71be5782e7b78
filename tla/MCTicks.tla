------------------------------- MODULE MCTicks -------------------------------
(* Ticks for TLC: three threads, of which one changes its priority, two    *)
(* priorities, and timers for two VMs, so that one that is left can keep   *)
(* the slot that the next one needs.                                       *)
EXTENDS Ticks
=============================================================================
