----------------------------- MODULE MCEventRing -----------------------------
(* EventRing for TLC: three mailboxes, so that the ring fills with two     *)
(* events and the indices wrap, and a poll limit of two.                   *)
EXTENDS EventRing
=============================================================================
