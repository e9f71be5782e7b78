--------------------------- MODULE MCRepaintEvents ---------------------------
(* RepaintEvents for TLC: two application threads, two displays and enough *)
(* requests for every event object to be used a second time.               *)
EXTENDS RepaintEvents
=============================================================================
