----------------------------- MODULE BoundedFifo -----------------------------
(***************************************************************************)
(* What every event queue of the emulator promises its users: a bounded    *)
(* first-in first-out queue that refuses an element only when it is full.  *)
(* EventRing (javacall events.c) and NativeEventQueue (midpEvents.c) are   *)
(* both shown to implement it.                                             *)
(***************************************************************************)
EXTENDS Naturals, Sequences

CONSTANTS
  Element,    \* what can be queued
  Nothing,    \* the value of "got" before the first element is taken
  Capacity    \* how many elements fit

VARIABLES
  q,          \* the queued elements, oldest first
  got,        \* the element handed out by the last successful Take
  outcome     \* how the last call ended

vars == <<q, got, outcome>>

Init == q = <<>> /\ got = Nothing /\ outcome = "none"

(* An element is appended, or refused: but only because the queue is full, *)
(* or because an implementation that copies elements is out of memory.     *)
Put(e) ==
  \/ /\ Len(q) < Capacity
     /\ q' = Append(q, e)
     /\ outcome' = "stored"
     /\ UNCHANGED got
  \/ /\ Len(q) = Capacity
     /\ outcome' = "refused"
     /\ UNCHANGED <<q, got>>
  \/ /\ outcome' = "no memory"
     /\ UNCHANGED <<q, got>>

(* The oldest element is handed out, or the queue is empty. *)
Take ==
  \/ /\ q # <<>>
     /\ got' = Head(q)
     /\ q' = Tail(q)
     /\ outcome' = "taken"
  \/ /\ q = <<>>
     /\ outcome' = "empty"
     /\ UNCHANGED <<q, got>>

(* Everything queued is thrown away. *)
Clear == q' = <<>> /\ UNCHANGED <<got, outcome>>

Next == (\E e \in Element : Put(e)) \/ Take \/ Clear

Spec == Init /\ [][Next]_vars
=============================================================================
