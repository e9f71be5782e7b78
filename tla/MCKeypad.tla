------------------------------ MODULE MCKeypad ------------------------------
(* Keypad for TLC: both modifiers, one direction and two face buttons.     *)
(* B and the combo START+X share a key, as they do by default; the second  *)
(* keymap has no combos and no key for X.                                  *)
EXTENDS Keypad

Buttons == <<"UP", "B", "X", "SELECT", "START">>
Combos  == [SELECT |-> {"UP"}, START |-> {"B", "X"}]
Keys    == {"up", "0", "2", "3", "7", "star", "pound"}

Default ==
  [key    |-> [UP |-> "2", B |-> "3", X |-> "0", SELECT |-> "star", START |-> "pound"],
   combo  |-> [SELECT |-> [UP |-> "up", B |-> NoKey, X |-> NoKey],
               START  |-> [UP |-> NoKey, B |-> "7", X |-> "3"]],
   combos |-> TRUE]

Unshared == [Default EXCEPT !.combo["START"]["X"] = NoKey]
NoCombos == [Default EXCEPT !.combos = FALSE, !.key["X"] = NoKey]

Maps == {Default, Unshared, NoCombos}
=============================================================================
