---------------------------- MODULE MCKeyDelivery ----------------------------
(* KeyDelivery for TLC: one face button, both modifiers and a ring of four *)
(* (two taps, or two polls).  START has a combo with B, SELECT has none;   *)
(* in the second keymap the combo sends what SELECT sends, and in the      *)
(* third, without combos, START what B sends.                              *)
EXTENDS KeyDelivery

Buttons == <<"B", "SELECT", "START">>
Combos  == [SELECT |-> {}, START |-> {"B"}]
Keys    == {"3", "7", "star", "pound"}

Unshared ==
  [key    |-> [B |-> "3", SELECT |-> "star", START |-> "pound"],
   combo  |-> [SELECT |-> [B |-> NoKey], START |-> [B |-> "7"]],
   combos |-> TRUE]

Shared == [Unshared EXCEPT !.combo["START"]["B"] = "star"]

NoCombos ==
  [Unshared EXCEPT !.combos = FALSE, !.key["SELECT"] = NoKey, !.key["START"] = "3"]

Maps == {Unshared, Shared, NoCombos}

(* Once START or an event after it was refused the invariants promise      *)
(* nothing any more: a game like that is checked but not followed.         *)
OnlyClean == Running => Clean
=============================================================================
