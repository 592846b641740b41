------------------------------ MODULE MCHealth -------------------------------
(***************************************************************************)
(* Health for TLC: skills that cost mana, and skills that cost both; one   *)
(* player begins with the health that two skills, paid with the same       *)
(* points, have left below zero, the other is whole.                       *)
(***************************************************************************)
EXTENDS Health, TLC

CONSTANTS p1, p2

TwoCosts == {[hp |-> 0, mp |-> 1], [hp |-> 1, mp |-> 1]}
OneInDebt == [r \in Players |-> IF r = p1 THEN [hp |-> -1, mp |-> MaxMp] ELSE Full]
=============================================================================
