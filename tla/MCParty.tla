------------------------------- MODULE MCParty -------------------------------
(***************************************************************************)
(* Party for TLC: four players, one more than a party takes, some of them  *)
(* too far apart in level.                                                 *)
(***************************************************************************)
EXTENDS Party, TLC

CONSTANTS p1, p2, p3, p4, attacker

FourPlayers == {p1, p2, p3, p4}
Joinable == {<<p1, p2>>, <<p1, p3>>, <<p1, p4>>, <<p2, p3>>}
=============================================================================
