------------------------------- MODULE MCTrade -------------------------------
(***************************************************************************)
(* Trade for TLC: two players, one of them as rich as one can be.          *)
(***************************************************************************)
EXTENDS Trade, TLC

CONSTANTS s1, s2

TwoPlayers == {s1, s2}
RichAndPoor == s1 :> 2 @@ s2 :> 1
=============================================================================
