------------------------------ MODULE MCSafebox ------------------------------
(***************************************************************************)
(* Safebox for TLC: an account with two characters, a stack of two, a      *)
(* single piece, a tall item and one that no safebox takes, and a second   *)
(* account with a character whose id is that of the first account.         *)
(***************************************************************************)
EXTENDS Safebox, TLC

TheAccount == 1 :> 2 @@ 2 :> 1 @@ 3 :> 1
Tall == 1 :> 1 @@ 2 :> 1 @@ 3 :> 2 @@ 4 :> 1
InTheBag(n) == [owner |-> 2, window |-> "bag", pos |-> 0, count |-> n]
Bags == 1 :> InTheBag(2) @@ 2 :> InTheBag(1) @@ 3 :> InTheBag(1) @@ 4 :> InTheBag(1)
Purses == 1 :> 0 @@ 2 :> 1 @@ 3 :> 1
=============================================================================
