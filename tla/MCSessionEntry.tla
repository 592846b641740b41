---------------------------- MODULE MCSessionEntry ----------------------------
(***************************************************************************)
(* SessionEntry for TLC: two connections of one account, whose sessions    *)
(* meet at the registry of logins.                                         *)
(***************************************************************************)
EXTENDS SessionEntry, TLC

CONSTANT a1

OneAccount == {a1}
=============================================================================
