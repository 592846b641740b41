---------------------------- MODULE MCGroundItems ----------------------------
(***************************************************************************)
(* GroundItems for TLC, with interchangeable sessions.                     *)
(***************************************************************************)
EXTENDS GroundItems, TLC

Symmetry == Permutations(Sessions)
=============================================================================
