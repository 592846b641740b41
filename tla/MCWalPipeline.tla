---------------------------- MODULE MCWalPipeline ----------------------------
(***************************************************************************)
(* WalPipeline for TLC.  The sessions are interchangeable in every action  *)
(* and in every invariant, so the runs without liveness use symmetry.      *)
(***************************************************************************)
EXTENDS WalPipeline, TLC

Symmetry == Permutations(Sessions)
=============================================================================
