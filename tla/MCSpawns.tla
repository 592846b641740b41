------------------------------ MODULE MCSpawns -------------------------------
(***************************************************************************)
(* Spawns for TLC: an entry of two copies of an aggressive mob that come   *)
(* back, and a group of a game master.                                     *)
(***************************************************************************)
EXTENDS Spawns, TLC

Copies == 1 :> 2 @@ 2 :> 1
Updates == 1 :> 1 @@ 2 :> 0
=============================================================================
