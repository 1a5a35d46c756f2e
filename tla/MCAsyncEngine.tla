---------------------------- MODULE MCAsyncEngine ----------------------------
(* AsyncEngine for TLC: four calls, two for each of two ids, one of them   *)
(* with a prompt that is too long.                                         *)
EXTENDS AsyncEngine, TLC

CONSTANTS c1, c2, c3, c4

MCTwins == (c1 :> 1) @@ (c2 :> 2) @@ (c3 :> 1) @@ (c4 :> 2)
=============================================================================
