---------------------------- MODULE MCLowLevelZero ----------------------------
(* LowLevelZero for TLC: two ranks, two param_groups and two process       *)
(* groups, parameters smaller and larger than a bucket.                    *)
EXTENDS LowLevelZero

CONSTANTS a, b, c, d

MCOrder   == <<<<a, b>>, <<c, d>>>>
MCNumel   == (a :> 1) @@ (b :> 3) @@ (c :> 2) @@ (d :> 8)
MCGroupOf == (a :> 1) @@ (b :> 1) @@ (c :> 1) @@ (d :> 2)

Stage1 == [partition |-> FALSE, overlap |-> FALSE, overlap_allgather |-> FALSE,
           no_sync |-> FALSE, drops |-> FALSE]
MCConfigs ==
  {[Stage1 EXCEPT !.no_sync = TRUE, !.drops = TRUE],
   [Stage1 EXCEPT !.no_sync = TRUE, !.overlap = TRUE, !.overlap_allgather = TRUE],
   [Stage1 EXCEPT !.partition = TRUE, !.overlap_allgather = TRUE, !.drops = TRUE],
   [Stage1 EXCEPT !.partition = TRUE, !.overlap = TRUE]}
===============================================================================
