--------------------------- MODULE MCZeroBubbleRL ---------------------------
(* ZeroBubbleRL for TLC: two producers, with a distributor each, and the   *)
(* two ranks of a consumer.                                                *)
EXTENDS ZeroBubbleRL

CONSTANTS p1, p2
=============================================================================
