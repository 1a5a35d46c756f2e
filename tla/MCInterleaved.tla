---------------------------- MODULE MCInterleaved ----------------------------
(* Interleaved for TLC: two and three stages of two or three chunks, with *)
(* one and two groups of microbatches, by number or by size.  Where the    *)
(* metadata cache goes off the script ends with that step, or with one     *)
(* that is refused: more of them the schedule does not survive.  For the   *)
(* same reason the microbatches of an evaluation fill their groups.        *)
EXTENDS Interleaved

Train(n) == [train |-> TRUE, rows |-> n]
Eval(n)  == [train |-> FALSE, rows |-> n]

Two   == [stages |-> 2, chunks |-> 2, overlap |-> TRUE, num |-> 4, size |-> None, cache |-> TRUE]
Short == [Two EXCEPT !.num = None, !.size = 2]
Three == [Two EXCEPT !.stages = 3, !.num = 3]
Waits(c) == [c EXCEPT !.overlap = FALSE]

Uncached == [Two EXCEPT !.num = 2, !.cache = FALSE]
Deep     == [Two EXCEPT !.chunks = 3]

MCConfigs == {Two, Short, Uncached, Deep, Three, Waits(Two), Waits(Three)}
MCScripts == [c \in MCConfigs |->
  CASE c = Short -> {<<Train(8), Eval(8), Train(8)>>, <<Train(4), Eval(3), Train(4)>>, <<Eval(4)>>,
                     <<Train(4), Train(8)>>}
    [] c = Uncached -> {<<Train(4)>>}
    [] c.stages = 2 /\ c.cache -> {<<Train(8), Eval(8), Train(8)>>, <<Train(4), Eval(4), Train(4)>>}
    [] c.stages = 3 -> {<<Train(3), Train(3)>>, <<Train(3), Eval(3)>>, <<Train(6), Eval(6)>>}]

\* An evaluation before the training.
EvaluatedFirst    == {Short}
EvaluationScripts == [c \in EvaluatedFirst |-> {<<Eval(4), Train(4)>>}]
===============================================================================
