----------------------------- MODULE MCOneFOneB -----------------------------
(* OneFOneB for TLC: three stages, three microbatches of two rows.         *)
EXTENDS OneFOneB

Train(n) == [train |-> TRUE, rows |-> n]
Eval(n)  == [train |-> FALSE, rows |-> n]

MCConfigs == {[num |-> 3, size |-> None, cache |-> TRUE], [num |-> None, size |-> 2, cache |-> TRUE],
              [num |-> 3, size |-> 2, cache |-> TRUE],
              [num |-> 3, size |-> None, cache |-> FALSE]}
MCScripts == [1 .. 3 -> {Train(6), Eval(6), Eval(5)}]
=============================================================================
