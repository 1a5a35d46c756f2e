----------------------------- MODULE BlockPool ------------------------------
(***************************************************************************)
(* What the KV cache manager promises its callers: a pool of blocks, each  *)
(* with at most one owner.  Only unowned blocks are handed out, and an     *)
(* owner that returns its blocks returns all of them.                      *)
(***************************************************************************)
CONSTANTS Blocks, Owners, Nobody

VARIABLE owner   \* block -> its owner, or Nobody

Init == owner = [b \in Blocks |-> Nobody]

\* Some unowned blocks get owners, the others keep theirs.
Acquire ==
  /\ owner' \in [Blocks -> Owners \cup {Nobody}]
  /\ \A b \in Blocks : owner[b] # Nobody => owner'[b] = owner[b]

\* The owners in R give all their blocks back.
Release(R) ==
  owner' = [b \in Blocks |-> IF owner[b] \in R THEN Nobody ELSE owner[b]]

Next == Acquire \/ \E R \in SUBSET Owners : Release(R)

Spec == Init /\ [][Next]_owner
=============================================================================
