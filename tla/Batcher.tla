------------------------------- MODULE Batcher -------------------------------
(***************************************************************************)
(* What a request handler promises to the engine that drives it: requests  *)
(* are held until a step admits them, as many as there is room for, and    *)
(* run until a step ends that finishes them.  No step starts without       *)
(* work, and nothing else happens to the requests during a step, except    *)
(* that one that is still held may be withdrawn between two steps.         *)
(***************************************************************************)
EXTENDS Naturals, FiniteSets

CONSTANTS Requests, BatchSize

VARIABLES
  held,      \* requests added and not admitted
  running,   \* requests admitted and not finished
  stepping   \* is a step under way?

batcherVars == <<held, running, stepping>>

BatcherInit == held = {} /\ running = {} /\ stepping = FALSE

Add(r) ==
  /\ ~ stepping /\ r \notin held \cup running
  /\ held' = held \cup {r}
  /\ UNCHANGED <<running, stepping>>

Withdraw(r) ==
  /\ ~ stepping /\ r \in held
  /\ held' = held \ {r}
  /\ UNCHANGED <<running, stepping>>

\* A step begins, with the requests in R added just before it.
Begin(R) ==
  LET all == held \cup R
      room == BatchSize - Cardinality(running)
  IN /\ ~ stepping /\ all \cup running # {}
     /\ \E A \in SUBSET all :
          /\ Cardinality(A) = IF Cardinality(all) <= room THEN Cardinality(all) ELSE room
          /\ running' = running \cup A
          /\ held' = all \ A
     /\ stepping' = TRUE

\* It ends, and the requests in F are finished.
End(F) ==
  /\ stepping /\ F \subseteq running
  /\ running' = running \ F
  /\ stepping' = FALSE
  /\ UNCHANGED held

BatcherNext ==
  \/ \E r \in Requests : Add(r) \/ Withdraw(r)
  \/ Begin({})
  \/ \E F \in SUBSET Requests : End(F)

BatcherSpec == BatcherInit /\ [][BatcherNext]_batcherVars
=============================================================================
