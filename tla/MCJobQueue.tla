----------------------------- MODULE MCJobQueue -----------------------------
(* Values for the constants of JobQueue.                                   *)
EXTENDS JobQueueInvariant, TLC

CONSTANTS w1, w2, w3, c1, j1, j2, Attempts1, Attempts2

MCMaxAttempts == [j \in Job |-> IF j = j1 THEN Attempts1 ELSE Attempts2]

MCTier == [j \in Job |-> IF j = j1 THEN 0 ELSE 1]

Symmetric == Permutations(Worker)
=============================================================================
