------------------------------ MODULE MCQueues ------------------------------
(* Values for the constants of Queues.  A tick is the resolution of high   *)
(* scores; the last place of a low score is twice that of a medium one.    *)
EXTENDS Queues

CONSTANTS Tier1, Tier2, Tier3

MCTier == [j \in Job |-> CASE j = 1 -> Tier1 [] j = 2 -> Tier2 [] j = 3 -> Tier3]

MCWeight == [tier \in Tiers |-> 20 * tier]

MCQuantum == [tier \in Tiers |-> CASE tier = 0 -> 1 [] tier = 1 -> 2 [] tier = 2 -> 4]
=============================================================================
