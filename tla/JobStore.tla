------------------------------ MODULE JobStore ------------------------------
(***************************************************************************)
(* The state every process shares: the committed rows of the jobs table in *)
(* PostgreSQL and the queues in Redis, with the commands of app/queue.     *)
(*                                                                         *)
(* queue:priority is the set of its members: its ZPOPMIN order is kept as  *)
(* far as the priority tier decides it and left open inside a tier.        *)
(* queue:retry maps each job to "none" (no member), "waiting" (its score   *)
(* lies in the future) or "due".  queue:fifo has no producer in app/, so   *)
(* its BRPOP always times out and it is not represented.                   *)
(***************************************************************************)
EXTENDS JobRow, FiniteSets

CONSTANTS
  Job,          \* the job ids that can ever exist
  MaxAttempts,  \* max_attempts of each job
  Tier          \* the weight of each job's priority: 0 high, 1 medium, 2 low

ASSUME JobAssumption ==
  /\ MaxAttempts \in [Job -> Nat \ {0}]
  /\ Tier \in [Job -> Nat]

VARIABLES
  db,        \* committed row of each job
  priority,  \* members of queue:priority
  retry      \* state of each job's member of queue:retry

storeVars == <<db, priority, retry>>

RetryState == {"none", "waiting", "due"}

StoreTypeOK ==
  /\ db \in [Job -> Row]
  /\ priority \subseteq Job
  /\ retry \in [Job -> RetryState]

-----------------------------------------------------------------------------

(* ZADD: adding a member that is already there changes its score only.     *)
enqueue_priority(j) == priority' = priority \cup {j}

enqueue_retry(j) == retry' = [retry EXCEPT ![j] = "waiting"]

(* The members ZPOPMIN may return.                                         *)
Foremost == {j \in priority : \A k \in priority : Tier[j] <= Tier[k]}

dequeue_priority(j) ==
  /\ j \in Foremost
  /\ priority' = priority \ {j}

DueJobs == {j \in Job : retry[j] = "due"}

(* ZRANGEBYSCORE -inf now LIMIT 0 limit: all that is due, or limit of it.  *)
DrainBatch(S, limit) ==
  /\ S \subseteq DueJobs
  /\ \/ S = DueJobs /\ Cardinality(S) <= limit
     \/ Cardinality(S) = limit

(* ZREM from each sorted set.                                              *)
remove_from_priority(j) == priority' = priority \ {j}

remove_from_retry(j) == retry' = [retry EXCEPT ![j] = "none"]
=============================================================================
