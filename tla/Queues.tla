------------------------------- MODULE Queues -------------------------------
(***************************************************************************)
(* The sorted sets queue:priority and queue:retry with their scores        *)
(* (app/queue): the order that JobStore keeps only in part.                *)
(*                                                                         *)
(* A score of queue:priority is a double: the weight of the tier plus the  *)
(* time divided by 1e12.  Near a weight W a double has a last place of its *)
(* own, and times that differ by less than it get the same score, or the   *)
(* next one.  Time is counted in ticks; Quantum says how many ticks the    *)
(* last place spans: 0.24 us for high, 2^-43 * 1e12 s = 0.11 s for medium, *)
(* 0.23 s for low.  Members with equal scores are ordered by their ids.    *)
(*                                                                         *)
(* The clock is read when the score is computed and the command reaches    *)
(* Redis later: a push is two steps.  Pushes come from creations and from  *)
(* the requeue of due retries, retry entries from handle_failure and from  *)
(* recovery, and removals from cancellations and drains.                   *)
(***************************************************************************)
EXTENDS Integers, FiniteSets

CONSTANTS
  Job,         \* the job ids, as numbers in the order of their text
  Tier,        \* 0 high, 1 medium, 2 low
  Retried,     \* the jobs with more than one attempt
  Weight,      \* _PRIORITY_WEIGHTS, in ticks of the score
  Quantum,     \* ticks spanned by the last place of a score of each tier
  Horizon,     \* bound on the clock
  MaxDelay,    \* longest backoff
  DrainLimit   \* most entries a drain takes up: 10 in the code

Tiers == 0 .. 2

ASSUME QueueAssumption ==
  /\ Job \subseteq Nat /\ IsFiniteSet(Job)
  /\ Tier \in [Job -> Tiers]
  /\ Retried \subseteq Job
  /\ Weight \in [Tiers -> Nat]
  /\ Quantum \in [Tiers -> Nat \ {0}]
  /\ Horizon \in Nat /\ MaxDelay \in Nat /\ DrainLimit \in Nat \ {0}
  /\ \A p, q \in Tiers : p < q =>
        Weight[p] + Horizon + Quantum[p] + Quantum[q] < Weight[q]

VARIABLES
  clock,     \* time.time()
  reading,   \* clock reading of a ZADD to queue:priority that is on its way
  added,     \* clock reading in the score of a member of queue:priority
  retryAt    \* score of a member of queue:retry

vars == <<clock, reading, added, retryAt>>

None == -1

Time == 0 .. Horizon

TypeOK ==
  /\ clock \in Time
  /\ reading \in [Job -> Time \cup {None}]
  /\ added \in [Job -> Time \cup {None}]
  /\ retryAt \in [Job -> (0 .. Horizon + MaxDelay) \cup {None}]

Init ==
  /\ clock = 0
  /\ reading = [j \in Job |-> None]
  /\ added = [j \in Job |-> None]
  /\ retryAt = [j \in Job |-> None]

-----------------------------------------------------------------------------
(* The score.                                                              *)

(* Rounding to the nearest multiple of q, ties to the even one.            *)
RoundsUp(t, q) ==
  \/ 2 * (t % q) > q
  \/ 2 * (t % q) = q /\ (t \div q) % 2 = 1

Nearest(t, q) == (t - (t % q)) + (IF RoundsUp(t, q) THEN q ELSE 0)

(* Faulty variants: a time that is not scaled down; a time lost in the     *)
(* rounding of a single-precision float.                                   *)
UnscaledScore(tier, t) == Weight[tier] + 10 * t

SingleScore(tier, t) == Weight[tier]

priority_score(tier, t) == Weight[tier] + Nearest(t, Quantum[tier])

Score(j) == priority_score(Tier[j], added[j])

Members == {j \in Job : added[j] # None}

(* Order of the members: by score, then by id.                             *)
Precedes(j, k) ==
  \/ Score(j) < Score(k)
  \/ Score(j) = Score(k) /\ j < k

-----------------------------------------------------------------------------

Tick ==
  /\ clock < Horizon
  /\ clock' = clock + 1
  /\ UNCHANGED <<reading, added, retryAt>>

ComputeScore(j) ==
  /\ reading[j] = None
  /\ reading' = [reading EXCEPT ![j] = clock]
  /\ UNCHANGED <<clock, added, retryAt>>

enqueue_priority(j) ==
  /\ reading[j] # None
  /\ added' = [added EXCEPT ![j] = reading[j]]
  /\ reading' = [reading EXCEPT ![j] = None]
  /\ UNCHANGED <<clock, retryAt>>

(* ZPOPMIN.                                                                *)
dequeue_priority(j) ==
  /\ j \in Members
  /\ \A k \in Members \ {j} : Precedes(j, k)
  /\ added' = [added EXCEPT ![j] = None]
  /\ UNCHANGED <<clock, reading, retryAt>>

(* Faulty variant: the delay is added twice.                               *)
RetryInDoubleTime(j) ==
  /\ j \in Retried
  /\ \E delay \in 1 .. MaxDelay :
       retryAt' = [retryAt EXCEPT ![j] = clock + 2 * delay]
  /\ UNCHANGED <<clock, reading, added>>

enqueue_retry(j) ==
  /\ j \in Retried
  /\ \E delay \in 1 .. MaxDelay : retryAt' = [retryAt EXCEPT ![j] = clock + delay]
  /\ UNCHANGED <<clock, reading, added>>

remove_from_priority(j) ==
  /\ added' = [added EXCEPT ![j] = None]
  /\ UNCHANGED <<clock, reading, retryAt>>

(* ZREM of a cancellation, or of a drain that claims the entry.            *)
remove_from_retry(j) ==
  /\ retryAt' = [retryAt EXCEPT ![j] = None]
  /\ UNCHANGED <<clock, reading, added>>

Next ==
  \/ Tick
  \/ \E j \in Job :
       \/ ComputeScore(j)
       \/ enqueue_priority(j)
       \/ dequeue_priority(j)
       \/ enqueue_retry(j)
       \/ remove_from_priority(j)
       \/ remove_from_retry(j)

Spec == Init /\ [][Next]_vars

-----------------------------------------------------------------------------
(* ZRANGEBYSCORE -inf now LIMIT 0 limit: the entries that are due, in the  *)
(* order of their scores, up to the limit.                                 *)

Due == {j \in Job : retryAt[j] # None /\ retryAt[j] <= clock}

DueBefore(j) ==
  {k \in Due : retryAt[k] < retryAt[j] \/ (retryAt[k] = retryAt[j] /\ k < j)}

(* Faulty variant: the limit is off by one.                                *)
ShortBatch == {j \in Due : Cardinality(DueBefore(j)) < DrainLimit - 1}

Batch == {j \in Due : Cardinality(DueBefore(j)) < DrainLimit}

-----------------------------------------------------------------------------
(* What JobStore says of the queues holds of the scores.                   *)

Store == INSTANCE JobStore WITH
  MaxAttempts <- [j \in Job |-> 1],
  db          <- [j \in Job |-> "unused"],
  priority    <- Members,
  retry       <- [j \in Job |-> IF retryAt[j] = None THEN "none"
                                ELSE IF retryAt[j] <= clock THEN "due"
                                ELSE "waiting"]

(* ZPOPMIN returns a member of the foremost tier, however long another one *)
(* has been waiting (test_priority.py:39-47).                              *)
PopsForemost ==
  [][\A j \in Job : dequeue_priority(j) => Store!dequeue_priority(j)]_vars

(* What a drain reads is one of the batches JobStore allows it.            *)
BatchIsDrainBatch == Store!DrainBatch(Batch, DrainLimit)

(* A job of j's tier that waits, and whose clock was read before j's by    *)
(* more than the given number of ticks.                                    *)
Overtaken(j, ticks) ==
  {k \in Members \ {j} : Tier[k] = Tier[j] /\ added[k] + ticks < added[j]}

(* keys.py:18: within a tier, a job is taken before another one only if    *)
(* its score was computed earlier, or less than a last place later.        *)
FifoUpToQuantum ==
  [][\A j \in Job : dequeue_priority(j) => Overtaken(j, Quantum[Tier[j]]) = {}]_vars

(* README.md:404: the timestamp provides FIFO ordering within the same     *)
(* priority level.                                                         *)
FifoWithinTier ==
  [][\A j \in Job : dequeue_priority(j) => Overtaken(j, 0) = {}]_vars
=============================================================================
