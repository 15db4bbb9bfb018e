--------------------------- MODULE QueueTheorems ----------------------------
(***************************************************************************)
(* Proofs about Queues: rounding the scores neither mixes the tiers nor    *)
(* reverses two jobs of a tier that are more than a last place apart, and  *)
(* a drain gets as many of the entries that are due as its limit allows.   *)
(***************************************************************************)
EXTENDS Queues, FiniteSetTheorems, TLAPS

(* Rounding moves a time by at most half a last place.                     *)
LEMMA RoundingIsClose ==
  ASSUME NEW t \in Int, NEW q \in Nat \ {0}
  PROVE  /\ Nearest(t, q) \in Int
         /\ 2 * Nearest(t, q) <= 2 * t + q
         /\ 2 * Nearest(t, q) >= 2 * t - q
<1>1. t % q \in 0 .. q - 1
  OBVIOUS
<1>2. CASE RoundsUp(t, q)
  <2>1. 2 * (t % q) >= q
    BY <1>1, <1>2 DEF RoundsUp
  <2>2. Nearest(t, q) = (t - (t % q)) + q
    BY <1>2 DEF Nearest
  <2> QED
    BY <1>1, <2>1, <2>2
<1>3. CASE ~RoundsUp(t, q)
  <2>1. 2 * (t % q) <= q
    BY <1>1, <1>3 DEF RoundsUp
  <2>2. Nearest(t, q) = t - (t % q)
    BY <1>1, <1>3 DEF Nearest
  <2> QED
    BY <1>1, <2>1, <2>2
<1> QED
  BY <1>2, <1>3

(* Scores can be compared.                                                 *)
LEMMA ScoreIsInteger ==
  ASSUME NEW p \in Tiers, NEW t \in Time
  PROVE  priority_score(p, t) \in Int
<1>1. Weight[p] \in Nat /\ Quantum[p] \in Nat \ {0} /\ t \in Int
  BY QueueAssumption DEF Time
<1>2. Nearest(t, Quantum[p]) \in Int
  BY <1>1, RoundingIsClose
<1> QED
  BY <1>1, <1>2 DEF priority_score

(* A score of a higher tier is below every score of a lower one.           *)
LEMMA TiersApart ==
  ASSUME NEW p \in Tiers, NEW q \in Tiers, p < q,
         NEW t \in Time, NEW u \in Time
  PROVE  priority_score(p, t) < priority_score(q, u)
<1>1. /\ Weight[p] \in Nat /\ Weight[q] \in Nat
      /\ Quantum[p] \in Nat \ {0} /\ Quantum[q] \in Nat \ {0}
      /\ Weight[p] + Horizon + Quantum[p] + Quantum[q] < Weight[q]
      /\ Horizon \in Nat
  BY QueueAssumption
<1>2. /\ t \in Int /\ u \in Int /\ t <= Horizon /\ u >= 0
  BY <1>1 DEF Time
<1>3. /\ Nearest(t, Quantum[p]) \in Int
      /\ 2 * Nearest(t, Quantum[p]) <= 2 * t + Quantum[p]
  BY <1>1, <1>2, RoundingIsClose
<1>4. /\ Nearest(u, Quantum[q]) \in Int
      /\ 2 * Nearest(u, Quantum[q]) >= 2 * u - Quantum[q]
  BY <1>1, <1>2, RoundingIsClose
<1> QED
  BY <1>1, <1>2, <1>3, <1>4 DEF priority_score

(* Times more than a last place apart get scores in their order.           *)
LEMMA ScoresFollowTime ==
  ASSUME NEW p \in Tiers, NEW t \in Time, NEW u \in Time, t + Quantum[p] < u
  PROVE  priority_score(p, t) < priority_score(p, u)
<1>1. Weight[p] \in Nat /\ Quantum[p] \in Nat \ {0} /\ Horizon \in Nat
  BY QueueAssumption
<1>2. t \in Int /\ u \in Int
  BY <1>1 DEF Time
<1>3. /\ Nearest(t, Quantum[p]) \in Int
      /\ 2 * Nearest(t, Quantum[p]) <= 2 * t + Quantum[p]
  BY <1>1, <1>2, RoundingIsClose
<1>4. /\ Nearest(u, Quantum[p]) \in Int
      /\ 2 * Nearest(u, Quantum[p]) >= 2 * u - Quantum[p]
  BY <1>1, <1>2, RoundingIsClose
<1> QED
  BY <1>1, <1>2, <1>3, <1>4 DEF priority_score

(* Clock readings and due times stay within their bounds.                  *)
THEOREM TypeCorrect == Spec => []TypeOK
<1>1. Init => TypeOK
  BY QueueAssumption DEF Init, TypeOK, Time, None
<1>2. TypeOK /\ [Next]_vars => TypeOK'
  <2> SUFFICES ASSUME TypeOK, [Next]_vars
               PROVE  TypeOK'
    OBVIOUS
  <2> USE QueueAssumption DEF TypeOK, Time, None
  <2>1. CASE Tick
    BY <2>1 DEF Tick
  <2>2. ASSUME NEW j \in Job, ComputeScore(j)
        PROVE  TypeOK'
    BY <2>2 DEF ComputeScore
  <2>3. ASSUME NEW j \in Job, enqueue_priority(j)
        PROVE  TypeOK'
    BY <2>3 DEF enqueue_priority
  <2>4. ASSUME NEW j \in Job, dequeue_priority(j)
        PROVE  TypeOK'
    BY <2>4 DEF dequeue_priority
  <2>5. ASSUME NEW j \in Job, enqueue_retry(j)
        PROVE  TypeOK'
    BY <2>5 DEF enqueue_retry
  <2>6. ASSUME NEW j \in Job, remove_from_priority(j)
        PROVE  TypeOK'
    BY <2>6 DEF remove_from_priority
  <2>7. ASSUME NEW j \in Job, remove_from_retry(j)
        PROVE  TypeOK'
    BY <2>7 DEF remove_from_retry
  <2>8. CASE UNCHANGED vars
    BY <2>8 DEF vars
  <2> QED
    BY <2>1, <2>2, <2>3, <2>4, <2>5, <2>6, <2>7, <2>8 DEF Next
<1> QED
  BY <1>1, <1>2, PTL DEF Spec

(* ZPOPMIN returns a job of the foremost tier.                             *)
THEOREM TiersAreServedInOrder == Spec => PopsForemost
<1>1. ASSUME TypeOK, NEW j \in Job, dequeue_priority(j)
      PROVE  Store!dequeue_priority(j)
  <2>1. j \in Members /\ added[j] \in Time
    BY <1>1 DEF dequeue_priority, Members, TypeOK
  <2>2. ASSUME NEW k \in Members
        PROVE  Tier[j] <= Tier[k]
    <3>1. k \in Job /\ added[k] \in Time
      BY <1>1 DEF Members, TypeOK
    <3>2. Tier[j] \in Tiers /\ Tier[k] \in Tiers
      BY <3>1, QueueAssumption
    <3>3. SUFFICES ASSUME Tier[k] < Tier[j]
                   PROVE  FALSE
      BY <3>2 DEF Tiers
    <3>4. Score(k) < Score(j)
      BY <2>1, <3>1, <3>2, <3>3, TiersApart DEF Score
    <3>5. k # j
      BY <3>2, <3>3 DEF Tiers
    <3>6. Score(j) \in Int /\ Score(k) \in Int
      BY <2>1, <3>1, <3>2, ScoreIsInteger DEF Score
    <3>7. Precedes(j, k)
      BY <1>1, <2>2, <3>5 DEF dequeue_priority
    <3> QED
      BY <3>4, <3>6, <3>7 DEF Precedes
  <2>3. Members' = Members \ {j}
    BY <1>1 DEF dequeue_priority, Members, TypeOK, None
  <2> QED
    BY <2>1, <2>2, <2>3 DEF Store!dequeue_priority, Store!Foremost
<1>2. TypeOK /\ [Next]_vars =>
        [\A j \in Job : dequeue_priority(j) => Store!dequeue_priority(j)]_vars
  BY <1>1
<1> QED
  BY <1>2, TypeCorrect, PTL DEF Spec, PopsForemost

(* Within a tier, the order of the queue is that of the clock readings but *)
(* for readings within a last place of each other.                         *)
THEOREM TiersAreNearlyFifo == Spec => FifoUpToQuantum
<1>1. ASSUME TypeOK, NEW j \in Job, dequeue_priority(j),
             NEW k \in Overtaken(j, Quantum[Tier[j]])
      PROVE  FALSE
  <2>1. /\ j \in Members /\ added[j] \in Time
        /\ k \in Job /\ k \in Members /\ added[k] \in Time /\ k # j
        /\ Tier[k] = Tier[j]
        /\ added[k] + Quantum[Tier[j]] < added[j]
    BY <1>1 DEF dequeue_priority, Overtaken, Members, TypeOK
  <2>2. Tier[j] \in Tiers
    BY QueueAssumption
  <2>3. Score(k) < Score(j)
    BY <2>1, <2>2, ScoresFollowTime DEF Score
  <2>4. Score(j) \in Int /\ Score(k) \in Int
    BY <2>1, <2>2, ScoreIsInteger DEF Score
  <2>5. Precedes(j, k)
    BY <1>1, <2>1 DEF dequeue_priority
  <2> QED
    BY <2>3, <2>4, <2>5 DEF Precedes
<1>2. TypeOK /\ [Next]_vars =>
        [\A j \in Job :
           dequeue_priority(j) => Overtaken(j, Quantum[Tier[j]]) = {}]_vars
  BY <1>1
<1> QED
  BY <1>2, TypeCorrect, PTL DEF Spec, FifoUpToQuantum

-----------------------------------------------------------------------------
(* The batch of a drain.                                                   *)

(* Of elements that are numbered from 1 on without repetition, as many     *)
(* have a number up to limit.                                              *)
LEMMA FirstNumbers ==
  ASSUME NEW S, IsFiniteSet(S),
         NEW rank \in [S -> 1 .. Cardinality(S)],
         \A x, y \in S : rank[x] = rank[y] => x = y,
         NEW limit \in Nat, limit <= Cardinality(S)
  PROVE  Cardinality({x \in S : rank[x] <= limit}) = limit
<1> DEFINE n == Cardinality(S)
           T == {x \in S : rank[x] <= limit}
           first == [x \in T |-> rank[x]]
<1>1. n \in Nat
  BY FS_CardinalityType
<1>2. /\ IsFiniteSet(1 .. n) /\ Cardinality(1 .. n) = n
      /\ IsFiniteSet(1 .. limit) /\ Cardinality(1 .. limit) = limit
  <2>1. ASSUME NEW m \in Nat
        PROVE  IsFiniteSet(1 .. m) /\ Cardinality(1 .. m) = m
    <3>1. 1 \in Int /\ m \in Int
      OBVIOUS
    <3>2. /\ IsFiniteSet(1 .. m)
          /\ Cardinality(1 .. m) = IF 1 > m THEN 0 ELSE m - 1 + 1
      BY <3>1, FS_Interval
    <3> QED
      BY <3>2
  <2> QED
    BY <1>1, <2>1
<1>3. rank \in Injection(S, 1 .. n)
  BY DEF Injection, IsInjective
<1>4. rank \in Surjection(S, 1 .. n)
  BY <1>2, <1>3, FS_Injection
<1>5. first \in [T -> 1 .. limit]
  BY <1>1
<1>6. first \in Injection(T, 1 .. limit)
  BY <1>5 DEF Injection, IsInjective
<1>7. ASSUME NEW u \in 1 .. limit PROVE \E x \in T : first[x] = u
  <2>1. PICK x \in S : rank[x] = u
    BY <1>1, <1>4 DEF Surjection
  <2> QED
    BY <2>1
<1>8. first \in Surjection(T, 1 .. limit)
  BY <1>5, <1>7 DEF Surjection
<1> HIDE DEF T, first
<1>9. Cardinality(T) = Cardinality(1 .. limit)
  BY <1>2, <1>6, <1>8, FS_Injection
<1> QED
  BY <1>2, <1>9 DEF T

(* Of two entries that are due one comes before the other, and so does     *)
(* everything that comes before it.                                        *)
LEMMA DueInOrder ==
  ASSUME TypeOK, NEW j \in Due, NEW k \in Due, j # k
  PROVE  Cardinality(DueBefore(j)) # Cardinality(DueBefore(k))
<1>1. IsFiniteSet(Due) /\ Due \subseteq Job
  BY QueueAssumption, FS_Subset DEF Due
<1>2. \A i \in Due : i \in Nat /\ retryAt[i] \in Int
  BY <1>1, QueueAssumption DEF TypeOK, None
<1>3. ASSUME NEW a \in Due, NEW b \in Due, a \in DueBefore(b)
      PROVE  Cardinality(DueBefore(a)) # Cardinality(DueBefore(b))
  <2>1. DueBefore(a) \subseteq DueBefore(b)
    BY <1>2, <1>3 DEF DueBefore
  <2>2. a \notin DueBefore(a)
    BY <1>2 DEF DueBefore
  <2>3. IsFiniteSet(DueBefore(b))
    BY <1>1, FS_Subset DEF DueBefore
  <2> QED
    BY <1>3, <2>1, <2>2, <2>3, FS_Subset
<1>4. j \in DueBefore(k) \/ k \in DueBefore(j)
  BY <1>2 DEF DueBefore
<1> QED
  BY <1>3, <1>4

(* Each entry that is due has fewer before it than there are entries.      *)
LEMMA DuePlaces ==
  ASSUME TypeOK, NEW j \in Due
  PROVE  /\ Cardinality(DueBefore(j)) \in Nat
         /\ Cardinality(DueBefore(j)) < Cardinality(Due)
<1>1. IsFiniteSet(Due) /\ Due \subseteq Job
  BY QueueAssumption, FS_Subset DEF Due
<1>2. DueBefore(j) \subseteq Due
  BY DEF DueBefore
<1>3. j \in Nat /\ retryAt[j] \in Int
  BY <1>1, QueueAssumption DEF TypeOK, None
<1>4. j \notin DueBefore(j)
  BY <1>3 DEF DueBefore
<1>5. /\ IsFiniteSet(DueBefore(j))
      /\ Cardinality(DueBefore(j)) <= Cardinality(Due)
      /\ Cardinality(DueBefore(j)) # Cardinality(Due)
  BY <1>1, <1>2, <1>4, FS_Subset
<1> QED
  BY <1>1, <1>5, FS_CardinalityType

(* What ZRANGEBYSCORE returns to _drain_due_retries is all that is due, or *)
(* exactly DrainLimit of it: what the models of the worker assume of it.   *)
THEOREM DrainsTakeFullBatches == Spec => []BatchIsDrainBatch
<1>1. ASSUME TypeOK
      PROVE  BatchIsDrainBatch
  <2> DEFINE rank == [j \in Due |-> Cardinality(DueBefore(j)) + 1]
             n == Cardinality(Due)
  <2>1. IsFiniteSet(Due) /\ n \in Nat
    BY QueueAssumption, FS_Subset, FS_CardinalityType DEF Due
  <2>2. \A j \in Due : Cardinality(DueBefore(j)) \in Nat
                       /\ Cardinality(DueBefore(j)) < n
    BY <1>1, DuePlaces
  <2>3. /\ rank \in [Due -> 1 .. n]
        /\ \A j, k \in Due : rank[j] = rank[k] => j = k
    BY <1>1, <2>1, <2>2, DueInOrder
  <2>4. DrainLimit \in Nat
    BY QueueAssumption
  <2>5. Batch = {j \in Due : rank[j] <= DrainLimit}
    BY <2>2, <2>4 DEF Batch
  <2>6. Store!DueJobs = Due
    BY DEF Store!DueJobs, Due
  <2> HIDE DEF rank
  <2>7. Store!Cardinality(Batch) = Cardinality(Batch)
    BY DEF Store!Cardinality, Cardinality
  <2>8. CASE n <= DrainLimit
    <3>1. Batch = Due
      BY <2>1, <2>3, <2>4, <2>5, <2>8
    <3> QED
      BY <2>6, <2>8, <2>7, <3>1 DEF BatchIsDrainBatch, Store!DrainBatch
  <2>9. CASE DrainLimit <= n
    <3>1. Cardinality(Batch) = DrainLimit
      BY <2>1, <2>3, <2>4, <2>5, <2>9, FirstNumbers
    <3>2. Batch \subseteq Due
      BY DEF Batch
    <3> QED
      BY <2>6, <2>7, <3>1, <3>2 DEF BatchIsDrainBatch, Store!DrainBatch
  <2> QED
    BY <2>1, <2>4, <2>8, <2>9
<1> QED
  BY <1>1, TypeCorrect, PTL
=============================================================================
