---------------------------- MODULE GaugeTheorems ----------------------------
(***************************************************************************)
(* Proofs about Gauges: no gauge is left behind by more than the rounds    *)
(* that failed, the API's three are always of one round, and a scrape of a *)
(* worker falls short in the beginning only.                               *)
(***************************************************************************)
EXTENDS Gauges, TLAPS, FiniteSetTheorems

(* What the poller is known to have done: how far a round has come decides *)
(* which lengths are its own, and what an earlier round has left behind    *)
(* was left by a round that failed.                                        *)
RoundOK ==
  /\ failed \subseteq 1 .. round
  /\ next \in Keys => round \notin failed
  /\ \A k \in Keys : state[k] <= round

SetOK ==
  round \notin failed =>
    \A k \in Keys : k < next =>
      /\ process = "worker" \/ next = 4 => state[k] = round
      /\ process = "api" => depths[k] = round

BehindOK ==
  \A k \in Keys : \A r \in 1 .. MaxRound :
    state[k] < r /\ r < round => r \in failed

TogetherOK == process = "api" => \A i, k \in Keys : state[i] = state[k]

PollInv == TypeOK /\ RoundOK /\ SetOK /\ BehindOK /\ TogetherOK

(* A walk is of a worker.  One that began when a round had gone well has   *)
(* all three keys before it, and has yielded those it has passed.          *)
WalkOK ==
  walk # 0 =>
    /\ process = "worker"
    /\ began <= round
    /\ ~(1 .. began - 1 \subseteq failed) =>
         /\ size = 3
         /\ \A k \in Keys : state[k] # 0
         /\ \A k \in Keys : k < walk => seen[k] # 0

GaugeInv == PollInv /\ WalkOK

-----------------------------------------------------------------------------
(* The size of the dict.                                                   *)

(* There are at most three gauges, and three when none is missing.         *)
LEMMA SizeOfDict ==
  /\ Size \in 0 .. 3
  /\ (\A k \in Keys : state[k] # 0) => Size = 3
<1> DEFINE Present == {k \in Keys : state[k] # 0}
<1>1. IsFiniteSet(Keys) /\ Cardinality(Keys) = 3
  <2>1. IsFiniteSet(1 .. 3) /\ Cardinality(1 .. 3) = 3 - 1 + 1
    BY FS_Interval, 1 \in Int, 3 \in Int, ~(1 > 3)
  <2> QED
    BY <2>1 DEF Keys
<1>2. /\ IsFiniteSet(Present)
      /\ Cardinality(Present) <= 3
  BY <1>1, FS_Subset, Present \subseteq Keys
<1>3. Cardinality(Present) \in Nat
  BY <1>2, FS_CardinalityType
<1>4. (\A k \in Keys : state[k] # 0) => Present = Keys
  OBVIOUS
<1> QED
  BY <1>1, <1>2, <1>3, <1>4 DEF Size

-----------------------------------------------------------------------------
(* The poller's invariant is inductive, and the walk changes none of it.   *)

(* A step of the poller or of a walk keeps the variables in their types.   *)
LEMMA TypeStep ==
  ASSUME TypeOK, [Next]_vars
  PROVE  TypeOK'
<1> USE GaugeAssumption DEF TypeOK, Keys, pollVars, walkVars
<1>1. CASE ReadAndSet
  BY <1>1 DEF ReadAndSet, set_gauge
<1>2. CASE ReadAll
  BY <1>2 DEF ReadAll
<1>3. CASE ReadFails
  BY <1>3 DEF ReadFails
<1>4. CASE NextRound
  BY <1>4 DEF NextRound, Nothing
<1>5. CASE WalkAtOnce
  BY <1>5 DEF WalkAtOnce
<1>6. CASE WalkBegins
  BY <1>6, SizeOfDict DEF WalkBegins, Nothing
<1>7. CASE WalkItem
  BY <1>7 DEF WalkItem
<1>8. CASE UNCHANGED vars
  BY <1>8 DEF vars
<1> QED
  BY <1>1, <1>2, <1>3, <1>4, <1>5, <1>6, <1>7, <1>8 DEF Next

(* A worker's poller sets the gauge it has read to the round it is in.     *)
LEMMA ReadAndSetStep ==
  ASSUME PollInv, ReadAndSet
  PROVE  (RoundOK /\ SetOK /\ BehindOK /\ TogetherOK)'
<1> USE DEF PollInv, TypeOK, Keys, ReadAndSet, set_gauge
<1>1. RoundOK'
  BY DEF RoundOK
<1>2. SetOK'
  BY DEF SetOK
<1>3. BehindOK'
  BY DEF BehindOK, RoundOK
<1>4. TogetherOK'
  BY DEF TogetherOK
<1> QED
  BY <1>1, <1>2, <1>3, <1>4

(* The API's poller holds what it has read until it has all three.         *)
LEMMA ReadAllStep ==
  ASSUME PollInv, ReadAll
  PROVE  (RoundOK /\ SetOK /\ BehindOK /\ TogetherOK)'
<1> USE DEF PollInv, TypeOK, Keys, ReadAll
<1>1. round \notin failed
  BY DEF RoundOK
<1>2. CASE next = 3
  <2>1. state' = depths' /\ \A k \in Keys : state'[k] = round
    BY <1>1, <1>2 DEF SetOK
  <2> QED
    BY <1>1, <1>2, <2>1 DEF RoundOK, SetOK, BehindOK, TogetherOK
<1>3. CASE next # 3
  <2>1. UNCHANGED <<state, process, round, failed>> /\ next' \in 2 .. 3
    BY <1>3
  <2>2. RoundOK' /\ BehindOK' /\ TogetherOK'
    BY <2>1, <1>1 DEF RoundOK, BehindOK, TogetherOK
  <2>3. SetOK'
    BY <2>1, <1>1 DEF SetOK
  <2> QED
    BY <2>2, <2>3
<1> QED
  BY <1>2, <1>3

(* A round that fails leaves the gauges as they are.                       *)
LEMMA ReadFailsStep ==
  ASSUME PollInv, ReadFails
  PROVE  (RoundOK /\ SetOK /\ BehindOK /\ TogetherOK)'
  BY DEF PollInv, TypeOK, Keys, ReadFails, RoundOK, SetOK, BehindOK, TogetherOK

(* The round that ends has set every gauge or has failed.                  *)
LEMMA NextRoundStep ==
  ASSUME PollInv, NextRound
  PROVE  (RoundOK /\ SetOK /\ BehindOK /\ TogetherOK)'
<1> USE DEF PollInv, TypeOK, Keys, NextRound
<1>1. RoundOK'
  BY DEF RoundOK
<1>2. SetOK'
  BY DEF SetOK
<1>3. BehindOK'
  <2> SUFFICES ASSUME NEW k \in Keys, NEW r \in 1 .. MaxRound,
                      state[k] < r, r < round + 1
               PROVE  r \in failed
    BY DEF BehindOK
  <2>1. CASE r < round
    BY <2>1 DEF BehindOK
  <2>2. CASE r = round
    BY <2>2 DEF SetOK
  <2> QED
    BY <2>1, <2>2
<1>4. TogetherOK'
  BY DEF TogetherOK
<1> QED
  BY <1>1, <1>2, <1>3, <1>4

(* PollInv is kept by every step.                                          *)
LEMMA PollInductive ==
  ASSUME PollInv, [Next]_vars
  PROVE  PollInv'
<1>1. TypeOK'
  BY TypeStep DEF PollInv
<1>2. CASE UNCHANGED pollVars
  BY <1>1, <1>2 DEF PollInv, pollVars, RoundOK, SetOK, BehindOK, TogetherOK
<1>3. CASE WalkAtOnce \/ WalkBegins \/ WalkItem \/ UNCHANGED vars
  BY <1>2, <1>3 DEF WalkAtOnce, WalkBegins, WalkItem, vars, pollVars
<1> QED
  BY <1>1, <1>3, ReadAndSetStep, ReadAllStep, ReadFailsStep, NextRoundStep
  DEF Next, PollInv

-----------------------------------------------------------------------------
(* The walks.                                                              *)

(* Once a round has gone well every gauge is there: one that is missing    *)
(* would be behind that round.                                             *)
LEMMA ThereAfterGoodRound ==
  ASSUME PollInv, ~(1 .. round - 1 \subseteq failed)
  PROVE  \A k \in Keys : state[k] # 0
<1>1. PICK r \in 1 .. round - 1 : r \notin failed
  OBVIOUS
<1>2. r \in 1 .. MaxRound /\ r < round
  BY <1>1, GaugeAssumption DEF PollInv, TypeOK
<1>3. SUFFICES ASSUME NEW k \in Keys, state[k] = 0
               PROVE  FALSE
  OBVIOUS
<1> QED
  BY <1>1, <1>2, <1>3 DEF PollInv, BehindOK

(* WalkOK is kept by every step: no step of a poller takes a gauge away,   *)
(* so that the dict has the same size all through the walk.                *)
LEMMA WalkInductive ==
  ASSUME GaugeInv, [Next]_vars
  PROVE  WalkOK'
<1> USE GaugeAssumption DEF GaugeInv, PollInv, TypeOK, Keys
<1>1. CASE ReadAndSet
  BY <1>1 DEF ReadAndSet, set_gauge, WalkOK, walkVars
<1>2. CASE ReadAll
  BY <1>2 DEF ReadAll, WalkOK, walkVars
<1>3. CASE ReadFails
  BY <1>3 DEF ReadFails, WalkOK, walkVars
<1>4. CASE NextRound
  BY <1>4 DEF NextRound, WalkOK, walkVars
<1>5. CASE WalkAtOnce
  BY <1>5 DEF WalkAtOnce, WalkOK, pollVars
<1>6. CASE WalkBegins
  <2>1. ~(1 .. round - 1 \subseteq failed) =>
          Size = 3 /\ \A k \in Keys : state[k] # 0
    BY ThereAfterGoodRound, SizeOfDict
  <2> QED
    BY <1>6, <2>1 DEF WalkBegins, WalkOK, pollVars
<1>7. CASE WalkItem
  BY <1>7 DEF WalkItem, WalkOK, pollVars
<1>8. CASE UNCHANGED vars
  BY <1>8 DEF vars, WalkOK
<1> QED
  BY <1>1, <1>2, <1>3, <1>4, <1>5, <1>6, <1>7, <1>8 DEF Next

(* GaugeInv holds all along.                                               *)
LEMMA GaugeInvariance == Spec => []GaugeInv
<1>1. Init => GaugeInv
  BY GaugeAssumption
  DEF Init, GaugeInv, PollInv, TypeOK, RoundOK, SetOK, BehindOK, TogetherOK,
      WalkOK, Keys, Nothing
<1>2. GaugeInv /\ [Next]_vars => GaugeInv'
  BY PollInductive, WalkInductive DEF GaugeInv
<1> QED
  BY <1>1, <1>2, PTL DEF Spec

-----------------------------------------------------------------------------

(* The variables keep their types.                                         *)
THEOREM TypeCorrect == Spec => []TypeOK
  BY GaugeInvariance, PTL DEF GaugeInv, PollInv

(* For any number of rounds: the API's three lengths are of one round, and *)
(* a gauge lags behind by failed rounds alone                              *)
(* (_poll_queue_depths of app/main.py, _poll_queues_and_pools of           *)
(* app/worker/main.py).                                                    *)
THEOREM NoGaugeLeftBehind == Spec => []GaugesKeepUp
<1>1. GaugeInv => GaugesKeepUp
  BY DEF GaugeInv, PollInv, TogetherOK, BehindOK, GaugesKeepUp
<1> QED
  BY <1>1, GaugeInvariance, PTL

(* A worker's scrape lacks a gauge only while no round has gone well: the  *)
(* walk of the thread that serves /metrics meets a dict of three keys from *)
(* then on.                                                                *)
THEOREM FullAfterFirstGoodRound == Spec => ShortAtFirstOnly
<1> DEFINE Short == walk # 0 /\ walk' = 0 /\ (\E k \in Keys : seen'[k] = 0)
<1>1. ASSUME GaugeInv, [Next]_vars, Short, ~(1 .. began - 1 \subseteq failed)
      PROVE  FALSE
  <2> USE DEF GaugeInv, PollInv, TypeOK, Keys
  <2>1. walk \in Keys /\ process = "worker"
    BY <1>1 DEF WalkOK
  <2>2. WalkItem
    BY <1>1, <2>1
    DEF Next, ReadAndSet, ReadAll, ReadFails, NextRound, WalkAtOnce,
        WalkBegins, vars, walkVars
  <2>3. Size = size /\ walk <= size
    BY <1>1, <2>1, SizeOfDict DEF WalkOK
  <2>4. walk = 3 /\ seen' = [seen EXCEPT ![3] = state[3]]
    BY <1>1, <2>1, <2>2, <2>3 DEF WalkItem
  <2>5. \A k \in Keys : seen'[k] # 0
    BY <1>1, <2>1, <2>4 DEF WalkOK
  <2> QED
    BY <1>1, <2>5
<1>2. GaugeInv /\ [Next]_vars =>
        [walk # 0 /\ walk' = 0 /\ (\E k \in Keys : seen'[k] = 0)
           => 1 .. began - 1 \subseteq failed]_vars
  BY <1>1
<1> QED
  BY <1>2, GaugeInvariance, PTL DEF Spec, ShortAtFirstOnly
=============================================================================
