------------------------------- MODULE Gauges --------------------------------
(***************************************************************************)
(* The gauge jobqueue_queue_depth: a background task of each process reads *)
(* the lengths of the three queues every 15 seconds into a dict            *)
(* (_poll_queue_depths of app/main.py, _poll_queues_and_pools of           *)
(* app/worker/main.py, set_gauge of app/core/telemetry.py), and a scrape   *)
(* walks through the dict.                                                 *)
(*                                                                         *)
(* The API reads all three and then sets all three, and serves /metrics on *)
(* the event loop: a walk sees no set in between.  The worker sets each    *)
(* one as it is read, and serves from a thread of its own, which may stop  *)
(* at every item.  A length is represented by the number of the round that *)
(* has read it.  db_pool_size is filled the same way, without awaits.      *)
(***************************************************************************)
EXTENDS Naturals, FiniteSets

CONSTANT
  MaxRound  \* bound on the rounds of the poller

ASSUME GaugeAssumption == MaxRound \in Nat \ {0}

(* The keys in the order in which they are read and inserted.              *)
Keys == 1 .. 3

VARIABLES
  process, \* "api" or "worker"
  round,   \* the round the poller is in
  next,    \* the key it reads next, 4 when it sleeps
  depths,  \* what the round has read and not set yet, 0 where it has nothing
  state,   \* _gauge_state["queue_depth"], 0 for a key that is not there
  failed,  \* the rounds that were cut short by an error
  walk,    \* the key a walk comes to next, 0 when none is under way
  size,    \* how many keys there were when the walk began
  seen,    \* what the walk has yielded so far
  began    \* history: the round in which the walk began

vars == <<process, round, next, depths, state, failed, walk, size, seen, began>>

pollVars == <<process, round, next, depths, state, failed>>

walkVars == <<walk, size, seen, began>>

Nothing == [k \in Keys |-> 0]

TypeOK ==
  /\ process \in {"api", "worker"}
  /\ round \in 1 .. MaxRound
  /\ next \in 1 .. 4
  /\ {depths, state, seen} \subseteq [Keys -> 0 .. MaxRound]
  /\ failed \subseteq 1 .. MaxRound
  /\ walk \in 0 .. 3
  /\ size \in 0 .. 3
  /\ began \in 0 .. MaxRound

Init ==
  /\ process \in {"api", "worker"}
  /\ round = 1
  /\ next = 1
  /\ depths = Nothing
  /\ state = Nothing
  /\ failed = {}
  /\ walk = 0
  /\ size = 0
  /\ seen = Nothing
  /\ began = 0

Size == Cardinality({k \in Keys : state[k] # 0})

-----------------------------------------------------------------------------
(* The poller.                                                             *)

set_gauge(k, value) == state' = [state EXCEPT ![k] = value]

(* The worker: zcard or llen, and set_gauge with its answer.               *)
ReadAndSet ==
  /\ process = "worker"
  /\ next \in Keys
  /\ set_gauge(next, round)
  /\ next' = next + 1
  /\ UNCHANGED <<process, round, depths, failed, walkVars>>

(* Faulty variant: each value is set as it is read.                        *)
ReadAllEagerly ==
  /\ process = "api"
  /\ next \in Keys
  /\ set_gauge(next, round)
  /\ next' = next + 1
  /\ UNCHANGED <<process, round, depths, failed, walkVars>>

(* The API: the third answer is followed by the three set_gauge.           *)
ReadAll ==
  /\ process = "api"
  /\ next \in Keys
  /\ depths' = [depths EXCEPT ![next] = round]
  /\ state' = IF next = 3 THEN depths' ELSE state
  /\ next' = next + 1
  /\ UNCHANGED <<process, round, failed, walkVars>>

(* Faulty variant: a gauge that cannot be read is taken out of the dict.   *)
ReadFailsClearing ==
  /\ next \in Keys
  /\ failed' = failed \cup {round}
  /\ next' = 4
  /\ set_gauge(next, 0)
  /\ UNCHANGED <<process, round, depths, walkVars>>

(* except Exception: pass.                                                 *)
ReadFails ==
  /\ next \in Keys
  /\ failed' = failed \cup {round}
  /\ next' = 4
  /\ UNCHANGED <<process, round, depths, state, walkVars>>

(* asyncio.sleep(interval) ends.                                           *)
NextRound ==
  /\ next = 4
  /\ round < MaxRound
  /\ round' = round + 1
  /\ next' = 1
  /\ depths' = Nothing
  /\ UNCHANGED <<process, state, failed, walkVars>>

-----------------------------------------------------------------------------
(* A scrape.                                                               *)

WalkAtOnce ==
  /\ process = "api"
  /\ seen' = state
  /\ UNCHANGED <<pollVars, walk, size, began>>

WalkBegins ==
  /\ process = "worker"
  /\ walk = 0
  /\ walk' = 1
  /\ size' = Size
  /\ began' = round
  /\ seen' = Nothing
  /\ UNCHANGED pollVars

(* A dict that has grown since makes its iterator raise; the SDK logs it   *)
(* and goes on with what the callback has yielded.                         *)
WalkItem ==
  /\ walk \in Keys
  /\ IF Size = size /\ walk <= size
       THEN /\ seen' = [seen EXCEPT ![walk] = state[walk]]
            /\ walk' = (walk + 1) % 4
       ELSE walk' = 0 /\ UNCHANGED seen
  /\ UNCHANGED <<pollVars, size, began>>

-----------------------------------------------------------------------------

Next ==
  \/ ReadAndSet
  \/ ReadAll
  \/ ReadFails
  \/ NextRound
  \/ WalkAtOnce
  \/ WalkBegins
  \/ WalkItem

Spec == Init /\ [][Next]_vars

-----------------------------------------------------------------------------

(* The API reports the three lengths of one and the same round.  Neither   *)
(* process reports a length older than another but for the round under way *)
(* and the rounds that failed: no gauge is left behind for good.           *)
GaugesKeepUp ==
  /\ process = "api" => \A i, k \in Keys : state[i] = state[k]
  /\ \A k \in Keys : \A r \in 1 .. MaxRound :
       state[k] < r /\ r < round => r \in failed

(* A scrape of a worker comes out short, or fails half way, until the      *)
(* first round that did not fail has ended, and never after.               *)
ShortAtFirstOnly ==
  [][walk # 0 /\ walk' = 0 /\ (\E k \in Keys : seen'[k] = 0)
       => 1 .. began - 1 \subseteq failed]_vars
=============================================================================
