-------------------------------- MODULE Api ---------------------------------
(***************************************************************************)
(* The two requests of the REST API that change state: POST /jobs and      *)
(* POST /jobs/{id}/cancel (app/api/v1/jobs.py over app/services).          *)
(*                                                                         *)
(* Each request runs in a session of its own and yields at every await.    *)
(* Idempotency keys are the subject of module Idempotency; a creation here *)
(* is one that inserts a row.                                              *)
(***************************************************************************)
EXTENDS JobStore

CONSTANTS
  Canceller,  \* the cancel requests of a behaviour
  Preloaded   \* jobs whose creation is over before the behaviour starts

ASSUME ApiAssumption == Preloaded \subseteq Job

VARIABLES
  creating,   \* where the request that creates each job stands
  cancelling, \* where each cancel request stands, or how it was answered
  target      \* the job each cancel request is for

apiVars == <<creating, cancelling, target>>

CreateLabel == {"idle", "flushed", "enqueued", "created", "aborted"}

CancelLabel == {"idle", "priority", "retry", "commit",
                "200", "404", "409", "500"}

ApiTypeOK ==
  /\ creating \in [Job -> CreateLabel]
  /\ cancelling \in [Canceller -> CancelLabel]
  /\ target \in [Canceller -> Job]

ApiInit ==
  /\ creating = [j \in Job |-> IF j \in Preloaded THEN "created" ELSE "idle"]
  /\ cancelling = [c \in Canceller |-> "idle"]
  /\ target \in [Canceller -> Job]

(* A cancel request has passed its status check and not committed yet.     *)
Cancelling(c, j) ==
  target[c] = j /\ cancelling[c] \in {"priority", "retry", "commit"}

-----------------------------------------------------------------------------
(* POST /jobs.  flush sends the INSERT: the row has its id but is visible  *)
(* to no one else until the commit, which comes after the push to Redis.   *)

CreateGoto(j, label) == creating' = [creating EXCEPT ![j] = label]

CreateFlush(j) ==
  /\ creating[j] = "idle"
  /\ CreateGoto(j, "flushed")
  /\ UNCHANGED <<storeVars, cancelling, target>>

CreateEnqueue(j) ==
  /\ creating[j] = "flushed"
  /\ enqueue_priority(j)
  /\ CreateGoto(j, "enqueued")
  /\ UNCHANGED <<db, retry, cancelling, target>>

CreateCommit(j) ==
  /\ creating[j] = "enqueued"
  /\ db' = [db EXCEPT ![j] = NewRow]
  /\ CreateGoto(j, "created")
  /\ UNCHANGED <<priority, retry, cancelling, target>>

(* Redis or the database raises: the insert is rolled back, and nothing    *)
(* takes the id out of the queue again.                                    *)
CreateAbort(j) ==
  /\ creating[j] \in {"flushed", "enqueued"}
  /\ CreateGoto(j, "aborted")
  /\ UNCHANGED <<storeVars, cancelling, target>>

-----------------------------------------------------------------------------
(* POST /jobs/{id}/cancel.                                                 *)

CancelGoto(c, label) == cancelling' = [cancelling EXCEPT ![c] = label]

(* The status check and the answers given without touching the job.        *)
CancelReply(status) ==
  CASE status = "absent"       -> "404"
    [] status \in Cancellable  -> "priority"
    [] status = "cancelled"    -> "200"
    [] OTHER                   -> "409"

CancelLoad(c) ==
  /\ cancelling[c] = "idle"
  /\ CancelGoto(c, CancelReply(db[target[c]].status))
  /\ UNCHANGED <<storeVars, creating, target>>

CancelRemovePriority(c) ==
  /\ cancelling[c] = "priority"
  /\ remove_from_priority(target[c])
  /\ CancelGoto(c, "retry")
  /\ UNCHANGED <<db, retry, creating, target>>

CancelRemoveRetry(c) ==
  /\ cancelling[c] = "retry"
  /\ remove_from_retry(target[c])
  /\ CancelGoto(c, "commit")
  /\ UNCHANGED <<db, priority, creating, target>>

CancelCommit(c) ==
  /\ cancelling[c] = "commit"
  /\ db' = [db EXCEPT ![target[c]] = MarkCancelled(@)]
  /\ CancelGoto(c, "200")
  /\ UNCHANGED <<priority, retry, creating, target>>

(* An exception after the status check: the row keeps its status, what was *)
(* removed from the queues stays removed.                                  *)
CancelAbort(c) ==
  /\ cancelling[c] \in {"priority", "retry", "commit"}
  /\ CancelGoto(c, "500")
  /\ UNCHANGED <<storeVars, creating, target>>

-----------------------------------------------------------------------------

CreateStep(j) == CreateFlush(j) \/ CreateEnqueue(j) \/ CreateCommit(j)

CancelStep(c) ==
  \/ CancelLoad(c)
  \/ CancelRemovePriority(c)
  \/ CancelRemoveRetry(c)
  \/ CancelCommit(c)
=============================================================================
