------------------------------- MODULE Worker -------------------------------
(***************************************************************************)
(* The loop of a worker process (app/worker/loop.py).                      *)
(*                                                                         *)
(* A worker is one coroutine.  It yields at every Redis command and at     *)
(* every statement of a database session, and the other workers and the    *)
(* API run in between; pc[w] names the await worker w stands at.  A        *)
(* session is two steps: the load keeps the row in session[w] (the ORM     *)
(* identity map), the commit writes the changed columns over the row       *)
(* stored by then.  Rows are never deleted, so the "is None" exits after   *)
(* an execution (lines 53 and 245) cannot be taken and have no action.     *)
(***************************************************************************)
EXTENDS JobStore

CONSTANTS
  Worker,     \* the worker processes
  NoJob,      \* held[w] of a worker that has no job in hand
  DrainLimit, \* most retries taken up in one round: 10 in the code
  Unregistered, \* jobs for whose type get_executor may raise
  MaxFaults   \* bound on the faults injected in a behaviour

ASSUME WorkerAssumption ==
  /\ NoJob \notin Job
  /\ DrainLimit \in Nat \ {0}
  /\ MaxFaults \in Nat

VARIABLES
  pc,       \* where each worker stands
  todo,     \* ids read but not yet dealt with: due retries, or stuck jobs
  claimed,  \* ids the worker took out of queue:retry and has to requeue
  held,     \* the job in hand
  session,  \* rows loaded by the worker's open session
  faults    \* faults injected so far

workerVars == <<pc, todo, claimed, held, session>>

RecoveryLabel == {"select", "recover", "recover_commit"}

LoopLabel ==
  {"drain", "claim", "requeue", "requeue_add", "dequeue", "load", "begin",
   "execute", "finish_load", "finish_commit",
   "fail_load", "enqueue_retry", "fail_commit"}

Label == {"down"} \cup RecoveryLabel \cup LoopLabel

NoSession == [j \in Job |-> NoRow]

WorkerTypeOK ==
  /\ pc \in [Worker -> Label]
  /\ todo \in [Worker -> SUBSET Job]
  /\ claimed \in [Worker -> SUBSET Job]
  /\ held \in [Worker -> Job \cup {NoJob}]
  /\ session \in [Worker -> [Job -> Row]]
  /\ faults \in 0 .. MaxFaults

WorkerInit ==
  /\ pc = [w \in Worker |-> "down"]
  /\ todo = [w \in Worker |-> {}]
  /\ claimed = [w \in Worker |-> {}]
  /\ held = [w \in Worker |-> NoJob]
  /\ session = [w \in Worker |-> NoSession]
  /\ faults = 0

(* Between the commit that starts an execution and the end of the session  *)
(* that records its outcome.                                               *)
WorkLabel == {"execute", "finish_load", "finish_commit",
              "fail_load", "enqueue_retry", "fail_commit"}

Working(w, j) == held[w] = j /\ pc[w] \in WorkLabel

-----------------------------------------------------------------------------

Goto(w, label) == pc' = [pc EXCEPT ![w] = label]

(* Local variables go out of scope, an open session is rolled back.        *)
Leave(w, label) ==
  /\ Goto(w, label)
  /\ todo' = [todo EXCEPT ![w] = {}]
  /\ claimed' = [claimed EXCEPT ![w] = {}]
  /\ held' = [held EXCEPT ![w] = NoJob]
  /\ session' = [session EXCEPT ![w] = NoSession]

NextRound(w) == Leave(w, "drain")

Loaded(w) == session[w][held[w]]

Load(w) == session' = [session EXCEPT ![w][held[w]] = db[held[w]]]

(* What follows the drain: the requeue loop until no claimed id is left.   *)
AfterClaim(ids) == IF ids = {} THEN "dequeue" ELSE "requeue"

-----------------------------------------------------------------------------
(* drain_retry_queue and the requeue loop.                                 *)

DrainScan(w) ==
  /\ pc[w] = "drain"
  /\ \E S \in SUBSET Job :
        /\ DrainBatch(S, DrainLimit)
        /\ todo' = [todo EXCEPT ![w] = S]
        /\ Goto(w, IF S = {} THEN "dequeue" ELSE "claim")
  /\ UNCHANGED <<storeVars, claimed, held, session, faults>>

(* Faulty variant: the answer of ZREM is not looked at.                    *)
RemovedUnseen(j) == {j}

(* ZREM says whether this worker was the one to remove the member; it      *)
(* removes it whatever its score has become since the scan.                *)
Removed(j) == IF retry[j] = "none" THEN {} ELSE {j}

DrainClaim(w, j) ==
  /\ pc[w] = "claim"
  /\ j \in todo[w]
  /\ remove_from_retry(j)
  /\ todo' = [todo EXCEPT ![w] = @ \ {j}]
  /\ claimed' = [claimed EXCEPT ![w] = @ \cup Removed(j)]
  /\ Goto(w, IF todo'[w] = {} THEN AfterClaim(claimed'[w]) ELSE "claim")
  /\ UNCHANGED <<db, priority, held, session, faults>>

(* Faulty variant: the row of a claimed id is not looked at.               *)
RequeueableUnseen(j) == TRUE

(* A claimed id whose row is no longer queued is dropped.                  *)
Requeueable(j) == db[j].status = "queued"

RequeueLoad(w, j) ==
  /\ pc[w] = "requeue"
  /\ j \in claimed[w]
  /\ claimed' = [claimed EXCEPT ![w] = @ \ {j}]
  /\ \/ /\ Requeueable(j)
        /\ held' = [held EXCEPT ![w] = j]
        /\ Goto(w, "requeue_add")
     \/ /\ ~Requeueable(j)
        /\ Goto(w, AfterClaim(claimed'[w]))
        /\ UNCHANGED held
  /\ UNCHANGED <<storeVars, todo, session, faults>>

RequeueAdd(w) ==
  /\ pc[w] = "requeue_add"
  /\ enqueue_priority(held[w])
  /\ held' = [held EXCEPT ![w] = NoJob]
  /\ Goto(w, AfterClaim(claimed[w]))
  /\ UNCHANGED <<db, retry, todo, claimed, session, faults>>

-----------------------------------------------------------------------------
(* Taking a job and marking it processing.                                 *)

DequeuePriority(w, j) ==
  /\ pc[w] = "dequeue"
  /\ dequeue_priority(j)
  /\ held' = [held EXCEPT ![w] = j]
  /\ Goto(w, "load")
  /\ UNCHANGED <<db, retry, todo, claimed, session, faults>>

DequeueNothing(w) ==
  /\ pc[w] = "dequeue"
  /\ priority = {}
  /\ Goto(w, "drain")
  /\ UNCHANGED <<storeVars, todo, claimed, held, session, faults>>

(* Faulty variant: a dequeued id is skipped only if it has no row.         *)
StartableUnseen(j) == db[j].status # "absent"

Startable(j) == db[j].status = "queued"

LoadQueued(w) ==
  /\ pc[w] = "load"
  /\ Startable(held[w])
  /\ Load(w)
  /\ Goto(w, "begin")
  /\ UNCHANGED <<storeVars, todo, claimed, held, faults>>

LoadSkipped(w) ==
  /\ pc[w] = "load"
  /\ ~Startable(held[w])
  /\ NextRound(w)
  /\ UNCHANGED <<storeVars, faults>>

WriteProcessing(w) ==
  db' = [db EXCEPT ![held[w]] = MarkProcessing(@, Loaded(w))]

BeginCommit(w) ==
  /\ pc[w] = "begin"
  /\ WriteProcessing(w)
  /\ session' = [session EXCEPT ![w] = NoSession]
  /\ Goto(w, "execute")
  /\ UNCHANGED <<priority, retry, todo, claimed, held, faults>>

-----------------------------------------------------------------------------
(* The execution and the session that records its outcome.                 *)

ExecuteOk(w) ==
  /\ pc[w] = "execute"
  /\ Goto(w, "finish_load")
  /\ UNCHANGED <<storeVars, todo, claimed, held, session, faults>>

(* The executor raises, or wait_for cancels it at its time limit.          *)
ExecuteFails(w) ==
  /\ pc[w] = "execute"
  /\ Goto(w, "fail_load")
  /\ UNCHANGED <<storeVars, todo, claimed, held, session, faults>>

(* get_executor raises: the registry of this worker has no executor of the *)
(* job's type, or one that cannot be called.  It is called outside the     *)
(* handlers of a failed execution, so the round is dropped, and the job    *)
(* stays processing.                                                       *)
NoExecutor(w) ==
  /\ pc[w] = "execute"
  /\ held[w] \in Unregistered
  /\ NextRound(w)
  /\ UNCHANGED <<storeVars, faults>>

Discardable(j) == db[j].status = "cancelled"

FinishLoad(w) ==
  /\ pc[w] = "finish_load"
  /\ ~Discardable(held[w])
  /\ Load(w)
  /\ Goto(w, "finish_commit")
  /\ UNCHANGED <<storeVars, todo, claimed, held, faults>>

FinishDiscard(w) ==
  /\ pc[w] = "finish_load"
  /\ Discardable(held[w])
  /\ NextRound(w)
  /\ UNCHANGED <<storeVars, faults>>

WriteCompleted(w) ==
  db' = [db EXCEPT ![held[w]] = MarkCompleted(@, Loaded(w))]

FinishCommit(w) ==
  /\ pc[w] = "finish_commit"
  /\ WriteCompleted(w)
  /\ NextRound(w)
  /\ UNCHANGED <<priority, retry, faults>>

-----------------------------------------------------------------------------
(* handle_failure.                                                         *)

(* Faulty variant: the retry is never pushed.                              *)
AfterFailLoadForgetful(j) == "fail_commit"

AfterFailLoad(j) ==
  IF Exhausted(db[j], MaxAttempts[j]) THEN "fail_commit" ELSE "enqueue_retry"

FailLoad(w) ==
  /\ pc[w] = "fail_load"
  /\ Load(w)
  /\ Goto(w, AfterFailLoad(held[w]))
  /\ UNCHANGED <<storeVars, todo, claimed, held, faults>>

EnqueueRetry(w) ==
  /\ pc[w] = "enqueue_retry"
  /\ enqueue_retry(held[w])
  /\ Goto(w, "fail_commit")
  /\ UNCHANGED <<db, priority, todo, claimed, held, session, faults>>

FailCommit(w) ==
  /\ pc[w] = "fail_commit"
  /\ db' = [db EXCEPT ![held[w]] =
              MarkFailure(@, Loaded(w), MaxAttempts[held[w]])]
  /\ NextRound(w)
  /\ UNCHANGED <<priority, retry, faults>>

-----------------------------------------------------------------------------
(* Faults, each drawn from one budget.                                     *)

InjectFault == faults < MaxFaults /\ faults' = faults + 1

(* A Redis or database call raises: the outer handler logs, sleeps and     *)
(* starts the next round.                                                  *)
LoopError(w) ==
  /\ pc[w] \in {"claim", "requeue", "requeue_add", "load", "begin",
                "fail_load", "enqueue_retry", "fail_commit"}
  /\ InjectFault
  /\ NextRound(w)
  /\ UNCHANGED storeVars

(* The session that records a success raises: the handler meant for the    *)
(* executor's exceptions takes it for a failed execution.                  *)
FinishError(w) ==
  /\ pc[w] \in {"finish_load", "finish_commit"}
  /\ InjectFault
  /\ session' = [session EXCEPT ![w] = NoSession]
  /\ Goto(w, "fail_load")
  /\ UNCHANGED <<storeVars, todo, claimed, held>>

(* The server commits, but the connection breaks before the reply.         *)
BeginCommitUnacknowledged(w) ==
  /\ pc[w] = "begin"
  /\ InjectFault
  /\ WriteProcessing(w)
  /\ NextRound(w)
  /\ UNCHANGED <<priority, retry>>

FinishCommitUnacknowledged(w) ==
  /\ pc[w] = "finish_commit"
  /\ InjectFault
  /\ WriteCompleted(w)
  /\ session' = [session EXCEPT ![w] = NoSession]
  /\ Goto(w, "fail_load")
  /\ UNCHANGED <<priority, retry, todo, claimed, held>>

(* The process dies; its local state and its open transaction go with it.  *)
Crash(w) ==
  /\ pc[w] # "down"
  /\ InjectFault
  /\ Leave(w, "down")
  /\ UNCHANGED storeVars

-----------------------------------------------------------------------------

LoopStep(w) ==
  \/ DrainScan(w)
  \/ \E j \in Job : DrainClaim(w, j)
  \/ \E j \in Job : RequeueLoad(w, j)
  \/ RequeueAdd(w)
  \/ \E j \in Job : DequeuePriority(w, j)
  \/ DequeueNothing(w)
  \/ LoadQueued(w)
  \/ LoadSkipped(w)
  \/ BeginCommit(w)
  \/ ExecuteOk(w)
  \/ ExecuteFails(w)
  \/ NoExecutor(w)
  \/ FinishLoad(w)
  \/ FinishDiscard(w)
  \/ FinishCommit(w)
  \/ FailLoad(w)
  \/ EnqueueRetry(w)
  \/ FailCommit(w)

LoopFault(w) ==
  \/ LoopError(w)
  \/ FinishError(w)
  \/ BeginCommitUnacknowledged(w)
  \/ FinishCommitUnacknowledged(w)
  \/ Crash(w)
=============================================================================
