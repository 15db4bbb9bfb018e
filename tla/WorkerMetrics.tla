---------------------------- MODULE WorkerMetrics ----------------------------
(***************************************************************************)
(* The instruments the worker loop keeps about the jobs it runs: the       *)
(* up-down counter jobs_active and the counters jobs_completed,            *)
(* jobs_retried and jobs_failed (app/core/telemetry.py).                   *)
(*                                                                         *)
(* Instruments live in the process.  An increment awaits nothing, so it    *)
(* belongs to the step of the loop in which it is made.  jobs_failed has a *)
(* label for its reason and is counted at two places: once for each        *)
(* attempt that fails (reason "executor_error" or "timeout", here both     *)
(* "attempt"), once more when the job is given up ("exhausted").           *)
(***************************************************************************)
EXTENDS JobQueue, Integers, Functions

VARIABLES
  active,  \* jobs_active of each worker process
  count    \* the increments made for each job, by any worker

metricVars == <<active, count>>

Counter == {"completed", "retried", "attempt", "exhausted"}

MetricsTypeOK ==
  /\ active \in [Worker -> Int]
  /\ count \in [Job -> [Counter -> Nat]]

MetricsInit ==
  /\ Init
  /\ active = [w \in Worker |-> 0]
  /\ count = [j \in Job |-> [c \in Counter |-> 0]]

-----------------------------------------------------------------------------

Raise(w) == active' = [active EXCEPT ![w] = @ + 1]

Lower(w) == active' = [active EXCEPT ![w] = @ - 1]

Count(w, c) == count' = [count EXCEPT ![held[w]][c] = @ + 1]

(* The steps of the loop that touch an instrument.                         *)

BeginMetered(w) == BeginCommit(w) /\ Raise(w) /\ UNCHANGED count

DiscardMetered(w) == FinishDiscard(w) /\ Lower(w) /\ UNCHANGED count

(* Faulty variant: counted in a finally clause, committed or not.          *)
FinishMeteredFinally(w) ==
  (FinishCommit(w) \/ FinishError(w)) /\ Lower(w) /\ Count(w, "completed")

FinishMetered(w) == FinishCommit(w) /\ Lower(w) /\ Count(w, "completed")

(* Faulty variant: the handler takes the 1 back, and handle_failure again. *)
ExecuteFailsMeteredTwice(w) ==
  ExecuteFails(w) /\ Count(w, "attempt") /\ Lower(w)

(* A failed attempt is counted where its exception is caught.              *)
ExecuteFailsMetered(w) ==
  ExecuteFails(w) /\ Count(w, "attempt") /\ UNCHANGED active

(* Faulty variant: a job given up is counted as a retry.                   *)
FailMeteredAlike(w) ==
  \/ FailLoad(w) /\ UNCHANGED metricVars
  \/ EnqueueRetry(w) /\ UNCHANGED metricVars
  \/ FailCommit(w) /\ Lower(w) /\ Count(w, "retried")

(* handle_failure: a job given up is counted before the commit, a retry    *)
(* after its push and before the commit.                                   *)
FailMetered(w) ==
  \/ /\ FailLoad(w)
     /\ IF Exhausted(db[held[w]], MaxAttempts[held[w]])
          THEN Lower(w) /\ Count(w, "exhausted")
          ELSE UNCHANGED metricVars
  \/ EnqueueRetry(w) /\ Lower(w) /\ Count(w, "retried")
  \/ FailCommit(w) /\ UNCHANGED metricVars

Unmetered(w) ==
  \/ DrainScan(w)
  \/ \E j \in Job : DrainClaim(w, j) \/ RequeueLoad(w, j) \/ DequeuePriority(w, j)
  \/ RequeueAdd(w)
  \/ DequeueNothing(w)
  \/ LoadQueued(w)
  \/ LoadSkipped(w)
  \/ ExecuteOk(w)
  \/ NoExecutor(w)
  \/ FinishLoad(w)

LoopStepMetered(w) ==
  \/ BeginMetered(w)
  \/ DiscardMetered(w)
  \/ FinishMetered(w)
  \/ ExecuteFailsMetered(w)
  \/ FailMetered(w)
  \/ Unmetered(w) /\ UNCHANGED metricVars

(* The 1 of a discarded outcome is taken back before the session is left,  *)
(* and closing it, which rolls back the select, may raise: the handler of  *)
(* executor errors calls handle_failure, which takes back a 1 once more.   *)
DiscardError(w) ==
  /\ pc[w] = "finish_load"
  /\ Discardable(held[w])
  /\ FinishError(w)
  /\ Lower(w)
  /\ Count(w, "attempt")

(* The handler of executor errors also counts the errors of the session    *)
(* that records a success.                                                 *)
LoopFaultMetered(w) ==
  \/ /\ FinishError(w) \/ FinishCommitUnacknowledged(w)
     /\ Count(w, "attempt")
     /\ UNCHANGED active
  \/ DiscardError(w)
  \/ /\ LoopError(w) \/ BeginCommitUnacknowledged(w)
     /\ UNCHANGED metricVars
  \/ /\ Crash(w)
     /\ active' = [active EXCEPT ![w] = 0]
     /\ UNCHANGED count

-----------------------------------------------------------------------------

WorkerMetered(w) ==
  \/ LoopStepMetered(w) /\ Timely(w) /\ UNCHANGED recovered
  \/ LoopFaultMetered(w) /\ UNCHANGED recovered
  \/ (Start(w) \/ RecoveryStep(w) \/ RecoveryError(w)) /\ UNCHANGED metricVars

MetricsNext ==
  \/ \E w \in Worker : WorkerMetered(w) /\ UNCHANGED apiVars
  \/ /\ \/ ApiStep /\ UNCHANGED <<workerVars, faults, recovered>>
        \/ ApiFault /\ UNCHANGED <<workerVars, recovered>>
        \/ \E j \in Job : Mature(j) \/ Age(j)
     /\ UNCHANGED metricVars

MetricsSpec == MetricsInit /\ [][MetricsNext]_<<vars, metricVars>>

-----------------------------------------------------------------------------

(* Between the commit of a start and the count of its outcome.             *)
Counted(w) ==
  pc[w] \in {"execute", "finish_load", "finish_commit", "fail_load", "enqueue_retry"}

(* No cancel request has ended in a commit, or in an error that may have   *)
(* hidden one.                                                             *)
NoneCancelled == \A c \in Canceller : cancelling[c] \notin {"200", "500"}

(* Every path out of an execution takes back the 1 that its start added to *)
(* jobs_active; loop.py does so at four places in two functions.  While    *)
(* nothing fails and no executor is missing, exactly once.  Errors and     *)
(* missing executors leave 1s behind.  One error takes a 1 back twice,     *)
(* that of the session in which a cancelled job's outcome is discarded:    *)
(* so the gauge misses a running execution only where jobs are cancelled,  *)
(* and no more of them than there were errors.                             *)
ActiveIsWorking ==
  \A w \in Worker :
    LET working == IF Counted(w) THEN 1 ELSE 0
    IN  /\ faults = 0 /\ (\A j \in Unregistered : db[j].starts = 0)
             => active[w] = working
        /\ active[w] >= working - faults
        /\ NoneCancelled => active[w] >= working

(* Failed attempts are the retries, the jobs given up and the failures     *)
(* that handle_failure is about to decide on, whoever cancels meanwhile.   *)
FailuresAddUp ==
  \A j \in Job :
    count[j]["attempt"] =
      count[j]["retried"] + count[j]["exhausted"]
        + Cardinality({w \in Worker : /\ held[w] = j
                                      /\ pc[w] \in {"fail_load", "enqueue_retry"}})

(* Rows that have ended were counted, and once.                            *)
OutcomesAreCounted ==
  \A j \in Job \ recovered :
    /\ db[j].status = "completed" => count[j]["completed"] = 1
    /\ db[j].status = "failed" => count[j]["exhausted"] = 1
    /\ count[j]["completed"] + count[j]["exhausted"] <= 1

(* If nothing has failed but executions, the counters account for every    *)
(* failed attempt, and agree with the rows on how jobs end: alerts on the  *)
(* reason "max_attempts_exhausted" see every failed row, and once.         *)
CountersAgree == faults = 0 => FailuresAddUp /\ OutcomesAreCounted

(* A job counted as completed has ended and is counted once: no failure    *)
(* after the count puts it back.                                           *)
CompletionCountStands ==
  \A j \in Job \ recovered : count[j]["completed"] > 0 =>
    /\ count[j]["completed"] = 1
    /\ db[j].status \in {"completed", "cancelled"}

-----------------------------------------------------------------------------
(* What the descriptions of the instruments say.                           *)

(* telemetry.py:151: jobs_failed counts the jobs that failed permanently.  *)
FailedCountsJobs ==
  \A j \in Job : db[j].status = "completed" =>
    count[j]["attempt"] + count[j]["exhausted"] = 0

(* telemetry.py:183: jobs_active shows no more jobs than are processing,   *)
(* at a moment when no worker is on its way between the row and the count. *)
ActiveIsProcessing ==
  (\A w \in Worker : pc[w] \in {"down", "drain", "dequeue"}) =>
    SumFunction(active) <= Cardinality({j \in Job : db[j].status = "processing"})

(* telemetry.py:183: a number of jobs in a state is never negative.        *)
ActiveIsNotNegative == \A w \in Worker : active[w] >= 0
=============================================================================
