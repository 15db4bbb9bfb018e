------------------------------ MODULE JobQueue ------------------------------
(***************************************************************************)
(* The job queue: worker processes and the API over one PostgreSQL table   *)
(* and the Redis queues.                                                   *)
(***************************************************************************)
EXTENDS Recovery, Api

CONSTANTS
  PromptCommits,           \* a session commits within the shortest backoff
  PromptClaims,            \* a drain claims what it found before a job found
                           \* by it can be executed again
  ThresholdExceedsTimeout  \* the stuck threshold outlasts every execution

ASSUME TimingAssumption ==
  /\ PromptCommits \in BOOLEAN
  /\ PromptClaims \in BOOLEAN
  /\ ThresholdExceedsTimeout \in BOOLEAN

vars == <<storeVars, workerVars, faults, recovered, apiVars>>

TypeOK ==
  /\ StoreTypeOK
  /\ WorkerTypeOK
  /\ RecoveryTypeOK
  /\ ApiTypeOK

Init ==
  /\ db = [j \in Job |-> IF j \in Preloaded THEN NewRow ELSE NoRow]
  /\ priority = Preloaded
  /\ retry = [j \in Job |-> "none"]
  /\ WorkerInit
  /\ RecoveryInit
  /\ ApiInit

-----------------------------------------------------------------------------
(* The passage of time.                                                    *)

(* A session that has pushed a retry entry and not committed yet.          *)
RetryWriter(w, j) ==
  \/ pc[w] = "fail_commit" /\ held[w] = j
  \/ pc[w] \in {"recover", "recover_commit"} /\ InSession(w, j)

(* The retry score passes.  The shortest backoff is one second.            *)
Mature(j) ==
  /\ retry[j] = "waiting"
  /\ PromptCommits => \A w \in Worker : ~RetryWriter(w, j)
  /\ retry' = [retry EXCEPT ![j] = "due"]
  /\ UNCHANGED <<db, priority, workerVars, faults, recovered, apiVars>>

(* A drain has found the retry entry of the job in hand due, and its ZREM  *)
(* is still to come although another worker has long taken the job up.     *)
Overtaken(w) == \E v \in Worker : pc[v] = "claim" /\ held[w] \in todo[v]

Timely(w) == PromptClaims /\ pc[w] = "execute" => ~Overtaken(w)

(* started_at falls behind the stuck threshold.  The threshold is ten      *)
(* minutes and no executor runs for more than two (300 s is the limit of   *)
(* an executor that sets none).                                            *)
Age(j) ==
  /\ db[j].status = "processing"
  /\ db[j].started = "recent"
  /\ ThresholdExceedsTimeout => \A w \in Worker : ~Working(w, j)
  /\ db' = [db EXCEPT ![j].started = "old"]
  /\ UNCHANGED <<priority, retry, workerVars, faults, recovered, apiVars>>

-----------------------------------------------------------------------------

(* The API draws its faults from the same budget as the workers.           *)
ApiFault ==
  /\ InjectFault
  /\ \/ \E j \in Job : CreateAbort(j)
     \/ \E c \in Canceller : CancelAbort(c)

WorkerStep(w) ==
  \/ LoopStep(w) /\ Timely(w) /\ UNCHANGED recovered
  \/ Start(w)
  \/ RecoveryStep(w)

WorkerFault(w) ==
  \/ LoopFault(w) /\ UNCHANGED recovered
  \/ RecoveryError(w)

ApiStep ==
  \/ \E j \in Job : CreateStep(j)
  \/ \E c \in Canceller : CancelStep(c)

Next ==
  \/ \E w \in Worker : (WorkerStep(w) \/ WorkerFault(w)) /\ UNCHANGED apiVars
  \/ ApiStep /\ UNCHANGED <<workerVars, faults, recovered>>
  \/ ApiFault /\ UNCHANGED <<workerVars, recovered>>
  \/ \E j \in Job : Mature(j) \/ Age(j)

Spec == Init /\ [][Next]_vars

(* Each worker process is scheduled and restarted by its container, its    *)
(* awaits return (executions are cut by wait_for), requests that were sent *)
(* are carried through, and time passes.  Whether a client sends a request *)
(* is its own choice.                                                      *)
Fairness ==
  /\ \A w \in Worker : WF_vars(WorkerStep(w) /\ UNCHANGED apiVars)
  /\ \A j \in Job :
        /\ WF_vars((CreateEnqueue(j) \/ CreateCommit(j))
                     /\ UNCHANGED <<workerVars, faults, recovered>>)
        /\ WF_vars(Mature(j))
        /\ WF_vars(Age(j))
  /\ \A c \in Canceller :
        WF_vars((CancelRemovePriority(c) \/ CancelRemoveRetry(c) \/ CancelCommit(c))
                  /\ UNCHANGED <<workerVars, faults, recovered>>)

FairSpec == Spec /\ Fairness

-----------------------------------------------------------------------------
(* What holds whatever fails and whoever cancels.                          *)

Terminal == {"completed", "failed", "cancelled"}

(* No two workers run the same job at the same time: ZPOPMIN and ZREM hand *)
(* an id to one worker, and a retry entry that comes due before the commit *)
(* it belongs to is dropped.  Jobs that recovery has put back are excepted:*)
(* two processes that start together recover the same job twice.           *)
ExclusiveExecution ==
  \A j \in Job \ recovered : \A v, w \in Worker :
    Working(v, j) /\ Working(w, j) => v = w

(* attempts equals the executions job_logs has on record: no two sessions  *)
(* that loaded the same count of attempts both add one to it.              *)
AttemptsMatchStarts ==
  \A j \in Job \ recovered : db[j].attempts = db[j].starts

(* A queued job still has an attempt to spend, and none is ever overspent. *)
RetryBudget ==
  \A j \in Job \ recovered :
    /\ db[j].attempts <= MaxAttempts[j]
    /\ db[j].status = "queued" => db[j].attempts < MaxAttempts[j]

(* A completed row carries its result and no error of an earlier attempt,  *)
(* a failed row its error, both the time they ended.                       *)
OutcomeRecorded ==
  \A j \in Job \ recovered :
    /\ db[j].status = "completed" =>
         db[j].completedAt = "set" /\ db[j].result = "set" /\ db[j].error = "null"
    /\ db[j].status = "failed" =>
         db[j].completedAt = "set" /\ db[j].error = "set"

(* What startup recovery takes for the work of a dead process is not being *)
(* executed by a living one.                                               *)
StuckIsOrphan ==
  \A j \in Job : Stuck(j) => \A w \in Worker : ~Working(w, j)

(* No job is executed more often than max_attempts, recovered or not, if   *)
(* there is a single worker process: every start and every recovery uses   *)
(* up an attempt of the count the previous one left.                       *)
ExecutionsWithinBudget == \A j \in Job : db[j].starts <= MaxAttempts[j]

(* A job's count of attempts never goes down, with a single worker: no     *)
(* session writes a count it read before another one moved it on.          *)
AttemptsNeverDecrease ==
  [][\A j \in Job : db'[j].attempts >= db[j].attempts]_vars

(* A processing row has a worker at it, unless something has failed: no    *)
(* path through the loop, and no overwritten cancellation, leaves a job    *)
(* processing and goes on.  The exception is a job without an executor,    *)
(* see StartedJobEnds.                                                     *)
ProcessingIsAttended ==
  faults = 0 => \A j \in Job \ (Unregistered \cup recovered) :
    db[j].status = "processing" => \E w \in Worker : Working(w, j)

(* No open session is about to write to the row of j.                      *)
Quiet(j) ==
  /\ \A w \in Worker :
       /\ ~Working(w, j)
       /\ ~(pc[w] = "begin" /\ held[w] = j)
       /\ ~InSession(w, j)
  /\ \A c \in Canceller : ~Cancelling(c, j)

Retired(j) == db[j].status \in Terminal /\ Quiet(j)

(* Once a job has ended and whoever was writing to it is done, it has      *)
(* ended for good, whatever ids of it are left in the queues.              *)
RetiredIsFinal ==
  [][\A j \in Job : Retired(j) => Retired(j)' /\ db'[j] = db[j]]_vars

-----------------------------------------------------------------------------
(* What holds as long as nothing fails, no one cancels, and the awaits are *)
(* short (PromptCommits, PromptClaims).                                    *)

(* Nothing has failed so far but executions, and no one has cancelled.     *)
Undisturbed == faults = 0 /\ \A c \in Canceller : cancelling[c] = "idle"

(* The places an id may be waiting in for a worker to come upon it.        *)
InHand(j) ==
  \E w \in Worker : held[w] = j \/ j \in claimed[w]

(* A queued job is in a queue, or in the hands of a worker.                *)
NoLostJob ==
  \A j \in Job : db[j].status = "queued" =>
    j \in priority \/ retry[j] # "none" \/ InHand(j)

(* A worker that holds the outcome of an execution finds the row as it     *)
(* left it: processing, with the count of attempts it wrote.               *)
OutcomeNotStale ==
  \A w \in Worker : pc[w] \in {"finish_commit", "fail_commit"} =>
    /\ db[held[w]].status = "processing"
    /\ db[held[w]] = Loaded(w)

(* Every job that was accepted is completed or failed in the end.          *)
EveryJobSettles ==
  \A j \in Job : (creating[j] = "created") ~> (db[j].status \in {"completed", "failed"})

(* A client that reads the rows alone sees the life of each job the queue  *)
(* promises, and sees it go on to its end.                                 *)
Life == INSTANCE Lifecycle WITH
  stage <- [j \in Job |-> db[j].status],
  runs  <- [j \in Job |-> db[j].starts]

ImplementsLifecycle == Life!Spec

-----------------------------------------------------------------------------
(* What holds of prompt commits and claims as long as no one cancels,      *)
(* whatever fails.                                                         *)

(* The row says the job waits, and its id is nowhere.                      *)
Lost(j) ==
  /\ db[j].status = "queued"
  /\ j \notin priority
  /\ retry[j] = "none"
  /\ ~InHand(j)

(* Only a fault loses a job, and it loses those the failing worker had in  *)
(* hand and no other: ZPOPMIN and ZREM took their ids out of Redis.        *)
(* Recovered jobs are excepted, see RecoveredIsRequeued.                   *)
OnlyFaultsLose ==
  [][\A j \in Job \ recovered : ~Lost(j) /\ Lost(j)' =>
       /\ faults' = faults + 1
       /\ \E w \in Worker : (held[w] = j \/ j \in claimed[w]) /\ pc'[w] # pc[w]]_vars

(* A job that a crash has orphaned, and whose start is older than the      *)
(* threshold by the time the workers come back, is taken up again and      *)
(* settles, unless something fails once more: by the only recovery there   *)
(* is, that of a starting worker.                                          *)
OrphanSettles ==
  \A j \in Job, n \in 0 .. MaxFaults :
    (faults = n /\ Stuck(j) /\ \A w \in Worker : pc[w] = "down")
      ~> (faults > n \/ db[j].status \in Terminal)

-----------------------------------------------------------------------------
(* What the documentation says of the program.                             *)

(* README.md:438: a worker that finds its job cancelled discards the       *)
(* outcome of the execution, so handle_failure does not act on such a row. *)
CancelledIsDiscarded ==
  \A w \in Worker : pc[w] \in {"finish_commit", "enqueue_retry", "fail_commit"} =>
    Loaded(w).status # "cancelled"

(* README.md:433-434: a job is marked processing only if it is queued.     *)
NoStartAfterCancel ==
  [][\A j \in Job : db[j].status = "cancelled" => db'[j].status # "processing"]_vars

(* README.md:286: completed and failed jobs cannot be cancelled.           *)
OutcomeIsNotCancelled ==
  [][\A j \in Job : db[j].status \in {"completed", "failed"} =>
                      db'[j].status # "cancelled"]_vars

(* recovery.py:59: a job that recovery gives up failed after as many       *)
(* attempts as the message says, each of which was started.                *)
RecoveryCountsAttempts ==
  \A j \in Job : db[j].status = "failed" => db[j].attempts = db[j].starts

(* README.md:425: startup recovery re-queues the stuck jobs it does not    *)
(* give up.                                                                *)
RecoveredIsRequeued ==
  [][\A w \in Worker, j \in Job :
       RecoveryCommit(w) /\ InSession(w, j) => ~Lost(j)']_vars

(* README.md:32: failed jobs are automatically retried.                    *)
FailedJobsAreRetried ==
  \A j \in Job :
    (db[j].status = "queued" /\ db[j].error = "set") ~> (db[j].status # "queued")

(* README.md:40: startup recovery takes care of the jobs that were         *)
(* processing when the workers crashed.                                    *)
CrashedJobRecovers ==
  \A j \in Job :
    (db[j].status = "processing" /\ \A w \in Worker : pc[w] = "down")
      ~> (db[j].status # "processing")

(* README.md:437: an attempt that fails goes through handle_failure, so a  *)
(* job that was started does not stay processing.                          *)
StartedJobEnds ==
  \A j \in Job :
    (db[j].status = "processing") ~> (db[j].status # "processing")
=============================================================================
