--------------------------- MODULE JobQueueSteps ----------------------------
(***************************************************************************)
(* The steps of JobQueue taken apart: the actions they consist of, what    *)
(* each update makes of a row, what each operation does to the types, and  *)
(* the type invariant.                                                     *)
(***************************************************************************)
EXTENDS JobQueueInvariant, TLAPS

-----------------------------------------------------------------------------

(* Every step is one of the actions below, and leaves alone the variables  *)
(* of the processes that take no part in it.                               *)
LEMMA StepCases ==
  ASSUME Next
  PROVE
    \/ \E w \in Worker : DrainScan(w) /\ UNCHANGED <<recovered, apiVars>>
    \/ \E w \in Worker, k \in Job : DrainClaim(w, k) /\ UNCHANGED <<recovered, apiVars>>
    \/ \E w \in Worker, k \in Job : RequeueLoad(w, k) /\ UNCHANGED <<recovered, apiVars>>
    \/ \E w \in Worker : RequeueAdd(w) /\ UNCHANGED <<recovered, apiVars>>
    \/ \E w \in Worker, k \in Job : DequeuePriority(w, k) /\ UNCHANGED <<recovered, apiVars>>
    \/ \E w \in Worker : DequeueNothing(w) /\ UNCHANGED <<recovered, apiVars>>
    \/ \E w \in Worker : LoadQueued(w) /\ UNCHANGED <<recovered, apiVars>>
    \/ \E w \in Worker : LoadSkipped(w) /\ UNCHANGED <<recovered, apiVars>>
    \/ \E w \in Worker : BeginCommit(w) /\ UNCHANGED <<recovered, apiVars>>
    \/ \E w \in Worker : ExecuteOk(w) /\ Timely(w) /\ UNCHANGED <<recovered, apiVars>>
    \/ \E w \in Worker : ExecuteFails(w) /\ Timely(w) /\ UNCHANGED <<recovered, apiVars>>
    \/ \E w \in Worker : FinishLoad(w) /\ UNCHANGED <<recovered, apiVars>>
    \/ \E w \in Worker : FinishDiscard(w) /\ UNCHANGED <<recovered, apiVars>>
    \/ \E w \in Worker : FinishCommit(w) /\ UNCHANGED <<recovered, apiVars>>
    \/ \E w \in Worker : FailLoad(w) /\ UNCHANGED <<recovered, apiVars>>
    \/ \E w \in Worker : EnqueueRetry(w) /\ UNCHANGED <<recovered, apiVars>>
    \/ \E w \in Worker : FailCommit(w) /\ UNCHANGED <<recovered, apiVars>>
    \/ \E w \in Worker : NoExecutor(w) /\ UNCHANGED <<recovered, apiVars>>
    \/ \E w \in Worker : LoopError(w) /\ UNCHANGED <<recovered, apiVars>>
    \/ \E w \in Worker : FinishError(w) /\ UNCHANGED <<recovered, apiVars>>
    \/ \E w \in Worker : BeginCommitUnacknowledged(w) /\ UNCHANGED <<recovered, apiVars>>
    \/ \E w \in Worker : FinishCommitUnacknowledged(w) /\ UNCHANGED <<recovered, apiVars>>
    \/ \E w \in Worker : Crash(w) /\ UNCHANGED <<recovered, apiVars>>
    \/ \E w \in Worker : Start(w) /\ UNCHANGED apiVars
    \/ \E w \in Worker : RecoverySelect(w) /\ UNCHANGED apiVars
    \/ \E w \in Worker : RecoveryClean(w) /\ UNCHANGED apiVars
    \/ \E w \in Worker, k \in Job : RecoverJob(w, k) /\ UNCHANGED apiVars
    \/ \E w \in Worker : RecoveryCommit(w) /\ UNCHANGED apiVars
    \/ \E w \in Worker : RecoveryError(w) /\ UNCHANGED apiVars
    \/ \E k \in Job : CreateFlush(k) /\ UNCHANGED <<workerVars, faults, recovered>>
    \/ \E k \in Job : CreateEnqueue(k) /\ UNCHANGED <<workerVars, faults, recovered>>
    \/ \E k \in Job : CreateCommit(k) /\ UNCHANGED <<workerVars, faults, recovered>>
    \/ \E c \in Canceller : CancelLoad(c) /\ UNCHANGED <<workerVars, faults, recovered>>
    \/ \E c \in Canceller : CancelRemovePriority(c) /\ UNCHANGED <<workerVars, faults, recovered>>
    \/ \E c \in Canceller : CancelRemoveRetry(c) /\ UNCHANGED <<workerVars, faults, recovered>>
    \/ \E c \in Canceller : CancelCommit(c) /\ UNCHANGED <<workerVars, faults, recovered>>
    \/ \E k \in Job : CreateAbort(k) /\ InjectFault /\ UNCHANGED <<workerVars, recovered>>
    \/ \E c \in Canceller : CancelAbort(c) /\ InjectFault /\ UNCHANGED <<workerVars, recovered>>
    \/ \E k \in Job : Mature(k)
    \/ \E k \in Job : Age(k)
BY DEF Next, WorkerStep, WorkerFault, LoopStep, LoopFault, RecoveryStep, ApiStep, ApiFault, CreateStep, CancelStep

-----------------------------------------------------------------------------
(* Rows.                                                                   *)

LEMMA NewRowIsRow == NewRow \in Row /\ NoRow \in Row
BY DEF NewRow, NoRow, Row, JobStatus, StartedAt, Nullable

(* Every update of a row yields a row.                                     *)
LEMMA RowUpdates ==
  ASSUME NEW r \in Row, NEW l \in Row, NEW m \in Nat
  PROVE  /\ MarkProcessing(r, l) \in Row
         /\ MarkCompleted(r, l) \in Row
         /\ MarkFailure(r, l, m) \in Row
         /\ MarkRecovered(r, l, m) \in Row
         /\ MarkCancelled(r) \in Row
<1>1. \A x, y, z \in JobStatus \cup {"absent"} : NetChange(x, y, z) \in JobStatus \cup {"absent"}
  BY DEF NetChange
<1>2. NetChange(r.error, l.error, "null") \in Nullable
  BY DEF NetChange, Nullable, Row
<1>3. l.attempts + 1 \in Nat /\ r.starts + 1 \in Nat
  BY DEF Row
<1>s. \A x \in JobStatus : NetChange(r.status, l.status, x) \in JobStatus \cup {"absent"}
  BY <1>1 DEF Row
<1>4. MarkProcessing(r, l) \in Row
  BY <1>s, <1>3 DEF MarkProcessing, Row, StartedAt, JobStatus
<1>5. MarkCompleted(r, l) \in Row
  BY <1>s, <1>2 DEF MarkCompleted, Row, Nullable, JobStatus
<1>6. MarkFailure(r, l, m) \in Row
  BY <1>s DEF MarkFailure, Row, Nullable, JobStatus
<1>7. MarkRecovered(r, l, m) \in Row
  BY <1>s, <1>3 DEF MarkRecovered, Row, Nullable, JobStatus
<1>8. MarkCancelled(r) \in Row
  BY DEF MarkCancelled, Row, JobStatus
<1>. QED BY <1>4, <1>5, <1>6, <1>7, <1>8

(* The columns of a row and their types.                                   *)
LEMMA RowFields ==
  ASSUME NEW r \in Row
  PROVE  /\ r.status \in JobStatus \cup {"absent"}
         /\ r.attempts \in Nat /\ r.starts \in Nat
         /\ r.started \in StartedAt
         /\ r.completedAt \in Nullable /\ r.error \in Nullable /\ r.result \in Nullable
BY DEF Row

(* What the start of an execution writes, column by column.                *)
LEMMA ProcessingEffect ==
  ASSUME NEW r \in Row, NEW l \in Row
  PROVE  /\ MarkProcessing(r, l).status = NetChange(r.status, l.status, "processing")
         /\ MarkProcessing(r, l).attempts = l.attempts + 1
         /\ MarkProcessing(r, l).starts = r.starts + 1
         /\ MarkProcessing(r, l).started = "recent"
         /\ MarkProcessing(r, l).error = r.error
BY DEF MarkProcessing, Row

(* What a success writes, column by column.                                *)
LEMMA CompletedEffect ==
  ASSUME NEW r \in Row, NEW l \in Row
  PROVE  /\ MarkCompleted(r, l).status = NetChange(r.status, l.status, "completed")
         /\ MarkCompleted(r, l).attempts = r.attempts
         /\ MarkCompleted(r, l).starts = r.starts
         /\ MarkCompleted(r, l).started = r.started
         /\ MarkCompleted(r, l).completedAt = "set"
         /\ MarkCompleted(r, l).result = "set"
         /\ MarkCompleted(r, l).error = NetChange(r.error, l.error, "null")
BY DEF MarkCompleted, Row

(* What handle_failure writes, column by column.                           *)
LEMMA FailureEffect ==
  ASSUME NEW r \in Row, NEW l \in Row, NEW m \in Nat
  PROVE  /\ MarkFailure(r, l, m).attempts = r.attempts
         /\ MarkFailure(r, l, m).starts = r.starts
         /\ MarkFailure(r, l, m).started = r.started
         /\ MarkFailure(r, l, m).error = "set"
         /\ Exhausted(l, m) =>
              /\ MarkFailure(r, l, m).status = NetChange(r.status, l.status, "failed")
              /\ MarkFailure(r, l, m).completedAt = "set"
         /\ ~Exhausted(l, m) =>
              /\ MarkFailure(r, l, m).status = NetChange(r.status, l.status, "queued")
              /\ MarkFailure(r, l, m).completedAt = r.completedAt
         /\ MarkFailure(r, l, m).result = r.result
BY DEF MarkFailure, Row

(* What startup recovery may make of a status; it never touches            *)
(* started_at.                                                             *)
LEMMA RecoveredEffect ==
  ASSUME NEW r \in Row, NEW l \in Row, NEW m \in Nat
  PROVE  /\ MarkRecovered(r, l, m).status \in {r.status, "failed", "queued"}
         /\ MarkRecovered(r, l, m).started = r.started
BY DEF MarkRecovered, NetChange, Row

(* A cancellation writes the status only.                                  *)
LEMMA CancelledEffect ==
  ASSUME NEW r \in Row
  PROVE  /\ MarkCancelled(r).status = "cancelled"
         /\ MarkCancelled(r).attempts = r.attempts
         /\ MarkCancelled(r).starts = r.starts
         /\ MarkCancelled(r).started = r.started
         /\ MarkCancelled(r).error = r.error
BY DEF MarkCancelled, Row

-----------------------------------------------------------------------------
(* Types of the variables after each operation.                            *)

LEMMA NoSessionType == NoSession \in [Job -> Row]
BY NewRowIsRow DEF NoSession

(* The labels a worker can stand at.                                       *)
LEMMA Labels ==
  {"down", "select", "recover", "recover_commit", "drain", "claim", "requeue",
   "requeue_add", "dequeue", "load", "begin", "execute", "finish_load",
   "finish_commit", "fail_load", "enqueue_retry", "fail_commit"} \subseteq Label
BY DEF Label, RecoveryLabel, LoopLabel

(* A worker that moves to a label stands at a label.                       *)
LEMMA GotoType ==
  ASSUME WorkerTypeOK, NEW w \in Worker, NEW label \in Label, Goto(w, label)
  PROVE  pc' \in [Worker -> Label]
BY DEF WorkerTypeOK, Goto

(* A worker whose local variables go out of scope keeps their types.       *)
LEMMA LeaveType ==
  ASSUME WorkerTypeOK, NEW w \in Worker, NEW label \in Label, Leave(w, label)
  PROVE  /\ pc' \in [Worker -> Label]
         /\ todo' \in [Worker -> SUBSET Job]
         /\ claimed' \in [Worker -> SUBSET Job]
         /\ held' \in [Worker -> Job \cup {NoJob}]
         /\ session' \in [Worker -> [Job -> Row]]
<1>1. pc' \in [Worker -> Label]
  BY GotoType DEF Leave
<1>2. todo' \in [Worker -> SUBSET Job] /\ claimed' \in [Worker -> SUBSET Job]
  BY DEF WorkerTypeOK, Leave
<1>3. held' \in [Worker -> Job \cup {NoJob}]
  BY DEF WorkerTypeOK, Leave
<1>4. session' \in [Worker -> [Job -> Row]]
  BY NoSessionType DEF WorkerTypeOK, Leave
<1>. QED BY <1>1, <1>2, <1>3, <1>4

(* A load puts a row into the session.                                     *)
LEMMA LoadType ==
  ASSUME db \in [Job -> Row], session \in [Worker -> [Job -> Row]],
         NEW w \in Worker, held[w] \in Job, Load(w)
  PROVE  session' \in [Worker -> [Job -> Row]]
BY DEF Load

(* Faults are injected within their bound.                                 *)
LEMMA FaultType ==
  ASSUME faults \in 0 .. MaxFaults, InjectFault
  PROVE  faults' \in 0 .. MaxFaults
BY WorkerAssumption DEF InjectFault

(* ZADD and ZREM on queue:retry keep its type.                             *)
LEMMA RetryType ==
  ASSUME retry \in [Job -> RetryState], NEW j \in Job,
         enqueue_retry(j) \/ remove_from_retry(j)
  PROVE  retry' \in [Job -> RetryState]
BY DEF RetryState, enqueue_retry, remove_from_retry

(* The commits of the loop store rows.                                     *)
LEMMA WriteType ==
  ASSUME db \in [Job -> Row], session \in [Worker -> [Job -> Row]],
         NEW w \in Worker, held[w] \in Job,
         \/ WriteProcessing(w)
         \/ WriteCompleted(w)
         \/ FailCommit(w)
  PROVE  db' \in [Job -> Row]
<1>1. db[held[w]] \in Row /\ Loaded(w) \in Row /\ MaxAttempts[held[w]] \in Nat
  BY JobAssumption DEF Loaded
<1>2. /\ MarkProcessing(db[held[w]], Loaded(w)) \in Row
      /\ MarkCompleted(db[held[w]], Loaded(w)) \in Row
      /\ MarkFailure(db[held[w]], Loaded(w), MaxAttempts[held[w]]) \in Row
  BY <1>1, RowUpdates
<1>. QED
  BY <1>2 DEF WriteProcessing, WriteCompleted, FailCommit

(* Every step keeps the types.                                             *)
LEMMA TypeStep ==
  ASSUME TypeOK, LocalInv, Next
  PROVE  TypeOK'
<1>l. \A w \in Worker : pc[w] \in HeldLabel => held[w] \in Job
  BY DEF LocalInv, LocalOK, TypeOK, WorkerTypeOK
<1>1. ASSUME NEW w \in Worker, DrainScan(w), UNCHANGED <<recovered, apiVars>>
      PROVE  TypeOK'
  BY <1>1, GotoType, Labels DEF
     DrainScan, DrainBatch, TypeOK, StoreTypeOK, WorkerTypeOK,
     RecoveryTypeOK, ApiTypeOK, storeVars, apiVars
<1>2. ASSUME NEW w \in Worker, NEW k \in Job, DrainClaim(w, k),
             UNCHANGED <<recovered, apiVars>>
      PROVE  TypeOK'
  BY <1>2, GotoType, Labels, RetryType DEF
     DrainClaim, Removed, AfterClaim, TypeOK, StoreTypeOK,
     WorkerTypeOK, RecoveryTypeOK, ApiTypeOK, storeVars, apiVars
<1>3. ASSUME NEW w \in Worker, NEW k \in Job, RequeueLoad(w, k),
             UNCHANGED <<recovered, apiVars>>
      PROVE  TypeOK'
  BY <1>3, GotoType, Labels DEF
     RequeueLoad, AfterClaim, TypeOK, StoreTypeOK, WorkerTypeOK,
     RecoveryTypeOK, ApiTypeOK, storeVars, apiVars
<1>4. ASSUME NEW w \in Worker, RequeueAdd(w), UNCHANGED <<recovered, apiVars>>
      PROVE  TypeOK'
  BY <1>4, GotoType, Labels, <1>l DEF
     RequeueAdd, HeldLabel, WorkLabel, AfterClaim, enqueue_priority,
     TypeOK, StoreTypeOK, WorkerTypeOK, RecoveryTypeOK, ApiTypeOK,
     storeVars, apiVars
<1>5. ASSUME NEW w \in Worker, NEW k \in Job, DequeuePriority(w, k),
             UNCHANGED <<recovered, apiVars>>
      PROVE  TypeOK'
  BY <1>5, GotoType, Labels DEF
     DequeuePriority, dequeue_priority, Foremost, TypeOK, StoreTypeOK,
     WorkerTypeOK, RecoveryTypeOK, ApiTypeOK, storeVars, apiVars
<1>6. ASSUME NEW w \in Worker, DequeueNothing(w),
             UNCHANGED <<recovered, apiVars>>
      PROVE  TypeOK'
  BY <1>6, GotoType, Labels DEF
     DequeueNothing, TypeOK, StoreTypeOK, WorkerTypeOK,
     RecoveryTypeOK, ApiTypeOK, storeVars, apiVars
<1>7. ASSUME NEW w \in Worker, LoadQueued(w), UNCHANGED <<recovered, apiVars>>
      PROVE  TypeOK'
  BY <1>7, GotoType, Labels, LoadType, <1>l DEF
     LoadQueued, HeldLabel, WorkLabel, TypeOK, StoreTypeOK,
     WorkerTypeOK, RecoveryTypeOK, ApiTypeOK, storeVars, apiVars
<1>8. ASSUME NEW w \in Worker, LoadSkipped(w), UNCHANGED <<recovered, apiVars>>
      PROVE  TypeOK'
  BY <1>8, LeaveType, Labels DEF
     LoadSkipped, NextRound, TypeOK, StoreTypeOK, WorkerTypeOK,
     RecoveryTypeOK, ApiTypeOK, storeVars, apiVars
<1>9. ASSUME NEW w \in Worker, BeginCommit(w), UNCHANGED <<recovered, apiVars>>
      PROVE  TypeOK'
  BY <1>9, GotoType, Labels, WriteType, NoSessionType, <1>l DEF
     BeginCommit, HeldLabel, WorkLabel, TypeOK, StoreTypeOK,
     WorkerTypeOK, RecoveryTypeOK, ApiTypeOK, storeVars, apiVars
<1>10. ASSUME NEW w \in Worker, ExecuteOk(w), UNCHANGED <<recovered, apiVars>>
      PROVE  TypeOK'
  BY <1>10, GotoType, Labels DEF
     ExecuteOk, TypeOK, StoreTypeOK, WorkerTypeOK, RecoveryTypeOK,
     ApiTypeOK, storeVars, apiVars
<1>11. ASSUME NEW w \in Worker, ExecuteFails(w),
              UNCHANGED <<recovered, apiVars>>
      PROVE  TypeOK'
  BY <1>11, GotoType, Labels DEF
     ExecuteFails, TypeOK, StoreTypeOK, WorkerTypeOK, RecoveryTypeOK,
     ApiTypeOK, storeVars, apiVars
<1>12. ASSUME NEW w \in Worker, FinishLoad(w), UNCHANGED <<recovered, apiVars>>
      PROVE  TypeOK'
  BY <1>12, GotoType, Labels, LoadType, <1>l DEF
     FinishLoad, HeldLabel, WorkLabel, TypeOK, StoreTypeOK,
     WorkerTypeOK, RecoveryTypeOK, ApiTypeOK, storeVars, apiVars
<1>13. ASSUME NEW w \in Worker, FinishDiscard(w),
              UNCHANGED <<recovered, apiVars>>
      PROVE  TypeOK'
  BY <1>13, LeaveType, Labels DEF
     FinishDiscard, NextRound, TypeOK, StoreTypeOK, WorkerTypeOK,
     RecoveryTypeOK, ApiTypeOK, storeVars, apiVars
<1>14. ASSUME NEW w \in Worker, FinishCommit(w),
              UNCHANGED <<recovered, apiVars>>
      PROVE  TypeOK'
  BY <1>14, LeaveType, Labels, WriteType, <1>l DEF
     FinishCommit, NextRound, HeldLabel, WorkLabel, TypeOK,
     StoreTypeOK, WorkerTypeOK, RecoveryTypeOK, ApiTypeOK, storeVars,
     apiVars
<1>15. ASSUME NEW w \in Worker, FailLoad(w), UNCHANGED <<recovered, apiVars>>
      PROVE  TypeOK'
  BY <1>15, GotoType, Labels, LoadType, <1>l DEF
     FailLoad, HeldLabel, WorkLabel, AfterFailLoad, TypeOK,
     StoreTypeOK, WorkerTypeOK, RecoveryTypeOK, ApiTypeOK, storeVars,
     apiVars
<1>16. ASSUME NEW w \in Worker, EnqueueRetry(w),
              UNCHANGED <<recovered, apiVars>>
      PROVE  TypeOK'
  BY <1>16, GotoType, Labels, RetryType, <1>l DEF
     EnqueueRetry, HeldLabel, WorkLabel, TypeOK, StoreTypeOK,
     WorkerTypeOK, RecoveryTypeOK, ApiTypeOK, storeVars, apiVars
<1>17. ASSUME NEW w \in Worker, FailCommit(w), UNCHANGED <<recovered, apiVars>>
      PROVE  TypeOK'
  BY <1>17, LeaveType, Labels, WriteType, <1>l DEF
     FailCommit, NextRound, HeldLabel, WorkLabel, TypeOK, StoreTypeOK,
     WorkerTypeOK, RecoveryTypeOK, ApiTypeOK, storeVars, apiVars
<1>18. ASSUME NEW w \in Worker, LoopError(w), UNCHANGED <<recovered, apiVars>>
      PROVE  TypeOK'
  BY <1>18, LeaveType, Labels, FaultType DEF
     LoopError, NextRound, TypeOK, StoreTypeOK, WorkerTypeOK,
     RecoveryTypeOK, ApiTypeOK, storeVars, apiVars
<1>19. ASSUME NEW w \in Worker, FinishError(w),
              UNCHANGED <<recovered, apiVars>>
      PROVE  TypeOK'
  BY <1>19, GotoType, Labels, FaultType, NoSessionType DEF
     FinishError, TypeOK, StoreTypeOK, WorkerTypeOK, RecoveryTypeOK,
     ApiTypeOK, storeVars, apiVars
<1>20. ASSUME NEW w \in Worker, BeginCommitUnacknowledged(w),
              UNCHANGED <<recovered, apiVars>>
      PROVE  TypeOK'
  BY <1>20, LeaveType, Labels, FaultType, WriteType, <1>l DEF
     BeginCommitUnacknowledged, NextRound, HeldLabel, WorkLabel,
     TypeOK, StoreTypeOK, WorkerTypeOK, RecoveryTypeOK, ApiTypeOK,
     storeVars, apiVars
<1>21. ASSUME NEW w \in Worker, FinishCommitUnacknowledged(w),
              UNCHANGED <<recovered, apiVars>>
      PROVE  TypeOK'
  BY <1>21, GotoType, Labels, FaultType, WriteType, NoSessionType, <1>l DEF
     FinishCommitUnacknowledged, HeldLabel, WorkLabel, TypeOK,
     StoreTypeOK, WorkerTypeOK, RecoveryTypeOK, ApiTypeOK, storeVars,
     apiVars
<1>22. ASSUME NEW w \in Worker, Crash(w), UNCHANGED <<recovered, apiVars>>
      PROVE  TypeOK'
  BY <1>22, LeaveType, Labels, FaultType DEF
     Crash, TypeOK, StoreTypeOK, WorkerTypeOK, RecoveryTypeOK,
     ApiTypeOK, storeVars, apiVars
<1>23. ASSUME NEW w \in Worker, Start(w), UNCHANGED apiVars
      PROVE  TypeOK'
  BY <1>23, GotoType, Labels DEF
     Start, TypeOK, StoreTypeOK, WorkerTypeOK, RecoveryTypeOK,
     ApiTypeOK, storeVars, apiVars
<1>24. ASSUME NEW w \in Worker, RecoverySelect(w), UNCHANGED apiVars
      PROVE  TypeOK'
  BY <1>24, GotoType, Labels, NewRowIsRow DEF
     RecoverySelect, StuckJobs, TypeOK, StoreTypeOK, WorkerTypeOK,
     RecoveryTypeOK, ApiTypeOK, storeVars, apiVars
<1>25. ASSUME NEW w \in Worker, RecoveryClean(w), UNCHANGED apiVars
      PROVE  TypeOK'
  BY <1>25, LeaveType, Labels DEF
     RecoveryClean, NextRound, TypeOK, StoreTypeOK, WorkerTypeOK,
     RecoveryTypeOK, ApiTypeOK, storeVars, apiVars
<1>26. ASSUME NEW w \in Worker, NEW k \in Job, RecoverJob(w, k),
              UNCHANGED apiVars
      PROVE  TypeOK'
  BY <1>26, GotoType, Labels, RetryType DEF
     RecoverJob, TypeOK, StoreTypeOK, WorkerTypeOK, RecoveryTypeOK,
     ApiTypeOK, storeVars, apiVars
<1>27. ASSUME NEW w \in Worker, RecoveryCommit(w), UNCHANGED apiVars
      PROVE  TypeOK'
  <2>1. \A j \in Job : MarkRecovered(db[j], session[w][j], MaxAttempts[j]) \in Row
    BY RowUpdates, JobAssumption DEF TypeOK, StoreTypeOK, WorkerTypeOK
  <2>2. db' \in [Job -> Row]
    BY <1>27, <2>1 DEF RecoveryCommit, TypeOK, StoreTypeOK
  <2>. QED
    BY <1>27, <2>2, LeaveType, Labels DEF RecoveryCommit, NextRound, TypeOK,
       StoreTypeOK, WorkerTypeOK, RecoveryTypeOK, ApiTypeOK, apiVars
<1>28. ASSUME NEW w \in Worker, RecoveryError(w), UNCHANGED apiVars
      PROVE  TypeOK'
  BY <1>28, LeaveType, Labels, FaultType DEF
     RecoveryError, TypeOK, StoreTypeOK, WorkerTypeOK, RecoveryTypeOK,
     ApiTypeOK, storeVars, apiVars
<1>29. ASSUME NEW k \in Job, CreateFlush(k),
              UNCHANGED <<workerVars, faults, recovered>>
      PROVE  TypeOK'
  BY <1>29 DEF
     CreateFlush, CreateGoto, CreateLabel, workerVars, TypeOK,
     StoreTypeOK, WorkerTypeOK, RecoveryTypeOK, ApiTypeOK, storeVars,
     apiVars
<1>30. ASSUME NEW k \in Job, CreateEnqueue(k),
              UNCHANGED <<workerVars, faults, recovered>>
      PROVE  TypeOK'
  BY <1>30 DEF
     CreateEnqueue, CreateGoto, CreateLabel, enqueue_priority,
     workerVars, TypeOK, StoreTypeOK, WorkerTypeOK, RecoveryTypeOK,
     ApiTypeOK, storeVars, apiVars
<1>31. ASSUME NEW k \in Job, CreateCommit(k),
              UNCHANGED <<workerVars, faults, recovered>>
      PROVE  TypeOK'
  BY <1>31, NewRowIsRow DEF
     CreateCommit, CreateGoto, CreateLabel, workerVars, TypeOK,
     StoreTypeOK, WorkerTypeOK, RecoveryTypeOK, ApiTypeOK, storeVars,
     apiVars
<1>32. ASSUME NEW c \in Canceller, CancelLoad(c),
              UNCHANGED <<workerVars, faults, recovered>>
      PROVE  TypeOK'
  BY <1>32 DEF
     CancelLoad, CancelGoto, CancelReply, CancelLabel, workerVars,
     TypeOK, StoreTypeOK, WorkerTypeOK, RecoveryTypeOK, ApiTypeOK,
     storeVars, apiVars
<1>33. ASSUME NEW c \in Canceller, CancelRemovePriority(c),
              UNCHANGED <<workerVars, faults, recovered>>
      PROVE  TypeOK'
  BY <1>33 DEF
     CancelRemovePriority, CancelGoto, CancelLabel,
     remove_from_priority, workerVars, TypeOK, StoreTypeOK,
     WorkerTypeOK, RecoveryTypeOK, ApiTypeOK, storeVars, apiVars
<1>34. ASSUME NEW c \in Canceller, CancelRemoveRetry(c),
              UNCHANGED <<workerVars, faults, recovered>>
      PROVE  TypeOK'
  BY <1>34, RetryType DEF
     CancelRemoveRetry, CancelGoto, CancelLabel, workerVars, TypeOK,
     StoreTypeOK, WorkerTypeOK, RecoveryTypeOK, ApiTypeOK, storeVars,
     apiVars
<1>35. ASSUME NEW c \in Canceller, CancelCommit(c),
              UNCHANGED <<workerVars, faults, recovered>>
      PROVE  TypeOK'
  BY <1>35, RowUpdates, JobAssumption DEF
     CancelCommit, CancelGoto, CancelLabel, workerVars, TypeOK,
     StoreTypeOK, WorkerTypeOK, RecoveryTypeOK, ApiTypeOK, storeVars,
     apiVars
<1>36. ASSUME NEW k \in Job, CreateAbort(k),
              InjectFault, UNCHANGED <<workerVars, recovered>>
      PROVE  TypeOK'
  BY <1>36, FaultType DEF
     CreateAbort, CreateGoto, CreateLabel, workerVars, TypeOK,
     StoreTypeOK, WorkerTypeOK, RecoveryTypeOK, ApiTypeOK, storeVars,
     apiVars
<1>37. ASSUME NEW c \in Canceller, CancelAbort(c),
              InjectFault, UNCHANGED <<workerVars, recovered>>
      PROVE  TypeOK'
  BY <1>37, FaultType DEF
     CancelAbort, CancelGoto, CancelLabel, workerVars, TypeOK,
     StoreTypeOK, WorkerTypeOK, RecoveryTypeOK, ApiTypeOK, storeVars,
     apiVars
<1>38. ASSUME NEW k \in Job, Mature(k)
      PROVE  TypeOK'
  BY <1>38 DEF
     Mature, RetryState, workerVars, TypeOK, StoreTypeOK,
     WorkerTypeOK, RecoveryTypeOK, ApiTypeOK, storeVars, apiVars
<1>39. ASSUME NEW k \in Job, Age(k)
      PROVE  TypeOK'
  <2>1. [db[k] EXCEPT !.started = "old"] \in Row
    BY DEF TypeOK, StoreTypeOK, Row, StartedAt
  <2>2. db' \in [Job -> Row]
    BY <1>39, <2>1 DEF Age, TypeOK, StoreTypeOK
  <2>. QED
    BY <1>39, <2>2 DEF Age, workerVars, TypeOK, StoreTypeOK, WorkerTypeOK,
       RecoveryTypeOK, ApiTypeOK, apiVars
<1>40. ASSUME NEW w \in Worker, NoExecutor(w), UNCHANGED <<recovered, apiVars>>
      PROVE  TypeOK'
  BY <1>40, LeaveType, Labels DEF
     NoExecutor, NextRound, TypeOK, StoreTypeOK, WorkerTypeOK,
     RecoveryTypeOK, ApiTypeOK, storeVars, apiVars
<1>. QED
  BY StepCases, <1>1, <1>2, <1>3, <1>4, <1>5, <1>6, <1>7, <1>8, <1>9, <1>10, <1>11, <1>12, <1>13, <1>14, <1>15, <1>16, <1>17, <1>18, <1>19, <1>20, <1>21, <1>22, <1>23, <1>24, <1>25, <1>26, <1>27, <1>28, <1>29, <1>30, <1>31, <1>32, <1>33, <1>34, <1>35, <1>36, <1>37, <1>38, <1>39, <1>40
=============================================================================
