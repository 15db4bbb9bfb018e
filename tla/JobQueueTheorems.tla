-------------------------- MODULE JobQueueTheorems --------------------------
(***************************************************************************)
(* The safety properties of JobQueue, for any number of workers, jobs,     *)
(* cancel requests and faults.                                             *)
(***************************************************************************)
EXTENDS JobQueueInvariance

-----------------------------------------------------------------------------

(* The variables keep their types.                                         *)
THEOREM TypeCorrect == Spec => []TypeOK
<1>1. IInv => TypeOK
  BY DEF IInv
<1>. QED
  BY <1>1, Invariance, PTL

(* No two workers execute the same job at the same time.                   *)
THEOREM Exclusion == Spec => []ExclusiveExecution
<1>1. IInv => ExclusiveExecution
  BY SoleHolder DEF IInv, ExclusiveExecution, Working
<1>. QED
  BY <1>1, Invariance, PTL

(* Attempts are counted one for one: attempts is the number of starts.     *)
THEOREM AttemptsAreCounted == Spec => []AttemptsMatchStarts
<1>1. IInv => AttemptsMatchStarts
  BY DEF IInv
<1>. QED
  BY <1>1, Invariance, PTL

(* No job is given more attempts than max_attempts, and a job that waits   *)
(* has one left.                                                           *)
THEOREM RetriesAreBounded == Spec => []RetryBudget
<1>1. IInv => RetryBudget
  BY DEF IInv
<1>. QED
  BY <1>1, Invariance, PTL

(* A finished row says how it finished.                                    *)
THEOREM OutcomesAreRecorded == Spec => []OutcomeRecorded
<1>1. IInv => OutcomeRecorded
  BY DEF IInv
<1>. QED
  BY <1>1, Invariance, PTL

-----------------------------------------------------------------------------
(* Processing rows and the workers at them.                                *)

(* Faults come one at a time.                                              *)
LEMMA FaultsGrow ==
  ASSUME IInv, Next
  PROVE  faults \in Nat /\ (faults' = faults \/ faults' = faults + 1)
BY StepCases, WorkerAssumption
DEF DrainScan, DrainClaim, RequeueLoad, RequeueAdd, DequeuePriority,
    DequeueNothing, LoadQueued, LoadSkipped, BeginCommit, ExecuteOk,
    ExecuteFails, NoExecutor, FinishLoad, FinishDiscard, FinishCommit, FailLoad,
    EnqueueRetry, FailCommit, LoopError, FinishError,
    BeginCommitUnacknowledged, FinishCommitUnacknowledged, Crash, Start,
    RecoverySelect, RecoveryClean, RecoverJob, RecoveryCommit, RecoveryError,
    CreateFlush, CreateEnqueue, CreateCommit, CancelLoad, CancelRemovePriority,
    CancelRemoveRetry, CancelCommit, CreateAbort, CancelAbort, Mature, Age,
    InjectFault, IInv, TypeOK, WorkerTypeOK

(* Without a fault a worker stops working on a job at one of four places.  *)
LEMMA WorkEnds ==
  ASSUME IInv, Next, faults' = 0,
         NEW w \in Worker, NEW j \in Job, Working(w, j), ~Working(w, j)'
  PROVE  NoExecutor(w) \/ FinishDiscard(w) \/ FinishCommit(w) \/ FailCommit(w)
<1>1. faults \in Nat
  BY WorkerAssumption DEF IInv, TypeOK, WorkerTypeOK
<1>2. ~InjectFault
  BY <1>1 DEF InjectFault
<1>. QED
  BY StepCases, <1>2, WorkerAssumption
  DEF DrainScan, DrainClaim, RequeueLoad, RequeueAdd, DequeuePriority,
      DequeueNothing, LoadQueued, LoadSkipped, BeginCommit, ExecuteOk, ExecuteFails,
      NoExecutor, FinishLoad, FinishDiscard, FinishCommit, FailLoad, AfterFailLoad,
      EnqueueRetry, FailCommit, LoopError, FinishError, BeginCommitUnacknowledged,
      FinishCommitUnacknowledged, Crash, Start, RecoverySelect, RecoveryClean,
      RecoverJob, RecoveryCommit, RecoveryError, CreateFlush, CreateEnqueue,
      CreateCommit, CancelLoad, CancelRemovePriority, CancelRemoveRetry,
      CancelCommit, CreateAbort, CancelAbort, Mature, Age, NextRound, Leave, Goto,
      AfterClaim, workerVars, Working, WorkLabel, IInv, TypeOK, WorkerTypeOK

(* A row becomes processing by the commit of a start.                      *)
LEMMA ProcessingBegins ==
  ASSUME IInv, Next, faults' = 0, NEW j \in Job \ recovered,
         db'[j].status = "processing", db[j].status # "processing"
  PROVE  \E w \in Worker : held[w] = j /\ BeginCommit(w)
<1>1. ~InjectFault
  BY WorkerAssumption DEF IInv, TypeOK, WorkerTypeOK, InjectFault
<1>2. ASSUME NEW w \in Worker, BeginCommit(w)
      PROVE  held[w] = j
  <2>1. pc[w] \in WriteLabel /\ WriteProcessing(w)
    BY <1>2 DEF BeginCommit, WriteLabel
  <2>. QED
    BY <2>1, WriteKeepsRows DEF IInv
<1>3. ASSUME NEW w \in Worker, FinishCommit(w) \/ FailCommit(w)
      PROVE  FALSE
  <2>1. pc[w] \in WriteLabel /\ (WriteCompleted(w) \/ FailCommit(w))
    BY <1>3 DEF FinishCommit, FailCommit, WriteLabel
  <2>2. j = held[w]
    BY <2>1, WriteKeepsRows DEF IInv
  <2>3. /\ db \in [Job -> Row] /\ held[w] \in Job /\ Loaded(w) \in Row
        /\ MaxAttempts[held[w]] \in Nat
    BY <2>1, WriterFacts DEF IInv, TypeOK, StoreTypeOK
  <2>4. CASE WriteCompleted(w)
    BY <2>2, <2>3, <2>4, CompletedEffect DEF WriteCompleted, NetChange
  <2>5. CASE FailCommit(w)
    BY <2>2, <2>3, <2>5, FailureEffect DEF FailCommit, NetChange
  <2>. QED BY <2>1, <2>4, <2>5
<1>4. ASSUME NEW w \in Worker, RecoveryCommit(w)
      PROVE  FALSE
  <2>1. ~InSession(w, j)
    BY <1>4 DEF RecoveryCommit, IInv, LocalInv, LocalOK, WriteLabel
  <2>. QED
    BY <1>4, <2>1 DEF RecoveryCommit
<1>5. ASSUME NEW c \in Canceller, CancelCommit(c)
      PROVE  FALSE
  BY <1>5, CancelledEffect DEF CancelCommit, IInv, TypeOK, StoreTypeOK
<1>6. ASSUME NEW k \in Job, CreateCommit(k)
      PROVE  FALSE
  BY <1>6 DEF CreateCommit, NewRow, IInv, TypeOK, StoreTypeOK
<1>7. ASSUME NEW k \in Job, Age(k)
      PROVE  FALSE
  BY <1>7 DEF Age, IInv, TypeOK, StoreTypeOK
<1>8. ~UNCHANGED db
  OBVIOUS
<1>. QED
  BY StepCases, <1>1, <1>2, <1>3, <1>4, <1>5, <1>6, <1>7, <1>8
  DEF DrainScan, DrainClaim, RequeueLoad, RequeueAdd, DequeuePriority,
      DequeueNothing, LoadQueued, LoadSkipped, ExecuteOk, ExecuteFails, NoExecutor,
      FinishLoad, FinishDiscard, FailLoad, EnqueueRetry, LoopError, FinishError,
      BeginCommitUnacknowledged, FinishCommitUnacknowledged,
      Crash, Start, RecoverySelect, RecoveryClean, RecoverJob, RecoveryError,
      CreateFlush, CreateEnqueue, CancelLoad, CancelRemovePriority,
      CancelRemoveRetry, CreateAbort, CancelAbort, Mature, storeVars

(* The commit of an outcome finds the row processing as it loaded it, or   *)
(* cancelled, and leaves it in another status.                             *)
LEMMA OutcomeLeaves ==
  ASSUME IInv, NEW w \in Worker, NEW j \in Job \ recovered,
         held[w] = j, db[j].status = "processing",
         FinishCommit(w) \/ FailCommit(w)
  PROVE  db'[j].status # "processing"
<1>1. pc[w] \in WriteLabel
  BY DEF FinishCommit, FailCommit, WriteLabel
<1>2. /\ db \in [Job -> Row] /\ Loaded(w) \in Row /\ Loaded(w) = session[w][j]
      /\ MaxAttempts[j] \in Nat
  BY <1>1, WriterFacts DEF IInv, TypeOK, StoreTypeOK
<1>3. Loaded(w).status = "processing"
  BY <1>1, <1>2 DEF IInv, FreshInv, FreshOK, Agree
<1>4. CASE FinishCommit(w)
  BY <1>2, <1>3, <1>4, CompletedEffect DEF FinishCommit, WriteCompleted, NetChange
<1>5. CASE FailCommit(w)
  BY <1>2, <1>3, <1>5, FailureEffect DEF FailCommit, NetChange
<1>. QED BY <1>4, <1>5

(* A processing row keeps its worker until the outcome is committed.       *)
LEMMA AttendedStep ==
  ASSUME IInv, ProcessingIsAttended, Next
  PROVE  ProcessingIsAttended'
<1>. SUFFICES ASSUME faults' = 0, NEW j \in Job, j \notin Unregistered,
                     j \notin recovered', db'[j].status = "processing"
              PROVE  \E w \in Worker : Working(w, j)'
  BY DEF ProcessingIsAttended
<1>1. j \notin recovered
  BY RecoveredGrows
<1>2. CASE db[j].status # "processing"
  <2>1. PICK w \in Worker : held[w] = j /\ BeginCommit(w)
    BY <1>1, <1>2, ProcessingBegins
  <2>2. Working(w, j)'
    BY <2>1 DEF BeginCommit, Goto, Working, WorkLabel, IInv, TypeOK, WorkerTypeOK
  <2>. QED BY <2>2
<1>3. CASE db[j].status = "processing"
  <2>1. faults = 0
    BY FaultsGrow
  <2>2. PICK w \in Worker : Working(w, j)
    BY <1>1, <1>3, <2>1 DEF ProcessingIsAttended
  <2>3. CASE Working(w, j)'
    BY <2>3
  <2>4. CASE ~Working(w, j)'
    <3>1. NoExecutor(w) \/ FinishDiscard(w) \/ FinishCommit(w) \/ FailCommit(w)
      BY <2>2, <2>4, WorkEnds
    <3>2. held[w] = j
      BY <2>2 DEF Working
    <3>. QED
      BY <1>1, <1>3, <3>1, <3>2, OutcomeLeaves DEF NoExecutor, FinishDiscard, Discardable
  <2>. QED BY <2>3, <2>4
<1>. QED BY <1>2, <1>3

(* Unless something fails, no path through the loop leaves a job of a      *)
(* registered type processing and goes on, whoever cancels meanwhile.      *)
THEOREM NoneIsLeftProcessing == Spec => []ProcessingIsAttended
<1>1. Init => ProcessingIsAttended
  BY DEF Init, ProcessingIsAttended, NewRow, NoRow
<1>2. IInv /\ ProcessingIsAttended /\ [Next]_vars => ProcessingIsAttended'
  <2>1. ProcessingIsAttended /\ UNCHANGED vars => ProcessingIsAttended'
    BY DEF vars, storeVars, workerVars, ProcessingIsAttended, Working
  <2>. QED BY <2>1, AttendedStep
<1>. QED
  BY <1>1, <1>2, Invariance, PTL DEF Spec

-----------------------------------------------------------------------------
(* Startup recovery and the living.                                        *)

(* A worker comes to work on a job by the commit that sets started_at.     *)
LEMMA WorkBegins ==
  ASSUME IInv, Next, NEW w \in Worker, NEW j \in Job, Working(w, j)', ~Working(w, j)
  PROVE  held[w] = j /\ BeginCommit(w)
BY StepCases, WorkerAssumption
DEF DrainScan, DrainClaim, RequeueLoad, RequeueAdd, DequeuePriority,
    DequeueNothing, LoadQueued, LoadSkipped, BeginCommit, ExecuteOk, ExecuteFails, NoExecutor,
    FinishLoad, FinishDiscard, FinishCommit, FailLoad, AfterFailLoad, EnqueueRetry,
    FailCommit, LoopError, FinishError, BeginCommitUnacknowledged,
    FinishCommitUnacknowledged, Crash, Start, RecoverySelect, RecoveryClean,
    RecoverJob, RecoveryCommit, RecoveryError, Mature, Age, NextRound, Leave, Goto,
    AfterClaim, workerVars, Working, WorkLabel, IInv, TypeOK, WorkerTypeOK

(* The commits of the loop on a row of their own.                          *)
LEMMA StuckAfterWrite ==
  ASSUME IInv, NEW w \in Worker, pc[w] \in WriteLabel,
         \/ pc[w] = "begin" /\ WriteProcessing(w)
         \/ pc[w] \in WorkLabel /\ (WriteCompleted(w) \/ FailCommit(w)),
         NEW j \in Job, Stuck(j)'
  PROVE  Stuck(j) /\ ~(held[w] = j /\ pc[w] = "begin")
<1>1. /\ db \in [Job -> Row] /\ held[w] \in Job /\ Loaded(w) \in Row
      /\ MaxAttempts[held[w]] \in Nat
  BY WriterFacts DEF IInv, TypeOK, StoreTypeOK
<1>2. CASE j # held[w]
  BY <1>2, WriteKeepsRows DEF IInv, Stuck
<1>3. CASE j = held[w] /\ pc[w] = "begin" /\ WriteProcessing(w)
  BY <1>1, <1>3, ProcessingEffect DEF WriteProcessing, Stuck
<1>4. CASE j = held[w] /\ pc[w] \in WorkLabel /\ WriteCompleted(w)
  BY <1>1, <1>4, CompletedEffect DEF WriteCompleted, Stuck, NetChange, WorkLabel
<1>5. CASE j = held[w] /\ pc[w] \in WorkLabel /\ FailCommit(w)
  BY <1>1, <1>5, FailureEffect DEF FailCommit, Stuck, NetChange, WorkLabel
<1>. QED BY <1>2, <1>3, <1>4, <1>5

(* A row comes to look stuck by ageing and in no other way.                *)
LEMMA StuckBegins ==
  ASSUME IInv, Next, NEW j \in Job, Stuck(j)'
  PROVE  Stuck(j) \/ Age(j)
<1>1. ASSUME NEW w \in Worker,
             \/ BeginCommit(w) \/ BeginCommitUnacknowledged(w)
             \/ FinishCommit(w) \/ FinishCommitUnacknowledged(w)
             \/ FailCommit(w)
      PROVE  Stuck(j)
  BY <1>1, StuckAfterWrite
  DEF BeginCommit, BeginCommitUnacknowledged, FinishCommit,
      FinishCommitUnacknowledged, FailCommit, WriteLabel, WorkLabel
<1>2. ASSUME NEW w \in Worker, RecoveryCommit(w)
      PROVE  Stuck(j)
  <2>1. db[j] \in Row /\ session[w][j] \in Row /\ MaxAttempts[j] \in Nat
    BY JobAssumption DEF IInv, TypeOK, StoreTypeOK, WorkerTypeOK
  <2>2. /\ MarkRecovered(db[j], session[w][j], MaxAttempts[j]).status
              \in {db[j].status, "failed", "queued"}
        /\ MarkRecovered(db[j], session[w][j], MaxAttempts[j]).started = db[j].started
    BY <2>1, RecoveredEffect
  <2>. QED
    BY <1>2, <2>2 DEF RecoveryCommit, Stuck
<1>3. ASSUME NEW c \in Canceller, CancelCommit(c)
      PROVE  Stuck(j)
  BY <1>3, CancelledEffect DEF CancelCommit, Stuck, IInv, TypeOK, StoreTypeOK
<1>4. ASSUME NEW k \in Job, CreateCommit(k)
      PROVE  Stuck(j)
  BY <1>4 DEF CreateCommit, Stuck, NewRow, NoRow, IInv, TypeOK, StoreTypeOK
<1>5. ASSUME NEW k \in Job, Age(k)
      PROVE  Stuck(j) \/ Age(j)
  BY <1>5 DEF Age, Stuck, IInv, TypeOK, StoreTypeOK
<1>6. CASE UNCHANGED db
  BY <1>6 DEF Stuck
<1>. QED
  BY StepCases, <1>1, <1>2, <1>3, <1>4, <1>5, <1>6
  DEF DrainScan, DrainClaim, RequeueLoad, RequeueAdd, DequeuePriority,
      DequeueNothing, LoadQueued, LoadSkipped, ExecuteOk, ExecuteFails, NoExecutor,
      FinishLoad, FinishDiscard, FailLoad, EnqueueRetry, LoopError, FinishError,
      Crash, Start, RecoverySelect, RecoveryClean, RecoverJob, RecoveryError,
      CreateFlush, CreateEnqueue, CancelLoad, CancelRemovePriority,
      CancelRemoveRetry, CreateAbort, CancelAbort, Mature, storeVars

(* The threshold keeps startup recovery away from living workers.          *)
LEMMA OrphanStep ==
  ASSUME ThresholdExceedsTimeout, IInv, StuckIsOrphan, Next
  PROVE  StuckIsOrphan'
<1>1. SUFFICES ASSUME NEW j \in Job, NEW w \in Worker, Stuck(j)', Working(w, j)'
               PROVE  FALSE
  BY DEF StuckIsOrphan
<1>2. CASE ~Working(w, j)
  <2>1. held[w] = j /\ BeginCommit(w)
    BY <1>1, <1>2, WorkBegins
  <2>. QED
    BY <1>1, <2>1, StuckAfterWrite DEF BeginCommit, WriteLabel
<1>3. CASE Working(w, j)
  <2>1. ~Stuck(j)
    BY <1>3 DEF StuckIsOrphan
  <2>2. ~Age(j)
    BY <1>3 DEF Age
  <2>. QED
    BY <1>1, <2>1, <2>2, StuckBegins
<1>. QED BY <1>2, <1>3

(* Given a stuck threshold longer than any execution, startup recovery     *)
(* never selects a job that a worker is executing.                         *)
THEOREM RecoverySparesTheLiving ==
  ThresholdExceedsTimeout => (Spec => []StuckIsOrphan)
<1>1. SUFFICES ASSUME ThresholdExceedsTimeout
               PROVE  Spec => []StuckIsOrphan
  OBVIOUS
<1>2. Init => StuckIsOrphan
  BY DEF Init, WorkerInit, StuckIsOrphan, Working, WorkLabel
<1>3. IInv /\ StuckIsOrphan /\ [Next]_vars => StuckIsOrphan'
  <2>1. IInv /\ StuckIsOrphan /\ Next => StuckIsOrphan'
    BY <1>1, OrphanStep
  <2>2. StuckIsOrphan /\ UNCHANGED vars => StuckIsOrphan'
    BY DEF vars, storeVars, workerVars, StuckIsOrphan, Stuck, Working
  <2>. QED BY <2>1, <2>2
<1>. QED
  BY <1>2, <1>3, Invariance, PTL DEF Spec

-----------------------------------------------------------------------------
(* A job that has ended has ended for good.                                *)

(* The row of a job changes in a session that is open on it, or if it is   *)
(* being created or processed.                                             *)
LEMMA QuietRow ==
  ASSUME IInv, Next, NEW j \in Job, Retired(j)
  PROVE  db'[j] = db[j]
<1>. db[j].status \notin {"absent", "processing"}
  BY DEF Retired, Terminal
<1>1. ASSUME NEW w \in Worker,
             \/ BeginCommit(w) \/ BeginCommitUnacknowledged(w)
             \/ FinishCommit(w) \/ FinishCommitUnacknowledged(w)
             \/ FailCommit(w)
      PROVE  db'[j] = db[j]
  <2>1. pc[w] \in WriteLabel /\ (WriteProcessing(w) \/ WriteCompleted(w) \/ FailCommit(w))
    BY <1>1 DEF BeginCommit, BeginCommitUnacknowledged, FinishCommit,
       FinishCommitUnacknowledged, FailCommit, WriteLabel
  <2>2. j # held[w]
    BY <2>1, WriterFacts DEF IInv, Retired, Quiet
  <2>. QED
    BY <2>1, <2>2, WriteKeepsRows DEF IInv
<1>2. ASSUME NEW w \in Worker, RecoveryCommit(w)
      PROVE  db'[j] = db[j]
  BY <1>2 DEF RecoveryCommit, Retired, Quiet
<1>3. ASSUME NEW c \in Canceller, CancelCommit(c)
      PROVE  db'[j] = db[j]
  BY <1>3 DEF CancelCommit, Cancelling, Retired, Quiet, IInv, TypeOK, StoreTypeOK
<1>4. ASSUME NEW k \in Job, CreateCommit(k)
      PROVE  db'[j] = db[j]
  BY <1>4 DEF CreateCommit, IInv, TypeOK, StoreTypeOK, ExistenceInv, ExistenceOK
<1>5. ASSUME NEW k \in Job, Age(k)
      PROVE  db'[j] = db[j]
  BY <1>5 DEF Age, IInv, TypeOK, StoreTypeOK
<1>6. CASE UNCHANGED db
  BY <1>6
<1>. QED
  BY StepCases, <1>1, <1>2, <1>3, <1>4, <1>5, <1>6
  DEF DrainScan, DrainClaim, RequeueLoad, RequeueAdd, DequeuePriority,
      DequeueNothing, LoadQueued, LoadSkipped, ExecuteOk, ExecuteFails, NoExecutor,
      FinishLoad, FinishDiscard, FailLoad, EnqueueRetry, LoopError, FinishError,
      Crash, Start, RecoverySelect, RecoveryClean, RecoverJob, RecoveryError,
      CreateFlush, CreateEnqueue, CancelLoad, CancelRemovePriority,
      CancelRemoveRetry, CreateAbort, CancelAbort, Mature, storeVars

(* A worker opens a session on a job it has in hand or finds processing,   *)
(* and stands before the commit of a start if it found the job queued.     *)
LEMMA SessionOpens ==
  ASSUME IInv, Next, NEW w \in Worker, NEW j \in Job,
         InSession(w, j)' \/ (pc'[w] = "begin" /\ held'[w] = j)
  PROVE  \/ InSession(w, j)
         \/ Working(w, j)
         \/ (pc[w] = "begin" /\ held[w] = j)
         \/ db[j].status \in {"queued", "processing"}
<1>1. ASSUME NEW v \in Worker, LoadQueued(v)
      PROVE  \/ InSession(w, j) \/ Working(w, j) \/ (pc[w] = "begin" /\ held[w] = j)
             \/ db[j].status \in {"queued", "processing"}
  <2>1. CASE v = w /\ held[w] = j
    BY <1>1, <2>1 DEF LoadQueued, Startable
  <2>2. CASE v # w
    BY <1>1, <2>2 DEF LoadQueued, Load, Goto, InSession, IInv, TypeOK, WorkerTypeOK
  <2>3. CASE v = w /\ held[w] # j
    BY <1>1, <2>3 DEF LoadQueued, Load, Goto, InSession, IInv, TypeOK, WorkerTypeOK
  <2>. QED BY <2>1, <2>2, <2>3
<1>2. ASSUME NEW v \in Worker, FinishLoad(v) \/ FailLoad(v)
      PROVE  \/ InSession(w, j) \/ Working(w, j) \/ (pc[w] = "begin" /\ held[w] = j)
  <2>1. CASE v = w /\ held[w] = j
    BY <1>2, <2>1 DEF FinishLoad, FailLoad, Working, WorkLabel
  <2>2. CASE v # w
    BY <1>2, <2>2
    DEF FinishLoad, FailLoad, AfterFailLoad, Load, Goto, InSession, IInv, TypeOK, WorkerTypeOK
  <2>3. CASE v = w /\ held[w] # j
    BY <1>2, <2>3
    DEF FinishLoad, FailLoad, AfterFailLoad, Load, Goto, InSession, IInv, TypeOK, WorkerTypeOK
  <2>. QED BY <2>1, <2>2, <2>3
<1>3. ASSUME NEW v \in Worker, RecoverySelect(v)
      PROVE  \/ InSession(w, j) \/ (pc[w] = "begin" /\ held[w] = j)
             \/ db[j].status \in {"queued", "processing"}
  BY <1>3
  DEF RecoverySelect, StuckJobs, Stuck, NoRow, Goto, InSession, IInv, TypeOK, WorkerTypeOK
<1>4. ASSUME NEW v \in Worker,
             \/ DrainScan(v) \/ RequeueAdd(v) \/ DequeueNothing(v)
             \/ ExecuteOk(v) \/ ExecuteFails(v) \/ EnqueueRetry(v) \/ Start(v)
             \/ \E k \in Job : \/ DrainClaim(v, k) \/ RequeueLoad(v, k)
                               \/ DequeuePriority(v, k) \/ RecoverJob(v, k)
      PROVE  \/ InSession(w, j) \/ (pc[w] = "begin" /\ held[w] = j)
  BY <1>4
  DEF DrainScan, RequeueAdd, DequeueNothing, ExecuteOk, ExecuteFails, EnqueueRetry, Start,
      DrainClaim, RequeueLoad, DequeuePriority, RecoverJob, AfterClaim, Goto, InSession,
      IInv, TypeOK, WorkerTypeOK
<1>5. ASSUME NEW v \in Worker,
             \/ LoadSkipped(v) \/ BeginCommit(v) \/ FinishDiscard(v) \/ FinishCommit(v)
             \/ FailCommit(v) \/ NoExecutor(v) \/ LoopError(v) \/ FinishError(v) \/ Crash(v)
             \/ BeginCommitUnacknowledged(v) \/ FinishCommitUnacknowledged(v)
             \/ RecoveryClean(v) \/ RecoveryCommit(v) \/ RecoveryError(v)
      PROVE  \/ InSession(w, j) \/ (pc[w] = "begin" /\ held[w] = j)
  BY <1>5
  DEF LoadSkipped, BeginCommit, FinishDiscard, FinishCommit, FailCommit, NoExecutor, LoopError,
      FinishError, Crash, BeginCommitUnacknowledged, FinishCommitUnacknowledged,
      RecoveryClean, RecoveryCommit, RecoveryError, NextRound, Leave, Goto, InSession,
      NoSession, NoRow, IInv, TypeOK, WorkerTypeOK
<1>6. CASE UNCHANGED workerVars
  BY <1>6 DEF workerVars, InSession
<1>. QED
  BY StepCases, <1>1, <1>2, <1>3, <1>4, <1>5, <1>6
  DEF CreateFlush, CreateEnqueue, CreateCommit, CancelLoad, CancelRemovePriority,
      CancelRemoveRetry, CancelCommit, CreateAbort, CancelAbort, Mature, Age, workerVars

(* A cancel request gets past its status check on a live job only.         *)
LEMMA CancelOpens ==
  ASSUME IInv, Next, NEW c \in Canceller, NEW j \in Job, Cancelling(c, j)'
  PROVE  Cancelling(c, j) \/ db[j].status \in Cancellable
BY StepCases
DEF CreateFlush, CreateEnqueue, CreateCommit, CancelLoad, CancelRemovePriority,
    CancelRemoveRetry, CancelCommit, CreateAbort, CancelAbort, Mature, Age,
    CancelGoto, CancelReply, Cancelling, apiVars, IInv, TypeOK, ApiTypeOK

(* Ids left over in the queues start nothing again.                        *)
THEOREM RetirementIsFinal == Spec => RetiredIsFinal
<1>1. ASSUME IInv, Next, NEW j \in Job, Retired(j)
      PROVE  Retired(j)' /\ db'[j] = db[j]
  <2>1. db'[j] = db[j]
    BY <1>1, QuietRow
  <2>2. /\ db[j].status \notin {"queued", "processing"}
        /\ db[j].status \notin Cancellable
    BY <1>1 DEF Retired, Terminal, Cancellable
  <2>3. ASSUME NEW w \in Worker
        PROVE  ~Working(w, j)'
    BY <1>1, WorkBegins DEF Retired, Quiet, BeginCommit
  <2>4. ASSUME NEW w \in Worker
        PROVE  ~InSession(w, j)' /\ ~(pc'[w] = "begin" /\ held'[w] = j)
    BY <1>1, <2>2, SessionOpens DEF Retired, Quiet
  <2>5. ASSUME NEW c \in Canceller
        PROVE  ~Cancelling(c, j)'
    BY <1>1, <2>2, CancelOpens DEF Retired, Quiet
  <2>6. Quiet(j)'
    BY <2>3, <2>4, <2>5 DEF Quiet
  <2>. QED BY <1>1, <2>1, <2>6 DEF Retired
<1>2. IInv /\ [Next]_vars
        => [\A j \in Job : Retired(j) => Retired(j)' /\ db'[j] = db[j]]_vars
  BY <1>1
<1>. QED
  BY <1>2, Invariance, PTL DEF Spec, RetiredIsFinal

-----------------------------------------------------------------------------
(* Jobs are not lost.                                                      *)

(* A claim can only become stale by a scan that finds the entry due.       *)
LEMMA StaleClaimBegins ==
  ASSUME IInv, Next, NEW j \in Job, StaleClaim(j)'
  PROVE  StaleClaim(j) \/ retry[j] = "due"
<1>1. PICK v \in Worker : pc'[v] = "claim" /\ j \in todo'[v]
  BY DEF StaleClaim
<1>2. \/ pc[v] = "claim" /\ j \in todo[v]
      \/ retry[j] = "due"
  BY <1>1, StepCases
  DEF DrainScan, DrainBatch, DueJobs, DrainClaim, RequeueLoad, RequeueAdd,
      DequeuePriority, DequeueNothing, LoadQueued, LoadSkipped, BeginCommit,
      ExecuteOk, ExecuteFails, NoExecutor, FinishLoad, FinishDiscard, FinishCommit,
      FailLoad, AfterFailLoad, EnqueueRetry, FailCommit, LoopError, FinishError,
      BeginCommitUnacknowledged, FinishCommitUnacknowledged, Crash, Start,
      RecoverySelect, RecoveryClean, RecoverJob, RecoveryCommit, RecoveryError,
      CreateFlush, CreateEnqueue, CreateCommit, CancelLoad, CancelRemovePriority,
      CancelRemoveRetry, CancelCommit, CreateAbort, CancelAbort, Mature, Age,
      NextRound, Leave, Goto, AfterClaim, workerVars, IInv, TypeOK, WorkerTypeOK
<1>. QED BY <1>2 DEF StaleClaim

(* An execution ends with no such claim on its job under way.              *)
LEMMA ExecutionEnds ==
  ASSUME PromptClaims, IInv, Next, NEW w \in Worker, NEW j \in Job,
         Working(w, j)', pc'[w] # "execute"
  PROVE  Working(w, j) /\ (pc[w] # "execute" \/ ~StaleClaim(j))
<1>1. held[w] = j /\ pc[w] \in WorkLabel /\ (pc[w] # "execute" \/ Timely(w))
  BY StepCases, WorkerAssumption
  DEF DrainScan, DrainClaim, RequeueLoad, RequeueAdd, DequeuePriority,
      DequeueNothing, LoadQueued, LoadSkipped, BeginCommit, ExecuteOk, ExecuteFails,
      NoExecutor, FinishLoad, FinishDiscard, FinishCommit, FailLoad, AfterFailLoad,
      EnqueueRetry, FailCommit, LoopError, FinishError, BeginCommitUnacknowledged,
      FinishCommitUnacknowledged, Crash, Start, RecoverySelect, RecoveryClean,
      RecoverJob, RecoveryCommit, RecoveryError, CreateFlush, CreateEnqueue,
      CreateCommit, CancelLoad, CancelRemovePriority, CancelRemoveRetry,
      CancelCommit, CreateAbort, CancelAbort, Mature, Age, NextRound, Leave, Goto,
      AfterClaim, workerVars, Working, WorkLabel, IInv, TypeOK, WorkerTypeOK
<1>2. pc[w] = "execute" /\ Timely(w) => ~StaleClaim(j)
  BY <1>1 DEF Timely, Overtaken, StaleClaim
<1>. QED BY <1>1, <1>2 DEF Working

(* A worker comes to the commit of handle_failure by two steps.            *)
LEMMA FailureCommits ==
  ASSUME IInv, Next, NEW w \in Worker, NEW j \in Job, Failing(w, j)'
  PROVE  \/ Failing(w, j) /\ session'[w][j] = session[w][j]
         \/ FailLoad(w) /\ held[w] = j /\ Exhausted(db[j], MaxAttempts[j])
         \/ EnqueueRetry(w) /\ held[w] = j
<1>1. CASE FailLoad(w)
  BY <1>1 DEF FailLoad, AfterFailLoad, Goto, Failing, IInv, TypeOK, WorkerTypeOK
<1>2. CASE EnqueueRetry(w)
  BY <1>2 DEF EnqueueRetry, Failing
<1>3. ASSUME ~FailLoad(w), ~EnqueueRetry(w)
      PROVE  Failing(w, j) /\ session'[w][j] = session[w][j]
  <2>1. ASSUME NEW v \in Worker, v # w, FailLoad(v) \/ EnqueueRetry(v)
        PROVE  Failing(w, j) /\ session'[w][j] = session[w][j]
    BY <2>1
    DEF FailLoad, AfterFailLoad, EnqueueRetry, Load, Goto, Failing, IInv, TypeOK, WorkerTypeOK
  <2>. QED
    BY <1>3, <2>1, StepCases, WorkerAssumption
    DEF DrainScan, DrainClaim, RequeueLoad, RequeueAdd, DequeuePriority,
        DequeueNothing, LoadQueued, LoadSkipped, BeginCommit, ExecuteOk, ExecuteFails,
        NoExecutor, FinishLoad, FinishDiscard, FinishCommit, FailCommit, LoopError,
        FinishError, BeginCommitUnacknowledged, FinishCommitUnacknowledged, Crash,
        Start, RecoverySelect, RecoveryClean, RecoverJob, RecoveryCommit,
        RecoveryError, CreateFlush, CreateEnqueue, CreateCommit, CancelLoad,
        CancelRemovePriority, CancelRemoveRetry, CancelCommit, CreateAbort,
        CancelAbort, Mature, Age, NextRound, Leave, Goto, AfterClaim, Load,
        workerVars, Failing, IInv, TypeOK, WorkerTypeOK
<1>. QED BY <1>1, <1>2, <1>3

(* A worker comes to the push of a retry by its load.                      *)
LEMMA RetryDecided ==
  ASSUME IInv, Next, NEW w \in Worker, NEW j \in Job,
         held'[w] = j, pc'[w] = "enqueue_retry"
  PROVE  /\ held[w] = j
         /\ \/ pc[w] = "enqueue_retry" /\ session'[w][j] = session[w][j]
            \/ session'[w][j] = db[j] /\ ~Exhausted(db[j], MaxAttempts[j])
BY StepCases, WorkerAssumption
DEF DrainScan, DrainClaim, RequeueLoad, RequeueAdd, DequeuePriority,
    DequeueNothing, LoadQueued, LoadSkipped, BeginCommit, ExecuteOk, ExecuteFails,
    NoExecutor, FinishLoad, FinishDiscard, FinishCommit, FailLoad, AfterFailLoad,
    EnqueueRetry, FailCommit, LoopError, FinishError, BeginCommitUnacknowledged,
    FinishCommitUnacknowledged, Crash, Start, RecoverySelect, RecoveryClean,
    RecoverJob, RecoveryCommit, RecoveryError, CreateFlush, CreateEnqueue,
    CreateCommit, CancelLoad, CancelRemovePriority, CancelRemoveRetry,
    CancelCommit, CreateAbort, CancelAbort, Mature, Age, NextRound, Leave, Goto,
    AfterClaim, Load, workerVars, IInv, TypeOK, WorkerTypeOK

(* Nothing happens to the retry entry of a failure before its commit.      *)
LEMMA EntryStays ==
  ASSUME PromptCommits, Canceller = {}, IInv, HandoverInv, Next,
         NEW j \in Job \ recovered, NEW w \in Worker, Failing(w, j)
  PROVE  retry'[j] = retry[j]
<1>. ~StaleClaim(j) /\ RetryWriter(w, j)
  BY DEF HandoverInv, HandoverOK, Failing, Working, WorkLabel, RetryWriter
<1>1. ASSUME NEW v \in Worker, NEW k \in Job, DrainClaim(v, k)
      PROVE  retry'[j] = retry[j]
  BY <1>1 DEF DrainClaim, remove_from_retry, StaleClaim, IInv, TypeOK, StoreTypeOK
<1>2. ASSUME NEW v \in Worker, EnqueueRetry(v)
      PROVE  retry'[j] = retry[j]
  <2>1. held[v] # j
    BY <1>2, SoleHolder DEF EnqueueRetry, Failing, IInv
  <2>. QED
    BY <1>2, <2>1 DEF EnqueueRetry, enqueue_retry, IInv, TypeOK, StoreTypeOK
<1>3. ASSUME NEW v \in Worker, NEW k \in Job, RecoverJob(v, k)
      PROVE  retry'[j] = retry[j]
  <2>1. k # j
    BY <1>3 DEF RecoverJob, IInv, LocalInv, LocalOK, WriteLabel
  <2>. QED
    BY <1>3, <2>1 DEF RecoverJob, enqueue_retry, IInv, TypeOK, StoreTypeOK
<1>4. ASSUME NEW k \in Job, Mature(k)
      PROVE  retry'[j] = retry[j]
  BY <1>4 DEF Mature, IInv, TypeOK, StoreTypeOK
<1>5. CASE UNCHANGED retry
  BY <1>5
<1>. QED
  BY StepCases, <1>1, <1>2, <1>3, <1>4, <1>5
  DEF DrainScan, RequeueLoad, RequeueAdd, DequeuePriority, DequeueNothing,
      LoadQueued, LoadSkipped, BeginCommit, ExecuteOk, ExecuteFails, NoExecutor,
      FinishLoad, FinishDiscard, FinishCommit, FailLoad, FailCommit, LoopError,
      FinishError, BeginCommitUnacknowledged, FinishCommitUnacknowledged, Crash,
      Start, RecoverySelect, RecoveryClean, RecoveryCommit, RecoveryError,
      CreateFlush, CreateEnqueue, CreateCommit, CreateAbort, Age, storeVars

(* The entry that handle_failure pushes is there at its commit.            *)
LEMMA HandoverStep ==
  ASSUME PromptCommits, PromptClaims, Canceller = {}, IInv, HandoverInv, Next
  PROVE  HandoverInv'
<1>1. SUFFICES ASSUME NEW j \in Job, j \notin recovered', NEW w \in Worker
               PROVE  HandoverOK(w, j)'
  BY DEF HandoverInv
<1>2. j \notin recovered /\ HandoverOK(w, j) /\ TokenOK(j)
  BY <1>1, RecoveredGrows DEF HandoverInv, IInv, TokenInv
<1>3. ASSUME Working(w, j)', pc'[w] # "execute"
      PROVE  ~StaleClaim(j)'
  <2>1. Working(w, j) /\ ~StaleClaim(j)
    BY <1>2, <1>3, ExecutionEnds DEF HandoverOK
  <2>2. retry[j] # "due"
    BY <1>2, <2>1 DEF TokenOK, Holds, HandoverOK, Failing, Working
  <2>. QED
    BY <2>1, <2>2, StaleClaimBegins
<1>4. ASSUME Failing(w, j)'
      PROVE  retry'[j] = IF Exhausted(session'[w][j], MaxAttempts[j])
                           THEN "none" ELSE "waiting"
  <2>1. CASE Failing(w, j) /\ session'[w][j] = session[w][j]
    BY <1>2, <2>1, EntryStays DEF HandoverOK
  <2>2. CASE FailLoad(w) /\ held[w] = j /\ Exhausted(db[j], MaxAttempts[j])
    <3>1. session'[w][j] = db[j] /\ retry'[j] = retry[j]
      BY <2>2 DEF FailLoad, Load, storeVars, IInv, TypeOK, WorkerTypeOK
    <3>2. Holds(w, j)
      BY <2>2 DEF FailLoad, Holds
    <3>. QED
      BY <1>2, <2>2, <3>1, <3>2 DEF TokenOK
  <2>3. CASE EnqueueRetry(w) /\ held[w] = j
    BY <1>2, <2>3 DEF EnqueueRetry, enqueue_retry, HandoverOK, IInv, TypeOK, StoreTypeOK
  <2>. QED
    BY <1>4, <2>1, <2>2, <2>3, FailureCommits
<1>5. ASSUME held'[w] = j, pc'[w] = "enqueue_retry"
      PROVE  ~Exhausted(session'[w][j], MaxAttempts[j])
  BY <1>2, <1>5, RetryDecided DEF HandoverOK
<1>. QED
  BY <1>3, <1>4, <1>5 DEF HandoverOK

(* Prompt commits and prompt claims keep the retry entry of a failure in   *)
(* its place until the row says so too.                                    *)
LEMMA HandoverInvariance ==
  ASSUME PromptCommits, PromptClaims, Canceller = {}
  PROVE  Spec => []HandoverInv
<1>1. Init => HandoverInv
  BY DEF Init, WorkerInit, HandoverInv, HandoverOK, Working, WorkLabel, Failing
<1>2. IInv /\ HandoverInv /\ [Next]_vars => HandoverInv'
  <2>1. HandoverInv /\ UNCHANGED vars => HandoverInv'
    BY DEF vars, storeVars, workerVars, HandoverInv, HandoverOK, StaleClaim,
       Working, Failing
  <2>. QED BY <2>1, HandoverStep
<1>. QED
  BY <1>1, <1>2, Invariance, PTL DEF Spec

(* Requests that are over stay over.                                       *)
Created == creating = [j \in Job |-> "created"]

LEMMA CreatedInvariance ==
  ASSUME Preloaded = Job
  PROVE  Spec => []Created
<1>1. Init => Created
  BY DEF Init, ApiInit, Created
<1>2. Created /\ [Next]_vars => Created'
  <2>1. Created /\ Next => Created'
    BY StepCases
    DEF Created, apiVars, CreateFlush, CreateEnqueue, CreateCommit, CancelLoad,
        CancelRemovePriority, CancelRemoveRetry, CancelCommit, CreateAbort,
        CancelAbort, Mature, Age
  <2>. QED BY <2>1 DEF vars, apiVars, Created
<1>. QED
  BY <1>1, <1>2, PTL DEF Spec

(* A row that exists becomes queued again by the commit of handle_failure. *)
LEMMA QueuedBegins ==
  ASSUME IInv, Created, Next, NEW j \in Job \ recovered,
         db'[j].status = "queued", db[j].status # "queued"
  PROVE  \E w \in Worker :
           FailCommit(w) /\ held[w] = j /\ ~Exhausted(session[w][j], MaxAttempts[j])
<1>1. ASSUME NEW w \in Worker,
             \/ BeginCommit(w) \/ BeginCommitUnacknowledged(w)
             \/ FinishCommit(w) \/ FinishCommitUnacknowledged(w)
             \/ FailCommit(w)
      PROVE  FailCommit(w) /\ held[w] = j /\ ~Exhausted(session[w][j], MaxAttempts[j])
  <2>1. pc[w] \in WriteLabel /\ (WriteProcessing(w) \/ WriteCompleted(w) \/ FailCommit(w))
    BY <1>1 DEF BeginCommit, BeginCommitUnacknowledged, FinishCommit,
       FinishCommitUnacknowledged, FailCommit, WriteLabel
  <2>2. j = held[w]
    BY <2>1, WriteKeepsRows DEF IInv
  <2>3. /\ db \in [Job -> Row] /\ held[w] \in Job /\ Loaded(w) \in Row
        /\ Loaded(w) = session[w][j] /\ MaxAttempts[held[w]] \in Nat
    BY <2>1, <2>2, WriterFacts DEF IInv, TypeOK, StoreTypeOK
  <2>4. ~WriteProcessing(w)
    BY <2>2, <2>3, ProcessingEffect DEF WriteProcessing, NetChange
  <2>5. ~WriteCompleted(w)
    BY <2>2, <2>3, CompletedEffect DEF WriteCompleted, NetChange
  <2>6. FailCommit(w)
    BY <2>1, <2>4, <2>5
  <2>7. ~Exhausted(Loaded(w), MaxAttempts[j])
    BY <2>2, <2>3, <2>6, FailureEffect DEF FailCommit, NetChange
  <2>. QED BY <2>2, <2>3, <2>6, <2>7
<1>2. ASSUME NEW w \in Worker, RecoveryCommit(w)
      PROVE  FALSE
  <2>1. ~InSession(w, j)
    BY <1>2 DEF RecoveryCommit, IInv, LocalInv, LocalOK, WriteLabel
  <2>. QED
    BY <1>2, <2>1 DEF RecoveryCommit
<1>3. ASSUME NEW c \in Canceller, CancelCommit(c)
      PROVE  FALSE
  BY <1>3, CancelledEffect DEF CancelCommit, IInv, TypeOK, StoreTypeOK
<1>4. ASSUME NEW k \in Job, CreateCommit(k)
      PROVE  FALSE
  BY <1>4 DEF CreateCommit, Created
<1>5. ASSUME NEW k \in Job, Age(k)
      PROVE  FALSE
  BY <1>5 DEF Age, IInv, TypeOK, StoreTypeOK
<1>6. ~UNCHANGED db
  OBVIOUS
<1>. QED
  BY StepCases, <1>1, <1>2, <1>3, <1>4, <1>5, <1>6
  DEF DrainScan, DrainClaim, RequeueLoad, RequeueAdd, DequeuePriority,
      DequeueNothing, LoadQueued, LoadSkipped, ExecuteOk, ExecuteFails, NoExecutor,
      FinishLoad, FinishDiscard, FailLoad, EnqueueRetry, LoopError, FinishError,
      Crash, Start, RecoverySelect, RecoveryClean, RecoverJob, RecoveryError,
      CreateFlush, CreateEnqueue, CancelLoad, CancelRemovePriority,
      CancelRemoveRetry, CreateAbort, CancelAbort, Mature, storeVars

(* An id taken out of a queue is in the hands of whoever took it.          *)
LEMMA WaitingIsTaken ==
  ASSUME Canceller = {}, IInv, Next, NEW j \in Job,
         j \in priority \/ retry[j] # "none",
         j \notin priority', retry'[j] = "none"
  PROVE  InHand(j)'
<1>1. ASSUME NEW w \in Worker, NEW k \in Job, DequeuePriority(w, k)
      PROVE  InHand(j)'
  BY <1>1 DEF DequeuePriority, dequeue_priority, InHand, IInv, TypeOK, WorkerTypeOK
<1>2. ASSUME NEW w \in Worker, NEW k \in Job, DrainClaim(w, k)
      PROVE  InHand(j)'
  <2>1. k = j
    BY <1>2 DEF DrainClaim, remove_from_retry, IInv, TypeOK, StoreTypeOK
  <2>2. j \in claimed'[w]
    BY <1>2, <2>1 DEF DrainClaim, Removed, IInv, TypeOK, WorkerTypeOK
  <2>. QED BY <2>2 DEF InHand
<1>3. ASSUME NEW w \in Worker, RequeueAdd(w) \/ EnqueueRetry(w)
      PROVE  FALSE
  BY <1>3 DEF RequeueAdd, enqueue_priority, EnqueueRetry, enqueue_retry, IInv, TypeOK,
     StoreTypeOK
<1>4. ASSUME NEW k \in Job,
             CreateEnqueue(k) \/ Mature(k) \/ \E w \in Worker : RecoverJob(w, k)
      PROVE  FALSE
  BY <1>4 DEF CreateEnqueue, enqueue_priority, Mature, RecoverJob, enqueue_retry, IInv,
     TypeOK, StoreTypeOK
<1>5. ~UNCHANGED <<priority, retry>>
  OBVIOUS
<1>. QED
  BY StepCases, <1>1, <1>2, <1>3, <1>4, <1>5
  DEF DrainScan, RequeueLoad, DequeueNothing, LoadQueued, LoadSkipped, BeginCommit,
      ExecuteOk, ExecuteFails, NoExecutor, FinishLoad, FinishDiscard, FinishCommit,
      FailLoad, FailCommit, LoopError, FinishError, BeginCommitUnacknowledged,
      FinishCommitUnacknowledged, Crash, Start, RecoverySelect, RecoveryClean,
      RecoveryCommit, RecoveryError, CreateFlush, CreateCommit, CreateAbort, Age,
      storeVars

(* A worker lets go of a queued job by putting it back, or by a fault.     *)
LEMMA HandOpens ==
  ASSUME IInv, Next, NEW j \in Job \ recovered, NEW w \in Worker,
         held[w] = j \/ j \in claimed[w],
         db[j].status = "queued", ~InHand(j)', j \notin priority'
  PROVE  faults' = faults + 1 /\ pc'[w] # pc[w]
<1>1. held'[w] # j /\ j \notin claimed'[w]
  BY DEF InHand
<1>2. ~Working(w, j)
  BY DEF IInv, FreshInv, FreshOK
<1>3. /\ held[w] = j => pc[w] \in {"requeue_add", "load", "begin"}
      /\ j \in claimed[w] => pc[w] \in ClaimLabel
  BY <1>2, WorkerAssumption
  DEF IInv, TypeOK, WorkerTypeOK, LocalInv, LocalOK, HeldLabel, Working
<1>4. ASSUME NEW v \in Worker, v # w,
             \/ DrainScan(v) \/ RequeueAdd(v) \/ DequeueNothing(v) \/ LoadQueued(v)
             \/ LoadSkipped(v) \/ BeginCommit(v) \/ ExecuteOk(v) \/ ExecuteFails(v)
             \/ NoExecutor(v) \/ FinishLoad(v) \/ FinishDiscard(v) \/ FinishCommit(v)
             \/ FailLoad(v) \/ EnqueueRetry(v) \/ FailCommit(v) \/ LoopError(v)
             \/ FinishError(v) \/ BeginCommitUnacknowledged(v)
             \/ FinishCommitUnacknowledged(v) \/ Crash(v) \/ Start(v)
             \/ RecoverySelect(v) \/ RecoveryClean(v) \/ RecoveryCommit(v)
             \/ RecoveryError(v)
             \/ \E k \in Job : \/ DrainClaim(v, k) \/ RequeueLoad(v, k)
                               \/ DequeuePriority(v, k) \/ RecoverJob(v, k)
      PROVE  FALSE
  BY <1>1, <1>4
  DEF DrainScan, DrainClaim, RequeueLoad, RequeueAdd, DequeuePriority, DequeueNothing,
      LoadQueued, LoadSkipped, BeginCommit, ExecuteOk, ExecuteFails, NoExecutor,
      FinishLoad, FinishDiscard, FinishCommit, FailLoad, EnqueueRetry, FailCommit,
      LoopError, FinishError, BeginCommitUnacknowledged, FinishCommitUnacknowledged,
      Crash, Start, RecoverySelect, RecoveryClean, RecoverJob, RecoveryCommit,
      RecoveryError, NextRound, Leave, IInv, TypeOK, WorkerTypeOK
<1>5. ASSUME \/ RequeueAdd(w) \/ LoadQueued(w) \/ LoadSkipped(w) \/ BeginCommit(w)
             \/ \E k \in Job : DrainClaim(w, k) \/ RequeueLoad(w, k)
      PROVE  FALSE
  BY <1>1, <1>3, <1>5
  DEF RequeueAdd, enqueue_priority, LoadQueued, LoadSkipped, Startable, BeginCommit,
      DrainClaim, RequeueLoad, Requeueable, ClaimLabel, IInv, TypeOK, WorkerTypeOK
<1>6. ASSUME \/ DrainScan(w) \/ DequeueNothing(w) \/ ExecuteOk(w) \/ ExecuteFails(w)
             \/ NoExecutor(w) \/ FinishLoad(w) \/ FinishDiscard(w) \/ FinishCommit(w)
             \/ FailLoad(w) \/ EnqueueRetry(w) \/ FailCommit(w) \/ FinishError(w)
             \/ FinishCommitUnacknowledged(w) \/ Start(w) \/ RecoverySelect(w)
             \/ RecoveryClean(w) \/ RecoveryCommit(w) \/ RecoveryError(w)
             \/ \E k \in Job : DequeuePriority(w, k) \/ RecoverJob(w, k)
      PROVE  FALSE
  BY <1>3, <1>6
  DEF DrainScan, DequeuePriority, DequeueNothing, ExecuteOk, ExecuteFails, NoExecutor,
      FinishLoad, FinishDiscard, FinishCommit, FailLoad, EnqueueRetry, FailCommit,
      FinishError, FinishCommitUnacknowledged, Start, RecoverySelect, RecoveryClean,
      RecoverJob, RecoveryCommit, RecoveryError, ClaimLabel, RecoveryLabel
<1>7. ASSUME LoopError(w) \/ BeginCommitUnacknowledged(w) \/ Crash(w)
      PROVE  faults' = faults + 1 /\ pc'[w] # pc[w]
  BY <1>7
  DEF LoopError, BeginCommitUnacknowledged, Crash, NextRound, Leave, Goto, InjectFault,
      IInv, TypeOK, WorkerTypeOK
<1>8. ~UNCHANGED workerVars
  BY <1>1 DEF workerVars
<1>. QED
  BY StepCases, <1>4, <1>5, <1>6, <1>7, <1>8
  DEF CreateFlush, CreateEnqueue, CreateCommit, CancelLoad, CancelRemovePriority,
      CancelRemoveRetry, CancelCommit, CreateAbort, CancelAbort, Mature, Age

(* A job becomes lost by a fault of the worker that has it in hand.        *)
LEMMA LossStep ==
  ASSUME PromptCommits, PromptClaims, Canceller = {}, Created, IInv, HandoverInv, Next,
         NEW j \in Job \ recovered, ~Lost(j), Lost(j)'
  PROVE  /\ faults' = faults + 1
         /\ \E w \in Worker : (held[w] = j \/ j \in claimed[w]) /\ pc'[w] # pc[w]
<1>1. /\ db'[j].status = "queued" /\ j \notin priority' /\ retry'[j] = "none"
      /\ ~InHand(j)'
  BY DEF Lost
<1>2. db[j].status = "queued"
  <2>1. SUFFICES ASSUME db[j].status # "queued"
                 PROVE  FALSE
    OBVIOUS
  <2>2. PICK w \in Worker : /\ FailCommit(w) /\ held[w] = j
                            /\ ~Exhausted(session[w][j], MaxAttempts[j])
    BY <1>1, <2>1, QueuedBegins
  <2>3. retry[j] = "waiting"
    BY <2>2 DEF FailCommit, Failing, HandoverInv, HandoverOK
  <2>. QED
    BY <1>1, <2>2, <2>3 DEF FailCommit
<1>3. ~(j \in priority \/ retry[j] # "none")
  BY <1>1, WaitingIsTaken
<1>4. PICK w \in Worker : held[w] = j \/ j \in claimed[w]
  BY <1>2, <1>3 DEF Lost, InHand
<1>5. faults' = faults + 1 /\ pc'[w] # pc[w]
  BY <1>1, <1>2, <1>4, HandOpens
<1>. QED BY <1>4, <1>5

(* No job is lost but by a fault, and then by a fault of the worker that   *)
(* has the job in hand: as long as requests to create are over, no one     *)
(* cancels, and the awaits after a push and after a scan are short.        *)
THEOREM LossNeedsFault ==
  ASSUME PromptCommits, PromptClaims, Canceller = {}, Preloaded = Job
  PROVE  Spec => OnlyFaultsLose
<1>1. Spec => []HandoverInv
  BY HandoverInvariance
<1>2. Spec => []Created
  BY CreatedInvariance
<1>3. IInv /\ HandoverInv /\ Created /\ [Next]_vars
        => [\A j \in Job \ recovered : ~Lost(j) /\ Lost(j)' =>
              /\ faults' = faults + 1
              /\ \E w \in Worker : (held[w] = j \/ j \in claimed[w]) /\ pc'[w] # pc[w]]_vars
  BY LossStep
<1>. QED
  BY <1>1, <1>2, <1>3, Invariance, PTL DEF Spec, OnlyFaultsLose

(* While nothing has failed recovery has nothing to recover.               *)
NoneRecovered == faults = 0 => recovered = {}

LEMMA CleanStart ==
  ASSUME ThresholdExceedsTimeout, Unregistered = {}
  PROVE  Spec => []NoneRecovered
<1>1. Init => NoneRecovered
  BY DEF Init, RecoveryInit, NoneRecovered
<1>2. IInv /\ StuckIsOrphan /\ ProcessingIsAttended /\ NoneRecovered /\ [Next]_vars
        => NoneRecovered'
  <2>1. SUFFICES ASSUME IInv, StuckIsOrphan, ProcessingIsAttended, NoneRecovered,
                        [Next]_vars, faults' = 0
                 PROVE  recovered' = {}
    BY DEF NoneRecovered
  <2>2. CASE UNCHANGED vars
    BY <2>1, <2>2 DEF vars, NoneRecovered
  <2>3. CASE Next
    <3>1. faults = 0
      BY <2>1, <2>3, FaultsGrow
    <3>2. recovered = {}
      BY <2>1, <3>1 DEF NoneRecovered
    <3>3. StuckJobs = {}
      BY <2>1, <3>1, <3>2 DEF StuckJobs, Stuck, StuckIsOrphan, ProcessingIsAttended
    <3>. QED
      BY <2>3, <3>2, <3>3, StepCases
      DEF RecoverySelect, Start, RecoveryClean, RecoverJob, RecoveryCommit,
          RecoveryError, Mature, Age
  <2>. QED BY <2>1, <2>2, <2>3
<1>3. Spec => []StuckIsOrphan
  BY RecoverySparesTheLiving
<1>. QED
  BY <1>1, <1>2, <1>3, NoneIsLeftProcessing, Invariance, PTL DEF Spec

NoneLost == faults = 0 => NoLostJob

(* While nothing has failed, no queued job is lost.                        *)
THEOREM QueuedIsWaiting ==
  ASSUME PromptCommits, PromptClaims, ThresholdExceedsTimeout,
         Canceller = {}, Preloaded = Job, Unregistered = {}
  PROVE  Spec => [](faults = 0 => NoLostJob)
<1>1. Spec => []HandoverInv
  BY HandoverInvariance
<1>2. Spec => []Created
  BY CreatedInvariance
<1>3. Spec => []NoneRecovered
  BY CleanStart
<1>4. Init => NoneLost
  BY DEF Init, NoLostJob, NoneLost
<1>5. ASSUME IInv, HandoverInv, Created, NoneRecovered, Next,
             faults = 0 => NoLostJob, faults' = 0
      PROVE  NoLostJob'
  <2>1. faults = 0 /\ faults' # faults + 1
    BY <1>5, FaultsGrow
  <2>2. NoLostJob /\ recovered = {}
    BY <1>5, <2>1 DEF NoneRecovered
  <2>3. ASSUME NEW j \in Job
        PROVE  ~Lost(j)'
    <3>1. ~Lost(j)
      BY <2>2 DEF NoLostJob, Lost
    <3>. QED
      BY <1>5, <2>1, <2>2, <3>1, LossStep
  <2>. QED
    BY <2>3 DEF NoLostJob, Lost
<1>6. ASSUME UNCHANGED vars, faults = 0 => NoLostJob, faults' = 0
      PROVE  NoLostJob'
  BY <1>6 DEF vars, storeVars, workerVars, NoLostJob, InHand
<1>7. IInv /\ HandoverInv /\ Created /\ NoneRecovered /\ NoneLost /\ [Next]_vars
        => NoneLost'
  BY <1>5, <1>6 DEF NoneLost
<1>8. NoneLost => (faults = 0 => NoLostJob)
  BY DEF NoneLost
<1>. QED
  BY <1>1, <1>2, <1>3, <1>4, <1>7, <1>8, Invariance, PTL DEF Spec

-----------------------------------------------------------------------------
(* What a job goes through while nothing fails and no one cancels.         *)

(* It has been so from the start.                                          *)
LEMMA CalmBefore ==
  ASSUME IInv, Next, Undisturbed'
  PROVE  Undisturbed /\ ~InjectFault
<1>1. faults = 0 /\ ~InjectFault
  BY FaultsGrow DEF Undisturbed, InjectFault
<1>2. ASSUME NEW c \in Canceller
      PROVE  cancelling[c] = "idle"
  BY <1>2, StepCases
  DEF CreateFlush, CreateEnqueue, CreateCommit, CancelLoad, CancelReply,
      CancelRemovePriority, CancelRemoveRetry, CancelCommit, CreateAbort,
      CancelAbort, Mature, Age, CancelGoto, apiVars, Undisturbed,
      IInv, TypeOK, ApiTypeOK
<1>. QED BY <1>1, <1>2 DEF Undisturbed

(* Rows are written by the commits of the loop, each its own.              *)
LEMMA CalmRow ==
  ASSUME IInv, Undisturbed, recovered = {}, Next, ~InjectFault,
         NEW j \in Job, db'[j] # db[j]
  PROVE  \/ \E w \in Worker : /\ held[w] = j /\ pc[w] \in WriteLabel
                              /\ BeginCommit(w) \/ FinishCommit(w) \/ FailCommit(w)
         \/ CreateCommit(j)
         \/ Age(j)
<1>1. ASSUME NEW w \in Worker, BeginCommit(w) \/ FinishCommit(w) \/ FailCommit(w)
      PROVE  held[w] = j /\ pc[w] \in WriteLabel
  <2>1. pc[w] \in WriteLabel /\ (WriteProcessing(w) \/ WriteCompleted(w) \/ FailCommit(w))
    BY <1>1 DEF BeginCommit, FinishCommit, FailCommit, WriteLabel
  <2>. QED BY <2>1, WriteKeepsRows DEF IInv
<1>2. ASSUME NEW w \in Worker, RecoveryCommit(w)
      PROVE  FALSE
  <2>1. ~InSession(w, j)
    BY <1>2 DEF RecoveryCommit, IInv, LocalInv, LocalOK, WriteLabel
  <2>. QED
    BY <1>2, <2>1 DEF RecoveryCommit
<1>3. ASSUME NEW c \in Canceller
      PROVE  ~CancelCommit(c)
  BY <1>3 DEF CancelCommit, Undisturbed
<1>4. ASSUME NEW k \in Job, CreateCommit(k) \/ Age(k)
      PROVE  k = j
  BY <1>4 DEF CreateCommit, Age, IInv, TypeOK, StoreTypeOK
<1>. QED
  BY StepCases, <1>1, <1>2, <1>3, <1>4
  DEF DrainScan, DrainClaim, RequeueLoad, RequeueAdd, DequeuePriority,
      DequeueNothing, LoadQueued, LoadSkipped, ExecuteOk, ExecuteFails, NoExecutor,
      FinishLoad, FinishDiscard, FailLoad, EnqueueRetry, LoopError, FinishError,
      BeginCommitUnacknowledged, FinishCommitUnacknowledged,
      Crash, Start, RecoverySelect, RecoveryClean, RecoverJob, RecoveryError,
      CreateFlush, CreateEnqueue, CancelLoad, CancelRemovePriority,
      CancelRemoveRetry, CreateAbort, CancelAbort, Mature, storeVars

(* Nobody but the worker that has a job in hand writes to its row.         *)
LEMMA OwnRow ==
  ASSUME ThresholdExceedsTimeout, IInv, Undisturbed, recovered = {}, Next, ~InjectFault,
         NEW w \in Worker, NEW j \in Job, held[w] = j,
         pc[w] = "begin" \/ Working(w, j), db'[j] # db[j]
  PROVE  BeginCommit(w) \/ FinishCommit(w) \/ FailCommit(w)
<1>1. ~CreateCommit(j)
  <2>1. db[j].status # "absent"
    BY WriterFacts DEF IInv, ExistenceInv, ExistenceOK, WriteLabel
  <2>. QED
    BY <2>1 DEF CreateCommit, IInv, ExistenceInv, ExistenceOK
<1>2. ~Age(j)
  <2>1. pc[w] = "begin" => db[j].status \in {"queued", "cancelled"}
    BY DEF IInv, FreshInv, FreshOK, LocalInv, LocalOK, Agree, WriteLabel, Loaded
  <2>. QED
    BY <2>1 DEF Age
<1>. QED
  BY <1>1, <1>2, CalmRow, SoleHolder DEF IInv

(* A worker comes to a commit with the row it has just loaded.             *)
LEMMA CommitBegins ==
  ASSUME IInv, Next, NEW w \in Worker, NEW j \in Job,
         held'[w] = j, pc'[w] \in WriteLabel
  PROVE  /\ held[w] = j
         /\ \/ session'[w][j] = db[j] /\ UNCHANGED db
            \/ EnqueueRetry(w) /\ session'[w][j] = session[w][j]
            \/ /\ pc[w] \in WriteLabel /\ session'[w][j] = session[w][j]
               /\ ~BeginCommit(w) /\ ~FinishCommit(w) /\ ~FailCommit(w)
BY StepCases, WorkerAssumption
DEF DrainScan, DrainClaim, RequeueLoad, RequeueAdd, DequeuePriority,
    DequeueNothing, LoadQueued, LoadSkipped, BeginCommit, ExecuteOk, ExecuteFails,
    NoExecutor, FinishLoad, FinishDiscard, FinishCommit, FailLoad, AfterFailLoad,
    EnqueueRetry, FailCommit, LoopError, FinishError, BeginCommitUnacknowledged,
    FinishCommitUnacknowledged, Crash, Start, RecoverySelect, RecoveryClean,
    RecoverJob, RecoveryCommit, RecoveryError, CreateFlush, CreateEnqueue,
    CreateCommit, CancelLoad, CancelRemovePriority, CancelRemoveRetry,
    CancelCommit, CreateAbort, CancelAbort, Mature, Age, NextRound, Leave, Goto,
    AfterClaim, Load, storeVars, workerVars, WriteLabel, IInv, TypeOK, WorkerTypeOK

(* What the commits of the loop make of a row that is as they loaded it.   *)
LEMMA CalmCommit ==
  ASSUME IInv, CalmInv, Undisturbed,
         NEW w \in Worker, NEW j \in Job, held[w] = j, pc[w] \in WriteLabel
  PROVE  /\ BeginCommit(w) => /\ db[j].status = "queued"
                              /\ db'[j].status = "processing"
                              /\ db'[j].starts = db[j].starts + 1
         /\ FinishCommit(w) => /\ db[j].status = "processing"
                               /\ db'[j].status = "completed"
                               /\ db'[j].starts = db[j].starts
         /\ FailCommit(w) =>
              /\ db[j].status = "processing"
              /\ db'[j].status =
                   IF Exhausted(db[j], MaxAttempts[j]) THEN "failed" ELSE "queued"
              /\ db'[j].starts = db[j].starts
<1>1. /\ db \in [Job -> Row] /\ held[w] \in Job /\ Loaded(w) \in Row
      /\ MaxAttempts[j] \in Nat /\ db[j] = Loaded(w)
  BY WriterFacts DEF IInv, TypeOK, StoreTypeOK, CalmInv, OwnOK
<1>2. CASE BeginCommit(w)
  <2>1. db[j].status = "queued"
    BY <1>1, <1>2 DEF BeginCommit, IInv, LocalInv, LocalOK
  <2>. QED
    BY <1>1, <1>2, <2>1, ProcessingEffect
    DEF BeginCommit, FinishCommit, FailCommit, WriteProcessing, NetChange
<1>3. CASE FinishCommit(w)
  <2>1. db[j].status = "processing"
    BY <1>3 DEF FinishCommit, CalmInv, OwnOK, Working, WorkLabel
  <2>. QED
    BY <1>1, <1>3, <2>1, CompletedEffect
    DEF BeginCommit, FinishCommit, FailCommit, WriteCompleted, NetChange
<1>4. CASE FailCommit(w)
  <2>1. db[j].status = "processing"
    BY <1>4 DEF FailCommit, CalmInv, OwnOK, Working, WorkLabel
  <2>. QED
    BY <1>1, <1>4, <2>1, FailureEffect
    DEF BeginCommit, FinishCommit, FailCommit, NetChange
<1>. QED BY <1>2, <1>3, <1>4

(* Nothing a calm system does makes it look disturbed.                     *)
LEMMA CalmStep ==
  ASSUME ThresholdExceedsTimeout, IInv, CalmInv, NoneRecovered', Next
  PROVE  CalmInv'
<1>1. SUFFICES ASSUME Undisturbed'
               PROVE  /\ recovered' = {}
                      /\ \A j \in Job : db'[j].status # "cancelled"
                      /\ \A w \in Worker, j \in Job : OwnOK(w, j)'
  BY DEF CalmInv
<1>2. Undisturbed /\ ~InjectFault
  BY <1>1, CalmBefore
<1>3. recovered = {} /\ recovered' = {}
  BY <1>1, <1>2 DEF CalmInv, NoneRecovered, Undisturbed
<1>4. ASSUME NEW j \in Job
      PROVE  db'[j].status # "cancelled"
  <2>1. CASE db'[j] = db[j]
    BY <1>2, <2>1 DEF CalmInv
  <2>2. ASSUME NEW w \in Worker, held[w] = j, pc[w] \in WriteLabel,
               BeginCommit(w) \/ FinishCommit(w) \/ FailCommit(w)
        PROVE  db'[j].status # "cancelled"
    BY <1>2, <2>2, CalmCommit
  <2>3. CASE CreateCommit(j)
    BY <2>3 DEF CreateCommit, NewRow, NoRow, IInv, TypeOK, StoreTypeOK
  <2>4. CASE Age(j)
    BY <2>4 DEF Age, IInv, TypeOK, StoreTypeOK, Row
  <2>. QED
    BY <1>2, <1>3, <2>1, <2>2, <2>3, <2>4, CalmRow
<1>5. ASSUME NEW w \in Worker, NEW j \in Job, Working(w, j)'
      PROVE  db'[j].status = "processing"
  <2>1. CASE ~Working(w, j)
    <3>1. held[w] = j /\ BeginCommit(w)
      BY <1>5, <2>1, WorkBegins
    <3>. QED
      BY <1>2, <3>1, CalmCommit DEF BeginCommit, WriteLabel
  <2>2. CASE Working(w, j)
    <3>1. held[w] = j /\ db[j].status = "processing"
      BY <1>2, <2>2 DEF CalmInv, OwnOK, Working
    <3>2. ~BeginCommit(w) /\ ~FinishCommit(w) /\ ~FailCommit(w)
      BY <1>5, <2>2
      DEF BeginCommit, FinishCommit, FailCommit, NextRound, Leave, Goto, Working,
          WorkLabel, IInv, TypeOK, WorkerTypeOK
    <3>. QED
      BY <1>2, <1>3, <2>2, <3>1, <3>2, OwnRow
  <2>. QED BY <2>1, <2>2
<1>6. ASSUME NEW w \in Worker, NEW j \in Job, held'[w] = j, pc'[w] \in WriteLabel
      PROVE  db'[j] = session'[w][j]
  <2>1. held[w] = j
    BY <1>6, CommitBegins
  <2>2. CASE session'[w][j] = db[j] /\ UNCHANGED db
    BY <2>2
  <2>3. CASE EnqueueRetry(w) /\ session'[w][j] = session[w][j]
    BY <1>2, <2>1, <2>3 DEF EnqueueRetry, CalmInv, OwnOK, WriteLabel
  <2>4. CASE /\ pc[w] \in WriteLabel /\ session'[w][j] = session[w][j]
             /\ ~BeginCommit(w) /\ ~FinishCommit(w) /\ ~FailCommit(w)
    <3>1. db[j] = session[w][j]
      BY <1>2, <2>1, <2>4 DEF CalmInv, OwnOK
    <3>2. pc[w] = "begin" \/ Working(w, j)
      BY <2>1, <2>4 DEF WriteLabel, Working, WorkLabel
    <3>3. db'[j] = db[j]
      BY <1>2, <1>3, <2>1, <2>4, <3>2, OwnRow
    <3>. QED BY <2>4, <3>1, <3>3
  <2>. QED BY <1>6, <2>2, <2>3, <2>4, CommitBegins
<1>. QED
  BY <1>3, <1>4, <1>5, <1>6 DEF OwnOK

(* While nothing fails and no one cancels the row of a job belongs to the  *)
(* worker that has it in hand.                                             *)
LEMMA CalmInvariance ==
  ASSUME ThresholdExceedsTimeout, Unregistered = {}
  PROVE  Spec => []CalmInv
<1>1. Init => CalmInv
  BY DEF Init, WorkerInit, RecoveryInit, CalmInv, OwnOK, Working, WorkLabel,
     WriteLabel, NewRow, NoRow
<1>2. IInv /\ CalmInv /\ NoneRecovered' /\ [Next]_vars => CalmInv'
  <2>1. CalmInv /\ UNCHANGED vars => CalmInv'
    BY DEF vars, storeVars, workerVars, apiVars, CalmInv, Undisturbed, OwnOK, Working
  <2>. QED BY <2>1, CalmStep
<1>. QED
  BY <1>1, <1>2, CleanStart, Invariance, PTL DEF Spec

(* While nothing fails and no one cancels, a worker that comes to record   *)
(* the outcome of an execution finds the row as it left it at the start.   *)
THEOREM OutcomesAreFresh ==
  ASSUME ThresholdExceedsTimeout, Unregistered = {}
  PROVE  Spec => [](Undisturbed => OutcomeNotStale)
<1>1. IInv /\ CalmInv => (Undisturbed => OutcomeNotStale)
  <2>1. SUFFICES ASSUME IInv, CalmInv, Undisturbed, NEW w \in Worker,
                        pc[w] \in {"finish_commit", "fail_commit"}
                 PROVE  db[held[w]].status = "processing" /\ db[held[w]] = Loaded(w)
    BY DEF OutcomeNotStale
  <2>2. held[w] \in Job /\ pc[w] \in WriteLabel /\ pc[w] \in WorkLabel
    BY <2>1, WriterFacts DEF IInv, WriteLabel, WorkLabel
  <2>. QED
    BY <2>1, <2>2 DEF CalmInv, OwnOK, Working, Loaded
<1>. QED
  BY <1>1, CalmInvariance, Invariance, PTL

(* With no cause of disturbance there is none.                             *)
LEMMA AlwaysCalm ==
  ASSUME Canceller = {}, MaxFaults = 0, TypeOK
  PROVE  Undisturbed
BY DEF Undisturbed, TypeOK, WorkerTypeOK

(* The commits of the loop are the steps of the life of a job.             *)
LEMMA CommitIsLifeStep ==
  ASSUME IInv, CalmInv, Undisturbed,
         NEW w \in Worker, NEW j \in Job, held[w] = j, pc[w] \in WriteLabel,
         BeginCommit(w) \/ FinishCommit(w) \/ FailCommit(w)
  PROVE  Life!Next
<1>1. /\ j \in Job /\ db[j] \in Row /\ MaxAttempts[j] \in Nat \ {0}
      /\ db[j] = session[w][j]
  BY WriterFacts DEF IInv, CalmInv, OwnOK
<1>2. \A k \in Job : k # j => db'[k] = db[k]
  <2>1. WriteProcessing(w) \/ WriteCompleted(w) \/ FailCommit(w)
    BY DEF BeginCommit, FinishCommit
  <2>. QED BY <2>1, WriteKeepsRows DEF IInv
<1>3. \A to : db'[j].status = to =>
        [i \in Job |-> db[i].status]' = [[i \in Job |-> db[i].status] EXCEPT ![j] = to]
  BY <1>1, <1>2
<1>4. db'[j].starts = db[j].starts =>
        UNCHANGED [i \in Job |-> db[i].starts]
  BY <1>1, <1>2
<1>5. db[j].starts = db[j].attempts /\ db[j].attempts <= MaxAttempts[j]
  BY <1>1 DEF IInv, CalmInv, AttemptsMatchStarts, RetryBudget
<1>6. CASE BeginCommit(w)
  <2>1. db[j].attempts < MaxAttempts[j]
    BY <1>1, <1>6 DEF BeginCommit, IInv, CalmInv, FreshInv, FreshOK
  <2>2. /\ db[j].status = "queued" /\ db'[j].status = "processing"
        /\ db'[j].starts = db[j].starts + 1
    BY <1>6, CalmCommit
  <2>3. [i \in Job |-> db[i].starts]'
          = [[i \in Job |-> db[i].starts] EXCEPT ![j] = @ + 1]
    BY <1>1, <1>2, <2>2
  <2>4. Life!Begin(j)
    BY <1>1, <1>3, <1>5, <2>1, <2>2, <2>3 DEF Life!Begin, Life!Move
  <2>. QED BY <1>1, <2>4 DEF Life!Next
<1>7. CASE FinishCommit(w)
  <2>1. /\ db[j].status = "processing" /\ db'[j].status = "completed"
        /\ db'[j].starts = db[j].starts
    BY <1>7, CalmCommit
  <2>2. Life!Complete(j)
    BY <1>1, <1>3, <1>4, <2>1 DEF Life!Complete, Life!Move
  <2>. QED BY <1>1, <2>2 DEF Life!Next, Life!End
<1>8. CASE FailCommit(w)
  <2>1. /\ db[j].status = "processing"
        /\ db'[j].status = IF Exhausted(db[j], MaxAttempts[j]) THEN "failed" ELSE "queued"
        /\ db'[j].starts = db[j].starts
    BY <1>8, CalmCommit
  <2>2. db[j].starts \in Nat
    BY <1>1, RowFields
  <2>3. CASE Exhausted(db[j], MaxAttempts[j])
    <3>1. Life!GiveUp(j)
      BY <1>1, <1>3, <1>4, <1>5, <2>1, <2>2, <2>3 DEF Exhausted, Life!GiveUp, Life!Move
    <3>. QED BY <1>1, <3>1 DEF Life!Next, Life!End
  <2>4. CASE ~Exhausted(db[j], MaxAttempts[j])
    <3>1. Life!Retry(j)
      BY <1>1, <1>3, <1>4, <1>5, <2>1, <2>2, <2>4 DEF Exhausted, Life!Retry, Life!Move
    <3>. QED BY <1>1, <3>1 DEF Life!Next, Life!End
  <2>. QED BY <2>3, <2>4
<1>. QED BY <1>6, <1>7, <1>8

(* A step that writes no row but by ageing it does not show to a client    *)
(* that reads the rows.                                                    *)
LEMMA LifeStep ==
  ASSUME IInv, CalmInv, Created, Undisturbed, ~InjectFault, Next
  PROVE  Life!Next \/ UNCHANGED Life!lifeVars
<1>1. CASE \E w \in Worker : /\ held[w] \in Job /\ pc[w] \in WriteLabel
                             /\ BeginCommit(w) \/ FinishCommit(w) \/ FailCommit(w)
  BY <1>1, CommitIsLifeStep
<1>2. CASE \A j \in Job : db'[j].status = db[j].status /\ db'[j].starts = db[j].starts
  BY <1>2 DEF Life!lifeVars
<1>3. ASSUME NEW j \in Job, db'[j] # db[j]
      PROVE  \/ \E w \in Worker : /\ held[w] \in Job /\ pc[w] \in WriteLabel
                                  /\ BeginCommit(w) \/ FinishCommit(w) \/ FailCommit(w)
             \/ db'[j].status = db[j].status /\ db'[j].starts = db[j].starts
  <2>1. ~CreateCommit(j)
    BY DEF CreateCommit, Created
  <2>2. Age(j) => db'[j].status = db[j].status /\ db'[j].starts = db[j].starts
    BY DEF Age, IInv, TypeOK, StoreTypeOK, Row
  <2>. QED BY <1>3, <2>1, <2>2, CalmRow DEF CalmInv
<1>. QED BY <1>1, <1>2, <1>3

(* The queue implements the life of a job that Lifecycle promises: a       *)
(* client that reads the rows sees each job begin, end and be retried, one *)
(* step at a time and in no other order.                                   *)
THEOREM RowsFollowLifecycle ==
  ASSUME Canceller = {}, MaxFaults = 0, Preloaded = Job,
         Unregistered = {}, ThresholdExceedsTimeout
  PROVE  Spec => Life!Init /\ [][Life!Next]_(Life!lifeVars)
<1>1. Spec => []CalmInv
  BY CalmInvariance
<1>2. Spec => []Created
  BY CreatedInvariance
<1>3. Init => Life!Init
  BY DEF Init, Life!Init, NewRow, NoRow
<1>4. IInv /\ CalmInv /\ Created /\ [Next]_vars => [Life!Next]_(Life!lifeVars)
  <2>1. SUFFICES ASSUME IInv, CalmInv, Created, [Next]_vars
                 PROVE  Life!Next \/ UNCHANGED Life!lifeVars
    OBVIOUS
  <2>2. CASE Next
    <3>1. Undisturbed /\ ~InjectFault
      BY <2>1, AlwaysCalm DEF IInv, InjectFault, TypeOK, WorkerTypeOK
    <3>. QED BY <2>1, <2>2, <3>1, LifeStep
  <2>3. CASE UNCHANGED vars
    BY <2>3 DEF vars, storeVars, Life!lifeVars
  <2>. QED BY <2>1, <2>2, <2>3
<1>. QED
  BY <1>1, <1>2, <1>3, <1>4, Invariance, PTL DEF Spec

-----------------------------------------------------------------------------
(* A single worker process.                                                *)

Single == \A v, w \in Worker : v = w

(* What SoleOK says of the row alone.                                      *)
SoleRowOK(j) ==
  /\ creating[j] # "created" => db[j] = NoRow
  /\ db[j].starts <= db[j].attempts
  /\ db[j].starts <= MaxAttempts[j]
  /\ db[j].status = "queued" => db[j].attempts < MaxAttempts[j]

(* What a worker writes keeps count, whatever has happened to the row      *)
(* since the load.                                                         *)
LEMMA SoleWrite ==
  ASSUME IInv, SoleInv, NEW w \in Worker, pc[w] \in WriteLabel,
         \/ pc[w] = "begin" /\ WriteProcessing(w)
         \/ WriteCompleted(w)
         \/ FailCommit(w),
         UNCHANGED creating, NEW j \in Job
  PROVE  SoleRowOK(j)' /\ db'[j].attempts >= db[j].attempts
<1>1. /\ db \in [Job -> Row] /\ db[j] \in Row /\ held[w] \in Job /\ Loaded(w) \in Row
      /\ Loaded(w) = session[w][held[w]]
      /\ MaxAttempts[held[w]] \in Nat /\ InSession(w, held[w])
  BY WriterFacts DEF IInv, TypeOK, StoreTypeOK
<1>2. SoleOK(j)
  BY DEF SoleInv
<1>3. CASE j # held[w]
  BY <1>1, <1>2, <1>3, WriteKeepsRows, RowFields DEF IInv, SoleOK, SoleRowOK
<1>4. CASE j = held[w]
  <2>1. /\ Agree(db[j], Loaded(w))
        /\ pc[w] = "begin" => Loaded(w).attempts < MaxAttempts[j]
        /\ creating[j] = "created"
        /\ db[j].attempts \in Nat /\ db[j].starts \in Nat /\ Loaded(w).attempts \in Nat
    BY <1>1, <1>2, <1>4, RowFields DEF SoleOK, IInv, ExistenceInv, ExistenceOK
  <2>2. CASE pc[w] = "begin" /\ WriteProcessing(w)
    <3>1. Loaded(w).status = "queued"
      BY <2>2 DEF IInv, LocalInv, LocalOK
    <3>. QED
      BY <1>1, <1>2, <1>4, <2>1, <2>2, <3>1, ProcessingEffect
      DEF WriteProcessing, SoleOK, SoleRowOK, Agree, NetChange
  <2>3. CASE WriteCompleted(w)
    BY <1>1, <1>2, <1>4, <2>1, <2>3, CompletedEffect
    DEF WriteCompleted, SoleOK, SoleRowOK, NetChange
  <2>4. CASE FailCommit(w)
    BY <1>1, <1>2, <1>4, <2>1, <2>4, FailureEffect
    DEF FailCommit, SoleOK, SoleRowOK, NetChange, Agree, Exhausted
  <2>. QED BY <2>2, <2>3, <2>4
<1>. QED BY <1>3, <1>4

(* So does the commit of recovery, which counts one attempt more.          *)
LEMMA SoleRecovery ==
  ASSUME IInv, SoleInv, NEW w \in Worker, RecoveryCommit(w), UNCHANGED creating,
         NEW j \in Job
  PROVE  SoleRowOK(j)' /\ db'[j].attempts >= db[j].attempts
<1>1. /\ db[j] \in Row /\ session[w][j] \in Row /\ MaxAttempts[j] \in Nat
      /\ db[j].attempts \in Nat /\ db[j].starts \in Nat /\ session[w][j].attempts \in Nat
  BY JobAssumption, RowFields DEF IInv, TypeOK, StoreTypeOK, WorkerTypeOK
<1>2. SoleOK(j)
  BY DEF SoleInv
<1>3. CASE ~InSession(w, j)
  BY <1>1, <1>2, <1>3 DEF RecoveryCommit, SoleOK, SoleRowOK
<1>4. CASE InSession(w, j)
  <2>1. /\ Agree(db[j], session[w][j]) /\ session[w][j].status = "processing"
        /\ creating[j] = "created"
    BY <1>2, <1>4 DEF RecoveryCommit, SoleOK, IInv, ExistenceInv, ExistenceOK
  <2>2. db'[j] = MarkRecovered(db[j], session[w][j], MaxAttempts[j])
    BY <1>4 DEF RecoveryCommit
  <2>3. Recounted(session[w][j]).attempts = session[w][j].attempts + 1
    BY <1>1 DEF Recounted, Row
  <2>4. /\ db'[j].attempts = session[w][j].attempts + 1
        /\ db'[j].starts = db[j].starts
        /\ db'[j].status = IF Exhausted(Recounted(session[w][j]), MaxAttempts[j])
                             THEN "failed" ELSE "queued"
    BY <1>1, <2>1, <2>2 DEF MarkRecovered, NetChange, Row
  <2>. QED
    BY <1>1, <1>2, <2>1, <2>3, <2>4 DEF SoleOK, SoleRowOK, Agree, Exhausted
<1>. QED BY <1>3, <1>4

(* Every step keeps count.                                                 *)
LEMMA SoleRowStep ==
  ASSUME IInv, SoleInv, Next, NEW j \in Job
  PROVE  SoleRowOK(j)' /\ db'[j].attempts >= db[j].attempts
<1>1. /\ SoleRowOK(j) /\ db \in [Job -> Row] /\ db[j] \in Row /\ MaxAttempts[j] \in Nat \ {0}
      /\ db[j].attempts \in Nat /\ db[j].starts \in Nat /\ creating \in [Job -> CreateLabel]
  BY JobAssumption, RowFields
  DEF SoleInv, SoleOK, SoleRowOK, IInv, TypeOK, StoreTypeOK, ApiTypeOK
<1>2. ASSUME NEW w \in Worker, UNCHANGED apiVars,
             \/ BeginCommit(w) \/ BeginCommitUnacknowledged(w)
             \/ FinishCommit(w) \/ FinishCommitUnacknowledged(w)
             \/ FailCommit(w)
      PROVE  SoleRowOK(j)' /\ db'[j].attempts >= db[j].attempts
  BY <1>2, SoleWrite
  DEF BeginCommit, BeginCommitUnacknowledged, FinishCommit,
      FinishCommitUnacknowledged, FailCommit, WriteLabel, apiVars
<1>3. ASSUME NEW w \in Worker, UNCHANGED apiVars, RecoveryCommit(w)
      PROVE  SoleRowOK(j)' /\ db'[j].attempts >= db[j].attempts
  BY <1>3, SoleRecovery DEF apiVars
<1>4. ASSUME NEW c \in Canceller, CancelCommit(c)
      PROVE  SoleRowOK(j)' /\ db'[j].attempts >= db[j].attempts
  <2>1. j = target[c] => creating[j] = "created"
    BY <1>4 DEF CancelCommit, Cancelling, IInv, ExistenceInv, ExistenceOK
  <2>. QED
    BY <1>1, <1>4, <2>1, CancelledEffect DEF CancelCommit, SoleRowOK
<1>5. ASSUME NEW k \in Job, CreateCommit(k)
      PROVE  SoleRowOK(j)' /\ db'[j].attempts >= db[j].attempts
  BY <1>1, <1>5 DEF CreateCommit, CreateGoto, SoleRowOK, NewRow, NoRow
<1>6. ASSUME NEW k \in Job, Age(k)
      PROVE  SoleRowOK(j)' /\ db'[j].attempts >= db[j].attempts
  <2>1. db[k].status # "absent"
    BY <1>6 DEF Age
  <2>2. k = j => creating[j] = "created"
    BY <2>1 DEF IInv, ExistenceInv, ExistenceOK
  <2>. QED
    BY <1>1, <1>6, <2>2 DEF Age, SoleRowOK, apiVars, Row
<1>7. ASSUME NEW k \in Job, CreateFlush(k) \/ CreateEnqueue(k) \/ CreateAbort(k)
      PROVE  SoleRowOK(j)' /\ db'[j].attempts >= db[j].attempts
  BY <1>1, <1>7
  DEF CreateFlush, CreateEnqueue, CreateAbort, CreateGoto, SoleRowOK, storeVars
<1>8. CASE UNCHANGED <<db, creating>>
  BY <1>1, <1>8 DEF SoleRowOK
<1>. QED
  BY StepCases, <1>2, <1>3, <1>4, <1>5, <1>6, <1>7, <1>8
  DEF DrainScan, DrainClaim, RequeueLoad, RequeueAdd, DequeuePriority,
      DequeueNothing, LoadQueued, LoadSkipped, ExecuteOk, ExecuteFails, NoExecutor,
      FinishLoad, FinishDiscard, FailLoad, EnqueueRetry, LoopError, FinishError,
      Crash, Start, RecoverySelect, RecoveryClean, RecoverJob, RecoveryError,
      CancelLoad, CancelRemovePriority, CancelRemoveRetry, CancelAbort, Mature,
      storeVars, apiVars

(* A session of the only worker is open on a row it has just loaded, or it *)
(* stays open while nobody but a request or the clock touches the row.     *)
LEMMA SoleSession ==
  ASSUME Single, IInv, Next, NEW w \in Worker, NEW j \in Job, InSession(w, j)'
  PROVE  \/ session'[w][j] = db[j] /\ UNCHANGED db
         \/ /\ InSession(w, j) /\ session'[w][j] = session[w][j]
            /\ \/ UNCHANGED db
               \/ \E c \in Canceller : CancelCommit(c)
               \/ \E k \in Job : CreateCommit(k) \/ Age(k)
<1>1. ASSUME NEW v \in Worker, LoadQueued(v) \/ FinishLoad(v) \/ FailLoad(v)
      PROVE  \/ session'[w][j] = db[j] /\ UNCHANGED db
             \/ InSession(w, j) /\ session'[w][j] = session[w][j] /\ UNCHANGED db
  <2>1. v = w
    BY DEF Single
  <2>2. CASE held[w] = j
    BY <1>1, <2>1, <2>2
    DEF LoadQueued, FinishLoad, FailLoad, Load, storeVars, IInv, TypeOK, WorkerTypeOK
  <2>3. CASE held[w] # j
    BY <1>1, <2>1, <2>3
    DEF LoadQueued, FinishLoad, FailLoad, Load, storeVars, InSession, IInv, TypeOK,
        WorkerTypeOK
  <2>. QED BY <2>2, <2>3
<1>2. ASSUME NEW v \in Worker, RecoverySelect(v)
      PROVE  session'[w][j] = db[j] /\ UNCHANGED db
  <2>1. v = w
    BY DEF Single
  <2>. QED
    BY <1>2, <2>1 DEF RecoverySelect, storeVars, InSession, NoRow, IInv, TypeOK, WorkerTypeOK
<1>3. ASSUME NEW v \in Worker,
             \/ LoadSkipped(v) \/ BeginCommit(v) \/ FinishDiscard(v) \/ FinishCommit(v)
             \/ FailCommit(v) \/ NoExecutor(v) \/ LoopError(v) \/ FinishError(v) \/ Crash(v)
             \/ BeginCommitUnacknowledged(v) \/ FinishCommitUnacknowledged(v)
             \/ RecoveryClean(v) \/ RecoveryCommit(v) \/ RecoveryError(v)
      PROVE  FALSE
  <2>1. v = w
    BY DEF Single
  <2>. QED
    BY <1>3, <2>1
    DEF LoadSkipped, BeginCommit, FinishDiscard, FinishCommit, FailCommit, NoExecutor,
        LoopError, FinishError, Crash, BeginCommitUnacknowledged,
        FinishCommitUnacknowledged, RecoveryClean, RecoveryCommit, RecoveryError,
        NextRound, Leave, InSession, NoSession, NoRow, IInv, TypeOK, WorkerTypeOK
<1>4. CASE UNCHANGED session
  BY <1>3, <1>4, StepCases
  DEF InSession, DrainScan, DrainClaim, RequeueLoad, RequeueAdd, DequeuePriority,
      DequeueNothing, LoadQueued, ExecuteOk, ExecuteFails, FinishLoad, FailLoad,
      EnqueueRetry, Start, RecoverySelect, RecoverJob, CreateFlush, CreateEnqueue,
      CancelLoad, CancelRemovePriority, CancelRemoveRetry, CreateAbort, CancelAbort,
      Mature, storeVars
<1>. QED
  BY StepCases, <1>1, <1>2, <1>3, <1>4
  DEF DrainScan, DrainClaim, RequeueLoad, RequeueAdd, DequeuePriority, DequeueNothing,
      ExecuteOk, ExecuteFails, EnqueueRetry, Start, RecoverJob, CreateFlush,
      CreateEnqueue, CreateCommit, CancelLoad, CancelRemovePriority, CancelRemoveRetry,
      CancelCommit, CreateAbort, CancelAbort, Mature, Age, workerVars

(* It comes to the commit of a start with a row it has found queued.       *)
LEMMA StartLoads ==
  ASSUME IInv, Next, NEW w \in Worker, NEW j \in Job,
         held'[w] = j, pc'[w] = "begin"
  PROVE  \/ held[w] = j /\ pc[w] = "begin" /\ session'[w][j] = session[w][j]
         \/ db[j].status = "queued" /\ session'[w][j] = db[j]
BY StepCases, WorkerAssumption
DEF DrainScan, DrainClaim, RequeueLoad, RequeueAdd, DequeuePriority,
    DequeueNothing, LoadQueued, LoadSkipped, Startable, BeginCommit, ExecuteOk,
    ExecuteFails, NoExecutor, FinishLoad, FinishDiscard, FinishCommit, FailLoad,
    AfterFailLoad, EnqueueRetry, FailCommit, LoopError, FinishError,
    BeginCommitUnacknowledged, FinishCommitUnacknowledged, Crash, Start,
    RecoverySelect, RecoveryClean, RecoverJob, RecoveryCommit, RecoveryError,
    CreateFlush, CreateEnqueue, CreateCommit, CancelLoad, CancelRemovePriority,
    CancelRemoveRetry, CancelCommit, CreateAbort, CancelAbort, Mature, Age, NextRound,
    Leave, Goto, AfterClaim, Load, workerVars, IInv, TypeOK, WorkerTypeOK

(* Recovery works on rows it has found processing.                         *)
LEMMA RecoveryLoads ==
  ASSUME IInv, Next, NEW w \in Worker, NEW j \in Job,
         pc'[w] \in {"recover", "recover_commit"}, InSession(w, j)'
  PROVE  \/ /\ pc[w] \in {"recover", "recover_commit"} /\ InSession(w, j)
            /\ session'[w][j] = session[w][j]
         \/ session'[w][j].status = "processing"
<1>1. ASSUME NEW v \in Worker, RecoverySelect(v)
      PROVE  \/ /\ pc[w] \in {"recover", "recover_commit"} /\ InSession(w, j)
                /\ session'[w][j] = session[w][j]
             \/ session'[w][j].status = "processing"
  BY <1>1
  DEF RecoverySelect, StuckJobs, Stuck, NoRow, Goto, InSession, IInv, TypeOK, WorkerTypeOK
<1>2. ASSUME NEW v \in Worker, LoadQueued(v) \/ FinishLoad(v) \/ FailLoad(v)
      PROVE  v # w
  BY <1>2
  DEF LoadQueued, FinishLoad, FailLoad, AfterFailLoad, Goto, IInv, TypeOK, WorkerTypeOK
<1>3. ASSUME NEW v \in Worker,
             \/ LoadSkipped(v) \/ BeginCommit(v) \/ FinishDiscard(v) \/ FinishCommit(v)
             \/ FailCommit(v) \/ NoExecutor(v) \/ LoopError(v) \/ FinishError(v) \/ Crash(v)
             \/ BeginCommitUnacknowledged(v) \/ FinishCommitUnacknowledged(v)
             \/ RecoveryClean(v) \/ RecoveryCommit(v) \/ RecoveryError(v)
      PROVE  v # w
  BY <1>3
  DEF LoadSkipped, BeginCommit, FinishDiscard, FinishCommit, FailCommit, NoExecutor,
      LoopError, FinishError, Crash, BeginCommitUnacknowledged,
      FinishCommitUnacknowledged, RecoveryClean, RecoveryCommit, RecoveryError,
      NextRound, Leave, Goto, IInv, TypeOK, WorkerTypeOK
<1>. QED
  BY StepCases, <1>1, <1>2, <1>3
  DEF DrainScan, DrainClaim, RequeueLoad, RequeueAdd, DequeuePriority, DequeueNothing,
      LoadQueued, LoadSkipped, BeginCommit, ExecuteOk, ExecuteFails, NoExecutor,
      FinishLoad, FinishDiscard, FinishCommit, FailLoad, EnqueueRetry, FailCommit,
      LoopError, FinishError, BeginCommitUnacknowledged, FinishCommitUnacknowledged,
      Crash, Start, RecoveryClean, RecoverJob, RecoveryCommit, RecoveryError,
      CreateFlush, CreateEnqueue, CreateCommit, CancelLoad, CancelRemovePriority,
      CancelRemoveRetry, CancelCommit, CreateAbort, CancelAbort, Mature, Age, NextRound,
      Leave, Goto, AfterClaim, AfterFailLoad, Load, workerVars, InSession, IInv, TypeOK,
      WorkerTypeOK

(* The only worker finds at its commit the row it has loaded.              *)
LEMMA SoleAgrees ==
  ASSUME Single, IInv, SoleInv, Next, NEW w \in Worker, NEW j \in Job, InSession(w, j)'
  PROVE  Agree(db'[j], session'[w][j])
<1>1. db \in [Job -> Row] /\ db[j] \in Row
  BY DEF IInv, TypeOK, StoreTypeOK
<1>2. CASE session'[w][j] = db[j] /\ UNCHANGED db
  BY <1>2 DEF Agree
<1>3. CASE InSession(w, j) /\ session'[w][j] = session[w][j]
  <2>1. Agree(db[j], session[w][j])
    BY <1>3 DEF SoleInv, SoleOK
  <2>2. CASE UNCHANGED db
    BY <1>3, <2>1, <2>2
  <2>3. ASSUME NEW c \in Canceller, CancelCommit(c)
        PROVE  Agree(db'[j], session'[w][j])
    BY <1>1, <1>3, <2>1, <2>3, CancelledEffect DEF CancelCommit, Agree
  <2>4. ASSUME NEW k \in Job, CreateCommit(k)
        PROVE  Agree(db'[j], session'[w][j])
    <3>1. k # j
      BY <1>3, <2>4 DEF CreateCommit, IInv, ExistenceInv, ExistenceOK
    <3>. QED
      BY <1>1, <1>3, <2>1, <2>4, <3>1 DEF CreateCommit
  <2>5. ASSUME NEW k \in Job, Age(k)
        PROVE  Agree(db'[j], session'[w][j])
    BY <1>1, <1>3, <2>1, <2>5 DEF Age, Agree, Row
  <2>. QED BY <1>2, <1>3, <2>2, <2>3, <2>4, <2>5, SoleSession
<1>. QED BY <1>2, <1>3, SoleSession

(* Whatever happens, a single worker keeps count.                          *)
LEMMA SoleStep ==
  ASSUME Single, IInv, SoleInv, Next
  PROVE  SoleInv'
<1>1. SUFFICES ASSUME NEW j \in Job
               PROVE  SoleOK(j)'
  BY DEF SoleInv
<1>2. SoleOK(j)
  BY DEF SoleInv
<1>3. SoleRowOK(j)'
  BY SoleRowStep
<1>4. ASSUME NEW w \in Worker, InSession(w, j)'
      PROVE  Agree(db'[j], session'[w][j])
  BY <1>4, SoleAgrees
<1>5. ASSUME NEW w \in Worker, pc'[w] = "begin", held'[w] = j
      PROVE  session'[w][j].attempts < MaxAttempts[j]
  BY <1>2, <1>5, StartLoads DEF SoleOK
<1>6. ASSUME NEW w \in Worker, pc'[w] \in {"recover", "recover_commit"}, InSession(w, j)'
      PROVE  session'[w][j].status = "processing"
  BY <1>2, <1>6, RecoveryLoads DEF SoleOK
<1>. QED
  BY <1>3, <1>4, <1>5, <1>6 DEF SoleOK, SoleRowOK

(* SoleInv holds of a single worker, whatever fails and whoever cancels.   *)
LEMMA SoleInvariance ==
  ASSUME Single
  PROVE  Spec => []SoleInv
<1>1. Init => SoleInv
  BY JobAssumption
  DEF Init, WorkerInit, ApiInit, SoleInv, SoleOK, InSession, NoSession, NewRow, NoRow
<1>2. IInv /\ SoleInv /\ [Next]_vars => SoleInv'
  <2>1. SoleInv /\ UNCHANGED vars => SoleInv'
    BY DEF vars, storeVars, workerVars, apiVars, SoleInv, SoleOK, InSession
  <2>. QED BY <2>1, SoleStep
<1>. QED
  BY <1>1, <1>2, Invariance, PTL DEF Spec

(* A single worker executes no job more often than max_attempts says,      *)
(* whatever crashes, is cancelled or recovered, and even if the stuck      *)
(* threshold is short.                                                     *)
THEOREM SoleWorkerKeepsBudget ==
  ASSUME Single
  PROVE  Spec => []ExecutionsWithinBudget
<1>1. SoleInv => ExecutionsWithinBudget
  BY DEF SoleInv, SoleOK, ExecutionsWithinBudget
<1>. QED
  BY <1>1, SoleInvariance, PTL

(* A single worker never takes a count of attempts back.                   *)
THEOREM SoleWorkerKeepsCount ==
  ASSUME Single
  PROVE  Spec => AttemptsNeverDecrease
<1>1. IInv /\ SoleInv /\ [Next]_vars
        => [\A j \in Job : db'[j].attempts >= db[j].attempts]_vars
  BY SoleRowStep
<1>. QED
  BY <1>1, SoleInvariance, Invariance, PTL DEF Spec, AttemptsNeverDecrease
=============================================================================
