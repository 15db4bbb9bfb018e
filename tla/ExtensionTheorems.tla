------------------------- MODULE ExtensionTheorems --------------------------
(***************************************************************************)
(* Proofs about what is built on top of JobQueue: the instruments of the   *)
(* workers, the replies to clients, and the stops of worker processes.     *)
(***************************************************************************)
EXTENDS WorkerMetrics, Queries, WorkerProcess, JobQueueTheorems, FiniteSetTheorems

-----------------------------------------------------------------------------
(* Steps of JobQueue, looked at from outside.                              *)

(* A row that is not there yet is blank.                                   *)
Untouched == \A j \in Job : creating[j] # "created" => db[j] = NoRow

(* Only the commit of its creation brings a row about.                     *)
LEMMA UntouchedStep ==
  ASSUME IInv, Untouched, Next
  PROVE  Untouched'
<1>. SUFFICES ASSUME NEW j \in Job, creating'[j] # "created"
              PROVE  db'[j] = NoRow
  BY DEF Untouched
<1>1. creating[j] # "created" /\ ~CreateCommit(j)
  BY StepCases
  DEF CreateFlush, CreateEnqueue, CreateCommit, CancelLoad, CancelRemovePriority,
      CancelRemoveRetry, CancelCommit, CreateAbort, CancelAbort, Mature, Age,
      CreateGoto, apiVars, IInv, TypeOK, ApiTypeOK
<1>2. db[j] = NoRow /\ db[j].status = "absent"
  BY <1>1 DEF Untouched, NoRow
<1>3. ASSUME NEW w \in Worker,
             \/ BeginCommit(w) \/ BeginCommitUnacknowledged(w)
             \/ FinishCommit(w) \/ FinishCommitUnacknowledged(w)
             \/ FailCommit(w)
      PROVE  db'[j] = db[j]
  <2>1. pc[w] \in WriteLabel /\ (WriteProcessing(w) \/ WriteCompleted(w) \/ FailCommit(w))
    BY <1>3 DEF BeginCommit, BeginCommitUnacknowledged, FinishCommit,
       FinishCommitUnacknowledged, FailCommit, WriteLabel
  <2>2. j # held[w]
    BY <1>2, <2>1, WriterFacts DEF IInv, ExistenceInv, ExistenceOK
  <2>. QED
    BY <2>1, <2>2, WriteKeepsRows DEF IInv
<1>4. ASSUME NEW w \in Worker, RecoveryCommit(w)
      PROVE  db'[j] = db[j]
  BY <1>2, <1>4 DEF RecoveryCommit, IInv, ExistenceInv, ExistenceOK
<1>5. ASSUME NEW c \in Canceller, CancelCommit(c)
      PROVE  db'[j] = db[j]
  BY <1>2, <1>5
  DEF CancelCommit, Cancelling, IInv, TypeOK, StoreTypeOK, ExistenceInv, ExistenceOK
<1>6. ASSUME NEW k \in Job, CreateCommit(k) \/ Age(k)
      PROVE  db'[j] = db[j]
  <2>1. k # j
    BY <1>1, <1>2, <1>6 DEF Age
  <2>. QED
    BY <1>6, <2>1 DEF CreateCommit, Age, IInv, TypeOK, StoreTypeOK
<1>7. CASE UNCHANGED db
  BY <1>2, <1>7
<1>8. db'[j] = db[j]
  BY StepCases, <1>3, <1>4, <1>5, <1>6, <1>7
  DEF DrainScan, DrainClaim, RequeueLoad, RequeueAdd, DequeuePriority,
      DequeueNothing, LoadQueued, LoadSkipped, ExecuteOk, ExecuteFails, NoExecutor,
      FinishLoad, FinishDiscard, FailLoad, EnqueueRetry, LoopError, FinishError,
      Crash, Start, RecoverySelect, RecoveryClean, RecoverJob, RecoveryError,
      CreateFlush, CreateEnqueue, CancelLoad, CancelRemovePriority,
      CancelRemoveRetry, CreateAbort, CancelAbort, Mature, storeVars
<1>. QED BY <1>2, <1>8

(* Starts are counted and never taken back.                                *)
LEMMA StartsGrow ==
  ASSUME IInv, Untouched, Next, NEW j \in Job
  PROVE  db[j].starts \in Nat /\ db'[j].starts \in Nat /\ db'[j].starts >= db[j].starts
<1>1. /\ db \in [Job -> Row] /\ db[j] \in Row /\ db[j].starts \in Nat
  BY RowFields DEF IInv, TypeOK, StoreTypeOK
<1>2. ASSUME NEW w \in Worker,
             \/ BeginCommit(w) \/ BeginCommitUnacknowledged(w)
             \/ FinishCommit(w) \/ FinishCommitUnacknowledged(w)
             \/ FailCommit(w)
      PROVE  db'[j].starts = db[j].starts \/ db'[j].starts = db[j].starts + 1
  <2>1. pc[w] \in WriteLabel /\ (WriteProcessing(w) \/ WriteCompleted(w) \/ FailCommit(w))
    BY <1>2 DEF BeginCommit, BeginCommitUnacknowledged, FinishCommit,
       FinishCommitUnacknowledged, FailCommit, WriteLabel
  <2>2. /\ held[w] \in Job /\ db[held[w]] \in Row /\ Loaded(w) \in Row
        /\ MaxAttempts[held[w]] \in Nat
    BY <2>1, WriterFacts DEF IInv
  <2>3. CASE j # held[w]
    BY <2>1, <2>3, WriteKeepsRows DEF IInv
  <2>4. CASE j = held[w]
    <3>1. CASE WriteProcessing(w)
      BY <1>1, <2>2, <2>4, <3>1, ProcessingEffect DEF WriteProcessing
    <3>2. CASE WriteCompleted(w)
      BY <1>1, <2>2, <2>4, <3>2, CompletedEffect DEF WriteCompleted
    <3>3. CASE FailCommit(w)
      BY <1>1, <2>2, <2>4, <3>3, FailureEffect DEF FailCommit
    <3>. QED BY <2>1, <3>1, <3>2, <3>3
  <2>. QED BY <2>3, <2>4
<1>3. ASSUME NEW w \in Worker, RecoveryCommit(w)
      PROVE  db'[j].starts = db[j].starts
  BY <1>1, <1>3 DEF RecoveryCommit, MarkRecovered, Row
<1>4. ASSUME NEW c \in Canceller, CancelCommit(c)
      PROVE  db'[j].starts = db[j].starts
  BY <1>1, <1>4, CancelledEffect DEF CancelCommit
<1>5. ASSUME NEW k \in Job, CreateCommit(k)
      PROVE  db'[j].starts = db[j].starts
  <2>1. db[k] = NoRow
    BY <1>5 DEF CreateCommit, Untouched
  <2>. QED
    BY <1>1, <1>5, <2>1 DEF CreateCommit, NewRow, NoRow
<1>6. ASSUME NEW k \in Job, Age(k)
      PROVE  db'[j].starts = db[j].starts
  BY <1>1, <1>6 DEF Age, Row
<1>7. CASE UNCHANGED db
  BY <1>1, <1>7
<1>8. db'[j].starts = db[j].starts \/ db'[j].starts = db[j].starts + 1
  BY StepCases, <1>2, <1>3, <1>4, <1>5, <1>6, <1>7
  DEF DrainScan, DrainClaim, RequeueLoad, RequeueAdd, DequeuePriority,
      DequeueNothing, LoadQueued, LoadSkipped, ExecuteOk, ExecuteFails, NoExecutor,
      FinishLoad, FinishDiscard, FailLoad, EnqueueRetry, LoopError, FinishError,
      Crash, Start, RecoverySelect, RecoveryClean, RecoverJob, RecoveryError,
      CreateFlush, CreateEnqueue, CancelLoad, CancelRemovePriority,
      CancelRemoveRetry, CreateAbort, CancelAbort, Mature, storeVars
<1>. QED BY <1>1, <1>8

-----------------------------------------------------------------------------
(* What clients are shown.                                                 *)

(* Requests that only read leave the job queue as it is.                   *)
LEMMA ReadersStep ==
  ASSUME QueriesNext
  PROVE  Next \/ UNCHANGED vars
BY DEF QueriesNext, GetMetrics, SelectCounts, SelectAverage

(* So all that holds of the job queue holds of it under their eyes.        *)
LEMMA ReadersAreHarmless == QueriesSpec => Spec
<1>1. QueriesInit => Init
  BY DEF QueriesInit
<1>2. [QueriesNext]_<<vars, detailVars, metricsVars>> => [Next]_vars
  BY ReadersStep
<1>. QED
  BY <1>1, <1>2, PTL DEF QueriesSpec, Spec

(* Rows stay blank until they are created.                                 *)
LEMMA UntouchedInvariance == Spec => []Untouched
<1>1. Init => Untouched
  BY DEF Init, ApiInit, Untouched
<1>2. IInv /\ Untouched /\ [Next]_vars => Untouched'
  <2>1. Untouched /\ UNCHANGED vars => Untouched'
    BY DEF vars, storeVars, apiVars, Untouched
  <2>. QED BY <2>1, UntouchedStep
<1>. QED
  BY <1>1, <1>2, Invariance, PTL DEF Spec

(* The reply under way, and the one on the page.                           *)
DetailInv ==
  /\ viewed \in Job \cup {NoJob}
  /\ loaded \in Row
  /\ view \in [row : Row, logs : Nat]
  /\ viewed = NoJob => step = "idle" /\ view = NoView
  /\ viewed \notin recovered =>
       /\ view.row.attempts <= view.logs
       /\ step = "logs" => loaded.attempts <= db[viewed].starts

(* The row read first is never ahead of the logs read next.                *)
LEMMA DetailStep ==
  ASSUME IInv, Untouched, DetailInv, QueriesNext
  PROVE  DetailInv'
<1>. USE WorkerAssumption
<1>1. ASSUME Next, UNCHANGED detailVars
      PROVE  DetailInv'
  <2>1. ASSUME viewed \notin recovered', step = "logs"
        PROVE  loaded.attempts <= db'[viewed].starts
    <3>1. viewed \in Job /\ viewed \notin recovered
      BY <1>1, <2>1, RecoveredGrows DEF DetailInv
    <3>2. db[viewed].starts \in Nat /\ db'[viewed].starts \in Nat
          /\ db'[viewed].starts >= db[viewed].starts
      BY <1>1, <3>1, StartsGrow
    <3>3. loaded.attempts <= db[viewed].starts /\ loaded.attempts \in Nat
      BY <2>1, <3>1, RowFields DEF DetailInv
    <3>. QED BY <3>2, <3>3
  <2>. QED
    BY <1>1, <2>1, RecoveredGrows DEF DetailInv, detailVars
<1>2. ASSUME NEW j \in Job, OpenPage(j), UNCHANGED vars
      PROVE  DetailInv'
  BY <1>2, NewRowIsRow
  DEF OpenPage, DetailInv, NoView, NoRow, vars, storeVars
<1>3. ASSUME SelectRow, UNCHANGED vars
      PROVE  DetailInv'
  <2>1. viewed \in Job /\ db[viewed] \in Row
    BY <1>3 DEF SelectRow, DetailInv, IInv, TypeOK, StoreTypeOK
  <2>2. viewed \notin recovered => db[viewed].attempts <= db[viewed].starts
    BY <2>1, RowFields DEF IInv, AttemptsMatchStarts
  <2>. QED
    BY <1>3, <2>1, <2>2 DEF SelectRow, DetailInv, vars, storeVars
<1>4. ASSUME SelectLogs, UNCHANGED vars
      PROVE  DetailInv'
  <2>1. viewed \in Job /\ db[viewed].starts \in Nat
    BY <1>4, RowFields DEF SelectLogs, DetailInv, IInv, TypeOK, StoreTypeOK
  <2>. QED
    BY <1>4, <2>1 DEF SelectLogs, DetailInv, vars, storeVars
<1>5. ASSUME Refetch, UNCHANGED vars
      PROVE  DetailInv'
  BY <1>5 DEF Refetch, Polls, NoView, NoRow, DetailInv, vars, storeVars
<1>6. ASSUME ClosePage, UNCHANGED vars
      PROVE  DetailInv'
  BY <1>6, NewRowIsRow
  DEF ClosePage, NoView, NoRow, DetailInv, vars, storeVars
<1>7. ASSUME UNCHANGED <<vars, detailVars>>
      PROVE  DetailInv'
  BY <1>7 DEF DetailInv, vars, storeVars, detailVars
<1>. QED
  BY <1>1, <1>2, <1>3, <1>4, <1>5, <1>6, <1>7
  DEF QueriesNext, Poll, ReadDetail

(* DetailInv holds all along.                                              *)
LEMMA DetailInvariance == QueriesSpec => []DetailInv
<1>1. QueriesInit => DetailInv
  BY NewRowIsRow DEF QueriesInit, DetailInv, NoView, NoRow
<1>2. IInv /\ Untouched /\ DetailInv
        /\ [QueriesNext]_<<vars, detailVars, metricsVars>> => DetailInv'
  <2>1. DetailInv /\ UNCHANGED <<vars, detailVars>> => DetailInv'
    BY DEF DetailInv, vars, storeVars, detailVars
  <2>. QED BY <2>1, DetailStep
<1>3. QueriesSpec => []IInv /\ []Untouched
  BY ReadersAreHarmless, Invariance, UntouchedInvariance, PTL
<1>. QED
  BY <1>1, <1>2, <1>3, PTL DEF QueriesSpec

(* A reply of get_job shows the start of every attempt it counts, whatever *)
(* the workers do between the two statements it is made of.                *)
THEOREM LogsAreAhead == QueriesSpec => []LogsCoverAttempts
<1>1. DetailInv => LogsCoverAttempts
  BY DEF DetailInv, LogsCoverAttempts
<1>. QED
  BY <1>1, DetailInvariance, PTL

(* A row that has been started has the time of it.                         *)
StartedOK(j) == db[j].status \in {"processing", "completed"} => db[j].started # "null"

(* The metrics under way, and the ones replied.                            *)
AverageInv ==
  Undisturbed =>
    /\ \A j \in Job : StartedOK(j)
    /\ counting = "average" /\ counts["completed"] > 0 => Averaged
    /\ metrics.completed > 0 => metrics.average

(* The times of a row are written with its status.                         *)
LEMMA StartedStep ==
  ASSUME IInv, CalmInv, Next, Undisturbed, ~InjectFault, NEW j \in Job, StartedOK(j)
  PROVE  /\ StartedOK(j)'
         /\ db[j].status = "completed" => db'[j] = db[j]
<1>1. recovered = {} /\ db[j] \in Row
  BY DEF CalmInv, IInv, TypeOK, StoreTypeOK
<1>2. CASE db'[j] = db[j]
  BY <1>2 DEF StartedOK
<1>3. ASSUME NEW w \in Worker, held[w] = j, pc[w] \in WriteLabel,
             BeginCommit(w) \/ FinishCommit(w) \/ FailCommit(w)
      PROVE  /\ db'[j].started # "null"
             /\ db[j].status # "completed"
  <2>1. /\ Loaded(w) \in Row /\ MaxAttempts[j] \in Nat /\ db \in [Job -> Row]
    BY <1>3, WriterFacts DEF IInv, TypeOK, StoreTypeOK
  <2>2. CASE BeginCommit(w)
    <3>1. db[j].status # "completed"
      BY <1>3, <2>2, CalmCommit
    <3>2. db'[j] = MarkProcessing(db[j], Loaded(w))
      BY <1>3, <2>1, <2>2 DEF BeginCommit, WriteProcessing
    <3>. QED BY <1>1, <2>1, <3>1, <3>2, ProcessingEffect
  <2>3. CASE FinishCommit(w)
    <3>1. db[j].status = "processing"
      BY <1>3, <2>3, CalmCommit
    <3>2. db'[j] = MarkCompleted(db[j], Loaded(w))
      BY <1>3, <2>1, <2>3 DEF FinishCommit, WriteCompleted
    <3>. QED BY <1>1, <2>1, <3>1, <3>2, CompletedEffect DEF StartedOK
  <2>4. CASE FailCommit(w)
    <3>1. db[j].status = "processing"
      BY <1>3, <2>4, CalmCommit
    <3>2. db'[j] = MarkFailure(db[j], Loaded(w), MaxAttempts[j])
      BY <1>3, <2>1, <2>4 DEF FailCommit
    <3>. QED BY <1>1, <2>1, <3>1, <3>2, FailureEffect DEF StartedOK
  <2>. QED BY <1>3, <2>2, <2>3, <2>4
<1>4. CASE CreateCommit(j)
  <2>1. db[j].status = "absent" /\ db'[j] = NewRow
    BY <1>4 DEF CreateCommit, IInv, ExistenceInv, ExistenceOK, TypeOK, StoreTypeOK
  <2>. QED BY <2>1 DEF StartedOK, NewRow, NoRow
<1>5. CASE Age(j)
  <2>1. db[j].status = "processing" /\ db'[j].started = "old"
    BY <1>1, <1>5 DEF Age, IInv, TypeOK, StoreTypeOK, Row
  <2>. QED BY <2>1 DEF StartedOK
<1>. QED
  BY <1>1, <1>2, <1>3, <1>4, <1>5, CalmRow DEF StartedOK

(* Of a completed row both times are there, and the row stays.             *)
LEMMA AverageStep ==
  ASSUME IInv, CalmInv, AverageInv, QueriesNext
  PROVE  AverageInv'
<1>1. ASSUME Next, UNCHANGED metricsVars, Undisturbed'
      PROVE  AverageInv'
  <2>1. Undisturbed /\ ~InjectFault
    BY <1>1, CalmBefore
  <2>2. \A j \in Job : /\ StartedOK(j)'
                       /\ db[j].status = "completed" => db'[j] = db[j]
    BY <1>1, <2>1, StartedStep DEF AverageInv
  <2>3. Averaged => Averaged'
    BY <2>2 DEF Averaged
  <2>. QED
    BY <1>1, <2>1, <2>2, <2>3 DEF AverageInv, metricsVars
<1>2. ASSUME SelectCounts, UNCHANGED vars, Undisturbed
      PROVE  AverageInv'
  <2>1. ASSUME counts'["completed"] > 0
        PROVE  Averaged
    <3>1. counts'["completed"] = Cardinality({j \in Job : db[j].status = "completed"})
      BY <1>2 DEF SelectCounts, CountOf, JobStatus
    <3>2. {j \in Job : db[j].status = "completed"} # {}
      BY <2>1, <3>1, FS_EmptySet
    <3>3. PICK j \in Job : db[j].status = "completed"
      BY <3>2
    <3>4. db[j].started # "null" /\ db[j].completedAt # "null"
      BY <1>2, <3>3 DEF AverageInv, StartedOK, CalmInv, IInv, OutcomeRecorded
    <3>. QED BY <3>3, <3>4 DEF Averaged
  <2>2. Averaged' <=> Averaged
    BY <1>2 DEF Averaged, vars, storeVars
  <2>3. \A j \in Job : StartedOK(j)' <=> StartedOK(j)
    BY <1>2 DEF StartedOK, vars, storeVars
  <2>. QED
    BY <1>2, <2>1, <2>2, <2>3 DEF AverageInv, SelectCounts
<1>3. ASSUME SelectAverage, UNCHANGED vars, Undisturbed
      PROVE  AverageInv'
  <2>1. \A j \in Job : StartedOK(j)' <=> StartedOK(j)
    BY <1>3 DEF StartedOK, vars, storeVars
  <2>. QED
    BY <1>3, <2>1 DEF AverageInv, SelectAverage
<1>4. ASSUME UNCHANGED <<vars, metricsVars>>
      PROVE  AverageInv'
  BY <1>4
  DEF AverageInv, StartedOK, Averaged, Undisturbed, vars, storeVars, apiVars, metricsVars
<1>5. UNCHANGED vars => (Undisturbed' <=> Undisturbed)
  BY DEF Undisturbed, vars, apiVars
<1>6. ~Undisturbed' => AverageInv'
  BY DEF AverageInv
<1>. QED
  BY <1>1, <1>2, <1>3, <1>4, <1>5, <1>6 DEF QueriesNext, GetMetrics

(* Unless something failed or was cancelled: metrics that count a          *)
(* completed job have an average of processing times.                      *)
THEOREM AverageIsThere ==
  ASSUME ThresholdExceedsTimeout, Unregistered = {}
  PROVE  QueriesSpec => []CompletedHaveAverage
<1>1. QueriesInit => AverageInv
  BY DEF QueriesInit, Init, AverageInv, StartedOK, NewRow, NoRow, JobStatus
<1>2. IInv /\ CalmInv /\ AverageInv
        /\ [QueriesNext]_<<vars, detailVars, metricsVars>> => AverageInv'
  <2>1. AverageInv /\ UNCHANGED <<vars, detailVars, metricsVars>> => AverageInv'
    BY DEF AverageInv, StartedOK, Averaged, Undisturbed, vars, storeVars, apiVars,
       metricsVars
  <2>. QED BY <2>1, AverageStep
<1>3. AverageInv => CompletedHaveAverage
  BY DEF AverageInv, CompletedHaveAverage
<1>4. Spec => []CalmInv
  BY CalmInvariance
<1>5. QueriesSpec => []IInv /\ []CalmInv
  BY <1>4, ReadersAreHarmless, Invariance, PTL
<1>. QED
  BY <1>1, <1>2, <1>3, <1>5, PTL DEF QueriesSpec

(* What the statements of the queries return.                              *)
ReplyTypeOK ==
  /\ step \in {"idle", "row", "logs"}
  /\ counting \in {"counts", "average"}
  /\ counts \in [JobStatus -> 0 .. Cardinality(Job)]
  /\ metrics \in [completed : Nat, average : BOOLEAN]

(* The page, the replies and the counts of the metrics keep their types.   *)
THEOREM QueriesTypes ==
  ASSUME IsFiniteSet(Job)
  PROVE  QueriesSpec => []QueriesTypeOK
<1>1. Cardinality(Job) \in Nat /\ \A s \in JobStatus : CountOf(s) \in 0 .. Cardinality(Job)
  <2>1. ASSUME NEW s \in JobStatus
        PROVE  CountOf(s) \in Nat /\ CountOf(s) <= Cardinality(Job)
    <3>1. {j \in Job : db[j].status = s} \subseteq Job
      OBVIOUS
    <3>. QED
      BY <3>1, FS_Subset, FS_CardinalityType DEF CountOf
  <2>. QED
    BY <2>1, FS_CardinalityType
<1>2. QueriesInit => ReplyTypeOK
  BY FS_CardinalityType DEF QueriesInit, ReplyTypeOK
<1>3. ReplyTypeOK /\ [QueriesNext]_<<vars, detailVars, metricsVars>> => ReplyTypeOK'
  <2>. SUFFICES ASSUME ReplyTypeOK, [QueriesNext]_<<vars, detailVars, metricsVars>>
                PROVE  ReplyTypeOK'
    OBVIOUS
  <2>. USE DEF ReplyTypeOK
  <2>1. CASE UNCHANGED <<detailVars, metricsVars>>
    BY <2>1 DEF detailVars, metricsVars
  <2>2. CASE SelectCounts /\ UNCHANGED detailVars
    BY <1>1, <2>2 DEF SelectCounts, detailVars
  <2>3. CASE SelectAverage /\ UNCHANGED detailVars
    BY <1>1, <2>3 DEF SelectAverage, Averaged, detailVars, JobStatus
  <2>4. CASE ((\E j \in Job : OpenPage(j)) \/ Poll \/ ClosePage)
             /\ UNCHANGED metricsVars
    BY <2>4
    DEF OpenPage, Poll, ReadDetail, SelectRow, SelectLogs, Refetch, ClosePage,
        metricsVars
  <2>. QED
    BY <2>1, <2>2, <2>3, <2>4 DEF QueriesNext, GetMetrics
<1>4. IInv /\ DetailInv /\ ReplyTypeOK => QueriesTypeOK
  BY DEF IInv, DetailInv, ReplyTypeOK, QueriesTypeOK
<1>5. QueriesSpec => []IInv
  BY ReadersAreHarmless, Invariance, PTL
<1>. QED
  BY <1>2, <1>3, <1>4, <1>5, DetailInvariance, PTL DEF QueriesSpec

-----------------------------------------------------------------------------
(* The instruments of the workers: jobs_active.                            *)

(* The loop with its instruments is the loop.                              *)
LEMMA MetricsStep ==
  ASSUME MetricsNext
  PROVE  Next
<1>1. ASSUME NEW w \in Worker, LoopStepMetered(w)
      PROVE  LoopStep(w)
  BY <1>1
  DEF LoopStepMetered, BeginMetered, DiscardMetered, FinishMetered,
      ExecuteFailsMetered, FailMetered, Unmetered, LoopStep
<1>2. ASSUME NEW w \in Worker, LoopFaultMetered(w)
      PROVE  LoopFault(w)
  BY <1>2 DEF LoopFaultMetered, DiscardError, LoopFault
<1>3. ASSUME NEW w \in Worker, WorkerMetered(w)
      PROVE  WorkerStep(w) \/ WorkerFault(w)
  BY <1>1, <1>2, <1>3 DEF WorkerMetered, WorkerStep, WorkerFault
<1>. QED
  BY <1>3 DEF MetricsNext, Next

(* So all that holds of the job queue holds of the one with instruments.   *)
LEMMA MetricsAreHarmless == MetricsSpec => Spec
<1>1. MetricsInit => Init
  BY DEF MetricsInit
<1>2. [MetricsNext]_<<vars, metricVars>> => [Next]_vars
  BY MetricsStep
<1>. QED
  BY <1>1, <1>2, PTL DEF MetricsSpec, Spec

(* A worker at a job is at one of which the start is on record.            *)
WorkIsStarted == \A w \in Worker, j \in Job : Working(w, j) => db[j].starts > 0

(* A start that was recorded is not taken back.                            *)
LEMMA WorkIsStartedStep ==
  ASSUME IInv, Untouched, WorkIsStarted, Next
  PROVE  WorkIsStarted'
<1>. SUFFICES ASSUME NEW w \in Worker, NEW j \in Job, Working(w, j)'
              PROVE  db'[j].starts > 0
  BY DEF WorkIsStarted
<1>1. db[j].starts \in Nat /\ db'[j].starts \in Nat /\ db'[j].starts >= db[j].starts
  BY StartsGrow
<1>2. CASE Working(w, j)
  BY <1>1, <1>2 DEF WorkIsStarted
<1>3. CASE ~Working(w, j)
  <2>1. held[w] = j /\ BeginCommit(w)
    BY <1>3, WorkBegins
  <2>2. /\ db \in [Job -> Row] /\ Loaded(w) \in Row
    BY <2>1, WriterFacts DEF BeginCommit, WriteLabel, IInv, TypeOK, StoreTypeOK
  <2>3. db'[j] = MarkProcessing(db[j], Loaded(w))
    BY <2>1, <2>2 DEF BeginCommit, WriteProcessing
  <2>. QED BY <1>1, <2>2, <2>3, ProcessingEffect
<1>. QED BY <1>2, <1>3

(* Whatever a worker is at, its start is on record.                        *)
LEMMA WorkIsStartedInvariance == Spec => []WorkIsStarted
<1>1. Init => WorkIsStarted
  BY DEF Init, WorkerInit, WorkIsStarted, Working, WorkLabel
<1>2. IInv /\ Untouched /\ WorkIsStarted /\ [Next]_vars => WorkIsStarted'
  <2>1. WorkIsStarted /\ UNCHANGED vars => WorkIsStarted'
    BY DEF WorkIsStarted, Working, vars, storeVars, workerVars
  <2>. QED BY <2>1, WorkIsStartedStep
<1>. QED
  BY <1>1, <1>2, Invariance, UntouchedInvariance, PTL DEF Spec

(* What the steps of a worker make of its jobs_active.                     *)
LEMMA ActiveMoves ==
  ASSUME IInv, NEW v \in Worker, WorkerMetered(v)
  PROVE  \/ ~Counted(v) /\ Counted(v)' /\ Raise(v)
         \/ Counted(v) /\ ~Counted(v)' /\ Lower(v)
         \/ (Counted(v)' <=> Counted(v)) /\ UNCHANGED active
         \/ /\ pc[v] = "execute" /\ held[v] \in Unregistered
            /\ UNCHANGED <<db, active>>
            /\ ~Counted(v)'
         \/ ~Counted(v)' /\ UNCHANGED active /\ InjectFault
         \/ ~Counted(v)' /\ active' = [active EXCEPT ![v] = 0] /\ InjectFault
         \/ /\ pc[v] = "finish_load" /\ Discardable(held[v])
            /\ Counted(v)' /\ Lower(v) /\ InjectFault
<1>. USE DEF Counted, Goto, NextRound, Leave, IInv, TypeOK, WorkerTypeOK
<1>1. CASE BeginMetered(v)
  BY <1>1 DEF BeginMetered, BeginCommit
<1>2. CASE DiscardMetered(v) \/ FinishMetered(v)
  BY <1>2 DEF DiscardMetered, FinishMetered, FinishDiscard, FinishCommit
<1>3. CASE ExecuteFailsMetered(v)
  BY <1>3 DEF ExecuteFailsMetered, ExecuteFails
<1>4. CASE FailMetered(v)
  BY <1>4
  DEF FailMetered, FailLoad, AfterFailLoad, EnqueueRetry, FailCommit, metricVars
<1>5. CASE Unmetered(v) /\ UNCHANGED metricVars
  BY <1>5
  DEF Unmetered, DrainScan, DrainClaim, RequeueLoad, DequeuePriority, RequeueAdd,
      DequeueNothing, LoadQueued, LoadSkipped, ExecuteOk, NoExecutor, FinishLoad,
      AfterClaim, storeVars, metricVars
<1>6. CASE LoopFaultMetered(v)
  BY <1>6
  DEF LoopFaultMetered, DiscardError, FinishError, FinishCommitUnacknowledged,
      LoopError, BeginCommitUnacknowledged, Crash, metricVars
<1>7. CASE (Start(v) \/ RecoveryStep(v) \/ RecoveryError(v)) /\ UNCHANGED metricVars
  BY <1>7
  DEF Start, RecoveryStep, RecoverySelect, RecoveryClean, RecoverJob, RecoveryCommit,
      RecoveryError, RecoveryLabel, metricVars
<1>. QED
  BY <1>1, <1>2, <1>3, <1>4, <1>5, <1>6, <1>7 DEF WorkerMetered, LoopStepMetered

(* A step of one worker does not move another one.                         *)
LEMMA OthersStay ==
  ASSUME IInv, NEW v \in Worker, WorkerMetered(v), NEW w \in Worker \ {v}
  PROVE  pc'[w] = pc[w] /\ held'[w] = held[w] /\ session'[w] = session[w]
<1>. USE DEF Goto, NextRound, Leave, Load, IInv, TypeOK, WorkerTypeOK
<1>1. CASE BeginMetered(v)
  BY <1>1 DEF BeginMetered, BeginCommit
<1>2. CASE DiscardMetered(v) \/ FinishMetered(v)
  BY <1>2 DEF DiscardMetered, FinishMetered, FinishDiscard, FinishCommit
<1>3. CASE ExecuteFailsMetered(v)
  BY <1>3 DEF ExecuteFailsMetered, ExecuteFails
<1>4. CASE FailMetered(v)
  BY <1>4 DEF FailMetered, FailLoad, EnqueueRetry, FailCommit
<1>5. CASE Unmetered(v)
  BY <1>5
  DEF Unmetered, DrainScan, DrainClaim, RequeueLoad, DequeuePriority, RequeueAdd,
      DequeueNothing, LoadQueued, LoadSkipped, ExecuteOk, NoExecutor, FinishLoad
<1>6. CASE LoopFaultMetered(v)
  BY <1>6
  DEF LoopFaultMetered, DiscardError, FinishError, FinishCommitUnacknowledged,
      LoopError, BeginCommitUnacknowledged, Crash
<1>7. CASE Start(v) \/ RecoveryStep(v) \/ RecoveryError(v)
  BY <1>7
  DEF Start, RecoveryStep, RecoverySelect, RecoveryClean, RecoverJob, RecoveryCommit,
      RecoveryError
<1>. QED
  BY <1>1, <1>2, <1>3, <1>4, <1>5, <1>6, <1>7 DEF WorkerMetered, LoopStepMetered

(* Only the commit of a cancel request makes a row a cancelled one.        *)
CancelInv == NoneCancelled => \A j \in Job : db[j].status # "cancelled"

(* A request that has come to its end stays there.                         *)
LEMMA EndedRequestsStay ==
  ASSUME IInv, Next, NEW c \in Canceller, cancelling[c] \in {"200", "500"}
  PROVE  cancelling'[c] = cancelling[c]
<1>1. cancelling \in [Canceller -> CancelLabel]
  BY DEF IInv, TypeOK, ApiTypeOK
<1>2. ASSUME NEW d \in Canceller, NEW label, CancelGoto(d, label),
             cancelling[d] \notin {"200", "500"}
      PROVE  cancelling'[c] = cancelling[c]
  BY <1>1, <1>2 DEF CancelGoto
<1>3. ASSUME NEW d \in Canceller,
             \/ CancelLoad(d) \/ CancelRemovePriority(d) \/ CancelRemoveRetry(d)
             \/ CancelCommit(d) \/ CancelAbort(d)
      PROVE  cancelling'[c] = cancelling[c]
  BY <1>2, <1>3 DEF CancelLoad, CancelRemovePriority, CancelRemoveRetry,
     CancelCommit, CancelAbort
<1>. QED
  BY <1>3 DEF Next, ApiStep, ApiFault, CancelStep, CreateStep, CreateFlush,
     CreateEnqueue, CreateCommit, CreateAbort, Mature, Age, apiVars

(* Writers other than a cancel request set other statuses, or none.        *)
LEMMA CancelInvStep ==
  ASSUME IInv, CancelInv, Next
  PROVE  CancelInv'
<1>. SUFFICES ASSUME NoneCancelled', NEW j \in Job
              PROVE  db'[j].status # "cancelled"
  BY DEF CancelInv
<1>1. cancelling \in [Canceller -> CancelLabel]
  BY DEF IInv, TypeOK, ApiTypeOK
<1>2. ASSUME NEW c \in Canceller, CancelCommit(c)
      PROVE  FALSE
  BY <1>1, <1>2 DEF CancelCommit, CancelGoto, NoneCancelled
<1>3. NoneCancelled
  BY EndedRequestsStay DEF NoneCancelled
<1>4. /\ db \in [Job -> Row] /\ db[j] \in Row /\ db[j].status # "cancelled"
      /\ session \in [Worker -> [Job -> Row]] /\ MaxAttempts[j] \in Nat
  BY <1>3, JobAssumption DEF CancelInv, IInv, TypeOK, StoreTypeOK, WorkerTypeOK
<1>5. ASSUME NEW w \in Worker,
             \/ BeginCommit(w) \/ BeginCommitUnacknowledged(w)
             \/ FinishCommit(w) \/ FinishCommitUnacknowledged(w)
             \/ FailCommit(w)
      PROVE  db'[j].status # "cancelled"
  <2>1. pc[w] \in WriteLabel /\ (WriteProcessing(w) \/ WriteCompleted(w) \/ FailCommit(w))
    BY <1>5 DEF BeginCommit, BeginCommitUnacknowledged, FinishCommit,
       FinishCommitUnacknowledged, FailCommit, WriteLabel
  <2>2. CASE j # held[w]
    BY <1>4, <2>1, <2>2, WriteKeepsRows DEF IInv
  <2>3. CASE j = held[w]
    <3>1. Loaded(w) \in Row
      BY <2>1, WriterFacts DEF IInv
    <3>2. \/ db'[j] = MarkProcessing(db[j], Loaded(w))
          \/ db'[j] = MarkCompleted(db[j], Loaded(w))
          \/ db'[j] = MarkFailure(db[j], Loaded(w), MaxAttempts[j])
      BY <1>4, <2>1, <2>3 DEF WriteProcessing, WriteCompleted, FailCommit
    <3>3. MarkProcessing(db[j], Loaded(w)).status # "cancelled"
      BY <1>4, <3>1, ProcessingEffect DEF NetChange
    <3>4. MarkCompleted(db[j], Loaded(w)).status # "cancelled"
      BY <1>4, <3>1, CompletedEffect DEF NetChange
    <3>5. MarkFailure(db[j], Loaded(w), MaxAttempts[j]).status # "cancelled"
      BY <1>4, <3>1, FailureEffect DEF NetChange
    <3>. QED
      BY <3>2, <3>3, <3>4, <3>5
  <2>. QED BY <2>2, <2>3
<1>6. ASSUME NEW w \in Worker, RecoveryCommit(w)
      PROVE  db'[j].status # "cancelled"
  BY <1>4, <1>6, RecoveredEffect DEF RecoveryCommit
<1>7. ASSUME NEW k \in Job, CreateCommit(k)
      PROVE  db'[j].status # "cancelled"
  BY <1>4, <1>7 DEF CreateCommit, NewRow, NoRow
<1>8. ASSUME NEW k \in Job, Age(k)
      PROVE  db'[j].status # "cancelled"
  BY <1>4, <1>8 DEF Age, Row
<1>9. CASE UNCHANGED db
  BY <1>4, <1>9
<1>. QED
  BY StepCases, <1>2, <1>5, <1>6, <1>7, <1>8, <1>9
  DEF DrainScan, DrainClaim, RequeueLoad, RequeueAdd, DequeuePriority,
      DequeueNothing, LoadQueued, LoadSkipped, ExecuteOk, ExecuteFails, NoExecutor,
      FinishLoad, FinishDiscard, FailLoad, EnqueueRetry, LoopError, FinishError,
      Crash, Start, RecoverySelect, RecoveryClean, RecoverJob, RecoveryError,
      CreateFlush, CreateEnqueue, CancelLoad, CancelRemovePriority,
      CancelRemoveRetry, CreateAbort, CancelAbort, Mature, storeVars

(* CancelInv holds all along.                                              *)
LEMMA CancelInvariance == Spec => []CancelInv
<1>1. Init => CancelInv
  BY DEF Init, CancelInv, NewRow, NoRow
<1>2. IInv /\ CancelInv /\ [Next]_vars => CancelInv'
  <2>1. CancelInv /\ UNCHANGED vars => CancelInv'
    BY DEF CancelInv, NoneCancelled, vars, storeVars, apiVars
  <2>. QED BY <2>1, CancelInvStep
<1>. QED
  BY <1>1, <1>2, Invariance, PTL DEF Spec

(* No job without an executor has been started.                            *)
ExecutorsFound == \A j \in Unregistered \cap Job : db[j].starts = 0

(* ActiveIsWorking of one worker.                                          *)
ActiveOK(w) ==
  LET working == IF Counted(w) THEN 1 ELSE 0
  IN  /\ active[w] \in Int
      /\ faults = 0 /\ ExecutorsFound => active[w] = working
      /\ active[w] >= working - faults
      /\ NoneCancelled => active[w] >= working

ActiveInv == active \in [Worker -> Int] /\ \A w \in Worker : ActiveOK(w)

(* A worker moves its own jobs_active only: up at a start, down at an      *)
(* outcome, and down once more at an error that follows a cancellation.    *)
LEMMA ActiveStep ==
  ASSUME IInv, Untouched, WorkIsStarted, CancelInv, ActiveInv, MetricsNext
  PROVE  ActiveInv'
<1>1. Next
  BY MetricsStep
<1>2. /\ faults \in Nat /\ faults' \in Nat /\ faults' >= faults
      /\ InjectFault => faults' = faults + 1
  BY <1>1, FaultsGrow DEF InjectFault
<1>3. ExecutorsFound' => ExecutorsFound
  <2>. SUFFICES ASSUME ExecutorsFound', NEW j \in Unregistered \cap Job
                PROVE  db[j].starts = 0
    BY DEF ExecutorsFound
  <2>1. db'[j].starts = 0
    BY DEF ExecutorsFound
  <2>. QED BY <1>1, <2>1, StartsGrow
<1>4. NoneCancelled' => NoneCancelled
  BY <1>1, EndedRequestsStay DEF NoneCancelled
<1>5. active \in [Worker -> Int]
  BY DEF ActiveInv
<1>6. ASSUME NEW w \in Worker, active'[w] = active[w], Counted(w)' <=> Counted(w)
      PROVE  ActiveOK(w)'
  BY <1>2, <1>3, <1>4, <1>6 DEF ActiveInv, ActiveOK
<1>7. ASSUME NEW v \in Worker, WorkerMetered(v)
      PROVE  ActiveInv'
  <2>1. /\ ActiveOK(v)' /\ active' \in [Worker -> Int]
        /\ \A w \in Worker \ {v} : active'[w] = active[w]
        => ActiveInv'
    <3>1. \A w \in Worker \ {v} : Counted(w)' <=> Counted(w)
      BY <1>7, OthersStay DEF Counted
    <3>. QED BY <1>6, <3>1 DEF ActiveInv
  <2>2. ActiveOK(v)
    BY DEF ActiveInv
  <2>3. CASE ~Counted(v) /\ Counted(v)' /\ Raise(v)
    <3>1. active'[v] = active[v] + 1 /\ active' \in [Worker -> Int]
          /\ \A w \in Worker \ {v} : active'[w] = active[w]
      BY <1>5, <2>3 DEF Raise
    <3>2. ActiveOK(v)'
      BY <1>2, <1>3, <1>4, <2>2, <2>3, <3>1 DEF ActiveOK
    <3>. QED BY <2>1, <3>1, <3>2
  <2>4. CASE Counted(v) /\ ~Counted(v)' /\ Lower(v)
    <3>1. active'[v] = active[v] - 1 /\ active' \in [Worker -> Int]
          /\ \A w \in Worker \ {v} : active'[w] = active[w]
      BY <1>5, <2>4 DEF Lower
    <3>2. ActiveOK(v)'
      BY <1>2, <1>3, <1>4, <2>2, <2>4, <3>1 DEF ActiveOK
    <3>. QED BY <2>1, <3>1, <3>2
  <2>5. CASE (Counted(v)' <=> Counted(v)) /\ UNCHANGED active
    BY <1>5, <1>6, <2>1, <2>5
  <2>6. CASE /\ pc[v] = "execute" /\ held[v] \in Unregistered
             /\ UNCHANGED <<db, active>>
             /\ ~Counted(v)'
    <3>1. held[v] \in Unregistered \cap Job
      BY <2>6, WorkerAssumption
      DEF IInv, TypeOK, WorkerTypeOK, LocalInv, LocalOK, HeldLabel, WorkLabel
    <3>2. db[held[v]].starts > 0
      BY <2>6, <3>1 DEF WorkIsStarted, Working, WorkLabel
    <3>3. ~ExecutorsFound'
      BY <2>6, <3>1, <3>2 DEF ExecutorsFound
    <3>4. ActiveOK(v)'
      BY <1>2, <1>4, <2>2, <2>6, <3>3 DEF ActiveOK
    <3>. QED BY <1>5, <2>1, <2>6, <3>4
  <2>7. CASE ~Counted(v)' /\ UNCHANGED active /\ InjectFault
    <3>1. ActiveOK(v)'
      BY <1>2, <1>4, <2>2, <2>7 DEF ActiveOK
    <3>. QED BY <1>5, <2>1, <2>7, <3>1
  <2>8. CASE ~Counted(v)' /\ active' = [active EXCEPT ![v] = 0] /\ InjectFault
    <3>1. active'[v] = 0 /\ active' \in [Worker -> Int]
          /\ \A w \in Worker \ {v} : active'[w] = active[w]
      BY <1>5, <2>8
    <3>2. ActiveOK(v)'
      BY <1>2, <2>8, <3>1 DEF ActiveOK
    <3>. QED BY <2>1, <3>1, <3>2
  <2>9. CASE /\ pc[v] = "finish_load" /\ Discardable(held[v])
             /\ Counted(v)' /\ Lower(v) /\ InjectFault
    <3>1. active'[v] = active[v] - 1 /\ active' \in [Worker -> Int]
          /\ \A w \in Worker \ {v} : active'[w] = active[w]
      BY <1>5, <2>9 DEF Lower
    <3>2. held[v] \in Job
      BY <2>9 DEF IInv, LocalInv, LocalOK, HeldLabel, WorkLabel, TypeOK, WorkerTypeOK
    <3>3. ~NoneCancelled
      BY <2>9, <3>2 DEF Discardable, CancelInv
    <3>4. Counted(v)
      BY <2>9 DEF Counted
    <3>5. ActiveOK(v)'
      BY <1>2, <1>4, <2>2, <2>9, <3>1, <3>3, <3>4 DEF ActiveOK
    <3>. QED BY <2>1, <3>1, <3>5
  <2>. QED
    BY <1>7, <2>3, <2>4, <2>5, <2>6, <2>7, <2>8, <2>9, ActiveMoves
<1>8. ASSUME UNCHANGED <<workerVars, active>>
      PROVE  ActiveInv'
  <2>1. \A w \in Worker : ActiveOK(w)'
    BY <1>6, <1>8 DEF Counted, workerVars
  <2>. QED BY <1>5, <1>8, <2>1 DEF ActiveInv
<1>. QED
  BY <1>7, <1>8 DEF MetricsNext, metricVars, Mature, Age

(* ActiveInv holds all along.                                              *)
LEMMA ActiveInvariance == MetricsSpec => []ActiveInv
<1>1. MetricsInit => ActiveInv
  BY DEF MetricsInit, Init, WorkerInit, ActiveInv, ActiveOK, Counted
<1>2. IInv /\ Untouched /\ WorkIsStarted /\ CancelInv /\ ActiveInv
        /\ [MetricsNext]_<<vars, metricVars>> => ActiveInv'
  <2>1. ActiveInv /\ UNCHANGED <<vars, metricVars>> => ActiveInv'
    BY DEF ActiveInv, ActiveOK, Counted, ExecutorsFound, NoneCancelled, vars, storeVars,
       workerVars, apiVars, metricVars
  <2>. QED BY <2>1, ActiveStep
<1>3. MetricsSpec => []IInv /\ []Untouched /\ []WorkIsStarted /\ []CancelInv
  BY MetricsAreHarmless, Invariance, UntouchedInvariance, WorkIsStartedInvariance,
     CancelInvariance, PTL
<1>. QED
  BY <1>1, <1>2, <1>3, PTL DEF MetricsSpec

(* jobs_active of a worker is 1 while it executes and 0 else, as long as   *)
(* nothing has failed and no executor was missing.  It misses executions   *)
(* only after a cancellation, and no more than there were errors.          *)
THEOREM ActiveIsExactOrHigh == MetricsSpec => []ActiveIsWorking
<1>1. ActiveInv => ActiveIsWorking
  <2>. SUFFICES ASSUME ActiveInv, NEW w \in Worker
                PROVE  LET working == IF Counted(w) THEN 1 ELSE 0
                       IN  /\ faults = 0 /\ (\A j \in Unregistered : db[j].starts = 0)
                                => active[w] = working
                           /\ active[w] >= working - faults
                           /\ NoneCancelled => active[w] >= working
    BY DEF ActiveIsWorking
  <2>. QED
    BY DEF ActiveInv, ActiveOK, ExecutorsFound
<1>. QED
  BY <1>1, ActiveInvariance, PTL

-----------------------------------------------------------------------------
(* The instruments of the workers: the counters.                           *)

CountTypeOK == count \in [Job -> [Counter -> Nat]]

(* An increment changes one counter of one job.                            *)
LEMMA CountEffect ==
  ASSUME CountTypeOK, NEW v \in Worker, held[v] \in Job, NEW c \in Counter, Count(v, c)
  PROVE  /\ CountTypeOK'
         /\ \A j \in Job, d \in Counter :
              count'[j][d] =
                IF j = held[v] /\ d = c THEN count[j][d] + 1 ELSE count[j][d]
<1>1. [count[held[v]] EXCEPT ![c] = @ + 1] \in [Counter -> Nat]
  BY DEF CountTypeOK
<1>2. count' = [count EXCEPT ![held[v]] = [count[held[v]] EXCEPT ![c] = @ + 1]]
  BY DEF Count, CountTypeOK
<1>. QED
  BY <1>1, <1>2 DEF CountTypeOK

(* The steps at which the loop counts something.                           *)
LEMMA CountMoves ==
  ASSUME IInv, NEW v \in Worker, WorkerMetered(v)
  PROVE  \/ UNCHANGED count
         \/ FinishCommit(v) /\ Count(v, "completed")
         \/ ExecuteFails(v) /\ Count(v, "attempt")
         \/ /\ FailLoad(v) /\ Exhausted(db[held[v]], MaxAttempts[held[v]])
            /\ Count(v, "exhausted")
         \/ EnqueueRetry(v) /\ Count(v, "retried")
         \/ /\ FinishError(v) \/ FinishCommitUnacknowledged(v)
            /\ Count(v, "attempt")
BY DEF WorkerMetered, LoopStepMetered, LoopFaultMetered, DiscardError, BeginMetered,
       DiscardMetered, FinishMetered, ExecuteFailsMetered, FailMetered, metricVars

(* Whoever counts has the job it counts for in hand.                       *)
LEMMA CounterHolds ==
  ASSUME IInv, NEW v \in Worker,
         \/ FinishCommit(v) \/ ExecuteFails(v) \/ FailLoad(v) \/ EnqueueRetry(v)
         \/ FinishError(v) \/ FinishCommitUnacknowledged(v)
  PROVE  pc[v] \in WorkLabel /\ held[v] \in Job
<1>1. pc[v] \in WorkLabel
  BY DEF FinishCommit, ExecuteFails, FailLoad, EnqueueRetry, FinishError,
     FinishCommitUnacknowledged, WorkLabel
<1>. QED
  BY <1>1 DEF IInv, TypeOK, WorkerTypeOK, LocalInv, LocalOK, HeldLabel

(* Counters go up only.                                                    *)
LEMMA CountTypeStep ==
  ASSUME IInv, CountTypeOK, MetricsNext
  PROVE  CountTypeOK'
<1>1. ASSUME NEW v \in Worker, WorkerMetered(v)
      PROVE  CountTypeOK'
  BY <1>1, CountMoves, CounterHolds, CountEffect DEF Counter, CountTypeOK
<1>. QED
  BY <1>1 DEF MetricsNext, metricVars, CountTypeOK

(* w is at job j, from the moment it has found it queued.                  *)
At(w, j) == held[w] = j /\ pc[w] \in {"begin"} \cup WorkLabel

(* It comes there by finding the row queued.                               *)
LEMMA AtBegins ==
  ASSUME IInv, Next, NEW w \in Worker, NEW j \in Job, At(w, j)', ~At(w, j)
  PROVE  db[j].status = "queued" /\ UNCHANGED db
<1>1. IInv'
  BY NextIInv
<1>2. ~Working(w, j) /\ ~(held[w] = j /\ pc[w] = "begin")
  BY DEF At, Working
<1>3. ~Working(w, j)'
  BY <1>2, WorkBegins DEF BeginCommit
<1>4. held'[w] = j /\ pc'[w] = "begin"
  BY <1>3 DEF At, Working
<1>5. /\ held[w] = j
      /\ \/ session'[w][j] = db[j] /\ UNCHANGED db
         \/ EnqueueRetry(w)
         \/ pc[w] \in WriteLabel
  BY <1>4, CommitBegins DEF WriteLabel
<1>6. session'[w][j] = db[j] /\ UNCHANGED db
  BY <1>2, <1>5 DEF EnqueueRetry, WriteLabel, Working, WorkLabel
<1>7. session'[w][j].status = "queued"
  BY <1>1, <1>4 DEF IInv, LocalInv, LocalOK, Loaded
<1>. QED BY <1>6, <1>7

(* Who changes the status of a row that recovery has not selected.         *)
LEMMA StatusMoves ==
  ASSUME IInv, Next, NEW j \in Job \ recovered,
         \A w \in Worker : ~At(w, j)
  PROVE  db'[j].status \in {db[j].status, "cancelled"}
         \/ (db[j].status = "absent" /\ db'[j].status = "queued")
<1>1. db \in [Job -> Row] /\ db[j] \in Row
  BY DEF IInv, TypeOK, StoreTypeOK
<1>2. ASSUME NEW w \in Worker,
             \/ BeginCommit(w) \/ BeginCommitUnacknowledged(w)
             \/ FinishCommit(w) \/ FinishCommitUnacknowledged(w)
             \/ FailCommit(w)
      PROVE  db'[j] = db[j]
  <2>1. pc[w] \in WriteLabel /\ (WriteProcessing(w) \/ WriteCompleted(w) \/ FailCommit(w))
    BY <1>2 DEF BeginCommit, BeginCommitUnacknowledged, FinishCommit,
       FinishCommitUnacknowledged, FailCommit, WriteLabel
  <2>2. j # held[w]
    BY <2>1 DEF At, WriteLabel, WorkLabel
  <2>. QED BY <2>1, <2>2, WriteKeepsRows DEF IInv
<1>3. ASSUME NEW w \in Worker, RecoveryCommit(w)
      PROVE  db'[j] = db[j]
  BY <1>3 DEF RecoveryCommit, IInv, LocalInv, LocalOK, WriteLabel
<1>4. ASSUME NEW c \in Canceller, CancelCommit(c)
      PROVE  db'[j].status \in {db[j].status, "cancelled"}
  BY <1>1, <1>4, CancelledEffect DEF CancelCommit
<1>5. ASSUME NEW k \in Job, CreateCommit(k)
      PROVE  \/ db'[j].status = db[j].status
             \/ db[j].status = "absent" /\ db'[j].status = "queued"
  BY <1>1, <1>5 DEF CreateCommit, NewRow, NoRow, IInv, ExistenceInv, ExistenceOK
<1>6. ASSUME NEW k \in Job, Age(k)
      PROVE  db'[j].status = db[j].status
  BY <1>1, <1>6 DEF Age, Row
<1>7. CASE UNCHANGED db
  BY <1>7
<1>. QED
  BY StepCases, <1>2, <1>3, <1>4, <1>5, <1>6, <1>7
  DEF DrainScan, DrainClaim, RequeueLoad, RequeueAdd, DequeuePriority,
      DequeueNothing, LoadQueued, LoadSkipped, ExecuteOk, ExecuteFails, NoExecutor,
      FinishLoad, FinishDiscard, FailLoad, EnqueueRetry, LoopError, FinishError,
      Crash, Start, RecoverySelect, RecoveryClean, RecoverJob, RecoveryError,
      CreateFlush, CreateEnqueue, CancelLoad, CancelRemovePriority,
      CancelRemoveRetry, CreateAbort, CancelAbort, Mature, storeVars

(* CompletionCountStands of one job, and no worker at it any more.         *)
CompletionOK(j) ==
  count[j]["completed"] > 0 =>
    /\ count[j]["completed"] = 1
    /\ db[j].status \in {"completed", "cancelled"}
    /\ \A w \in Worker : ~At(w, j)

CompletionInv == \A j \in Job \ recovered : CompletionOK(j)

(* The commit of a success leaves its row completed, or cancelled.         *)
LEMMA SuccessCommits ==
  ASSUME IInv, NEW v \in Worker, NEW j \in Job \ recovered, held[v] = j, FinishCommit(v)
  PROVE  db'[j].status \in {"completed", "cancelled"}
<1>1. pc[v] \in WriteLabel
  BY DEF FinishCommit, WriteLabel
<1>2. /\ db \in [Job -> Row] /\ Loaded(v) \in Row /\ Loaded(v) = session[v][j]
  BY <1>1, WriterFacts DEF IInv, TypeOK, StoreTypeOK
<1>3. Agree(db[j], Loaded(v))
  BY <1>1, <1>2 DEF IInv, FreshInv, FreshOK
<1>4. db'[j] = MarkCompleted(db[j], Loaded(v))
  BY <1>2 DEF FinishCommit, WriteCompleted
<1>. QED
  BY <1>2, <1>3, <1>4, CompletedEffect DEF NetChange, Agree

(* A success is counted by the last worker at the job.                     *)
LEMMA CompletionStep ==
  ASSUME IInv, CountTypeOK, CompletionInv, MetricsNext
  PROVE  CompletionInv'
<1>. SUFFICES ASSUME NEW j \in Job, j \notin recovered', count'[j]["completed"] > 0
              PROVE  /\ count'[j]["completed"] = 1
                     /\ db'[j].status \in {"completed", "cancelled"}
                     /\ \A w \in Worker : ~At(w, j)'
  BY DEF CompletionInv, CompletionOK
<1>1. Next /\ j \notin recovered /\ CompletionOK(j)
  BY MetricsStep, RecoveredGrows DEF CompletionInv
<1>2. count[j]["completed"] \in Nat
  BY DEF CountTypeOK, Counter
<1>3. CASE count'[j]["completed"] = count[j]["completed"]
  <2>1. /\ count[j]["completed"] = 1
        /\ db[j].status \in {"completed", "cancelled"}
        /\ \A w \in Worker : ~At(w, j)
    BY <1>1, <1>3 DEF CompletionOK
  <2>2. db'[j].status \in {"completed", "cancelled"}
    BY <1>1, <2>1, StatusMoves
  <2>3. ASSUME NEW w \in Worker
        PROVE  ~At(w, j)'
    BY <1>1, <2>1, AtBegins
  <2>. QED BY <1>3, <2>1, <2>2, <2>3
<1>4. CASE count'[j]["completed"] # count[j]["completed"]
  <2>1. PICK v \in Worker : WorkerMetered(v)
    BY <1>4 DEF MetricsNext, metricVars
  <2>2. FinishCommit(v) /\ held[v] = j /\ count'[j]["completed"] = count[j]["completed"] + 1
    BY <1>4, <2>1, CountMoves, CounterHolds, CountEffect DEF Counter
  <2>3. At(v, j)
    BY <2>2 DEF At, FinishCommit, WorkLabel
  <2>4. count'[j]["completed"] = 1
    BY <1>1, <1>2, <2>2, <2>3 DEF CompletionOK
  <2>5. db'[j].status \in {"completed", "cancelled"}
    BY <1>1, <2>2, SuccessCommits
  <2>6. ~At(v, j)'
    BY <2>2, WorkerAssumption
    DEF At, WorkLabel, FinishCommit, NextRound, Leave, IInv, TypeOK, WorkerTypeOK
  <2>7. ASSUME NEW w \in Worker, w # v
        PROVE  ~At(w, j)'
    <3>1. held[w] # j
      BY <1>1, <2>2, <2>7, SoleHolder DEF IInv
    <3>. QED
      BY <2>1, <2>7, <3>1, OthersStay DEF At
  <2>. QED BY <2>4, <2>5, <2>6, <2>7
<1>. QED BY <1>3, <1>4

(* CompletionInv holds all along, and so do the types of the counters.     *)
LEMMA CompletionInvariance == MetricsSpec => []CountTypeOK /\ []CompletionInv
<1>1. MetricsInit => CountTypeOK /\ CompletionInv
  BY DEF MetricsInit, CountTypeOK, CompletionInv, CompletionOK, Counter
<1>2. IInv /\ CountTypeOK /\ CompletionInv
        /\ [MetricsNext]_<<vars, metricVars>> => CountTypeOK' /\ CompletionInv'
  <2>1. CountTypeOK /\ CompletionInv /\ UNCHANGED <<vars, metricVars>>
          => CountTypeOK' /\ CompletionInv'
    BY DEF CountTypeOK, CompletionInv, CompletionOK, At, vars, storeVars, workerVars,
       metricVars
  <2>. QED BY <2>1, CountTypeStep, CompletionStep
<1>3. MetricsSpec => []IInv
  BY MetricsAreHarmless, Invariance, PTL
<1>. QED
  BY <1>1, <1>2, <1>3, PTL DEF MetricsSpec

(* A job that was counted as completed stays completed, or cancelled, and  *)
(* is not counted again, whatever fails and whoever cancels.               *)
THEOREM CompletionsStand == MetricsSpec => []CompletionCountStands
<1>1. CompletionInv => CompletionCountStands
  BY DEF CompletionInv, CompletionOK, CompletionCountStands
<1>. QED
  BY <1>1, CompletionInvariance, PTL

(* The instruments keep their types.  The counters only count up; of       *)
(* jobs_active no more is said than that it is an integer, for it does     *)
(* fall below 0.                                                           *)
THEOREM MetricsTypes == MetricsSpec => []MetricsTypeOK
<1>1. ActiveInv /\ CountTypeOK => MetricsTypeOK
  BY DEF ActiveInv, CountTypeOK, MetricsTypeOK
<1>. QED
  BY <1>1, ActiveInvariance, CompletionInvariance, PTL

(* w is about to decide on a failure of j.                                 *)
Deciding(w, j) == held[w] = j /\ pc[w] \in {"fail_load", "enqueue_retry"}

Deciders(j) == {w \in Worker : Deciding(w, j)}

(* FailuresAddUp of one job.                                               *)
FailuresOK(j) ==
  /\ IsFiniteSet(Deciders(j))
  /\ count[j]["attempt"] =
       count[j]["retried"] + count[j]["exhausted"] + Cardinality(Deciders(j))

(* A failure is counted when its exception is caught, and once more when   *)
(* it is decided what becomes of the job.                                  *)
LEMMA FailureMoves ==
  ASSUME IInv, CountTypeOK, NEW v \in Worker, WorkerMetered(v), ~InjectFault, NEW j \in Job
  PROVE  \/ /\ ~Deciding(v, j) /\ Deciding(v, j)'
            /\ count'[j]["attempt"] = count[j]["attempt"] + 1
            /\ count'[j]["retried"] = count[j]["retried"]
            /\ count'[j]["exhausted"] = count[j]["exhausted"]
         \/ /\ Deciding(v, j) /\ ~Deciding(v, j)'
            /\ count'[j]["attempt"] = count[j]["attempt"]
            /\ count'[j]["retried"] + count'[j]["exhausted"] =
                 count[j]["retried"] + count[j]["exhausted"] + 1
         \/ /\ Deciding(v, j)' <=> Deciding(v, j)
            /\ count'[j]["attempt"] = count[j]["attempt"]
            /\ count'[j]["retried"] = count[j]["retried"]
            /\ count'[j]["exhausted"] = count[j]["exhausted"]
<1>. USE DEF Deciding, Goto, NextRound, Leave
<1>0. /\ pc \in [Worker -> Label] /\ NoJob \notin Job
      /\ held \in [Worker -> Job \cup {NoJob}]
      /\ count[j]["attempt"] \in Nat /\ count[j]["retried"] \in Nat
      /\ count[j]["exhausted"] \in Nat
  BY WorkerAssumption DEF IInv, TypeOK, WorkerTypeOK, CountTypeOK, Counter
<1>1. CASE ExecuteFailsMetered(v)
  <2>1. /\ ExecuteFails(v)
        /\ \A d \in Counter :
             count'[j][d] =
               IF j = held[v] /\ d = "attempt" THEN count[j][d] + 1 ELSE count[j][d]
    BY <1>1, CounterHolds, CountEffect DEF ExecuteFailsMetered, Counter
  <2>. QED BY <1>0, <2>1 DEF ExecuteFails, Counter
<1>2. CASE FailLoad(v) /\ Lower(v) /\ Count(v, "exhausted")
           /\ Exhausted(db[held[v]], MaxAttempts[held[v]])
  <2>1. \A d \in Counter :
          count'[j][d] =
            IF j = held[v] /\ d = "exhausted" THEN count[j][d] + 1 ELSE count[j][d]
    BY <1>2, CounterHolds, CountEffect DEF Counter
  <2>. QED BY <1>0, <1>2, <2>1 DEF FailLoad, AfterFailLoad, Counter
<1>3. CASE FailLoad(v) /\ UNCHANGED metricVars
           /\ ~Exhausted(db[held[v]], MaxAttempts[held[v]])
  BY <1>0, <1>3 DEF FailLoad, AfterFailLoad, metricVars
<1>4. CASE EnqueueRetry(v) /\ Count(v, "retried")
  <2>1. \A d \in Counter :
          count'[j][d] =
            IF j = held[v] /\ d = "retried" THEN count[j][d] + 1 ELSE count[j][d]
    BY <1>4, CounterHolds, CountEffect DEF Counter
  <2>. QED BY <1>0, <1>4, <2>1 DEF EnqueueRetry, Counter
<1>5. CASE FailCommit(v) /\ UNCHANGED metricVars
  BY <1>0, <1>5 DEF FailCommit, metricVars
<1>6. CASE FinishMetered(v)
  <2>1. /\ FinishCommit(v)
        /\ \A d \in Counter :
             count'[j][d] =
               IF j = held[v] /\ d = "completed" THEN count[j][d] + 1 ELSE count[j][d]
    BY <1>6, CounterHolds, CountEffect DEF FinishMetered, Counter
  <2>. QED BY <1>0, <2>1 DEF FinishCommit, Counter
<1>7. CASE BeginMetered(v) \/ DiscardMetered(v)
  BY <1>0, <1>7 DEF BeginMetered, BeginCommit, DiscardMetered, FinishDiscard
<1>8. CASE Unmetered(v) /\ UNCHANGED metricVars
  BY <1>0, <1>8
  DEF Unmetered, DrainScan, DrainClaim, RequeueLoad, DequeuePriority, RequeueAdd,
      DequeueNothing, LoadQueued, LoadSkipped, ExecuteOk, NoExecutor, FinishLoad,
      AfterClaim, metricVars
<1>9. CASE (Start(v) \/ RecoveryStep(v)) /\ UNCHANGED metricVars
  BY <1>0, <1>9
  DEF Start, RecoveryStep, RecoverySelect, RecoveryClean, RecoverJob, RecoveryCommit,
      metricVars
<1>10. ~LoopFaultMetered(v) /\ ~RecoveryError(v)
  BY DEF LoopFaultMetered, DiscardError, FinishError, FinishCommitUnacknowledged,
     LoopError, BeginCommitUnacknowledged, Crash, RecoveryError
<1>. QED
  BY <1>1, <1>2, <1>3, <1>4, <1>5, <1>6, <1>7, <1>8, <1>9, <1>10
  DEF WorkerMetered, LoopStepMetered, FailMetered

(* The count of failed attempts keeps up with the decisions.               *)
LEMMA FailuresStep ==
  ASSUME IInv, CountTypeOK, MetricsNext, ~InjectFault, NEW j \in Job, FailuresOK(j)
  PROVE  FailuresOK(j)'
<1>0. /\ IsFiniteSet(Deciders(j)) /\ Cardinality(Deciders(j)) \in Nat
      /\ count[j]["attempt"] \in Nat /\ count[j]["retried"] \in Nat
      /\ count[j]["exhausted"] \in Nat
      /\ CountTypeOK' /\ count'[j]["retried"] \in Nat /\ count'[j]["exhausted"] \in Nat
  BY CountTypeStep, FS_CardinalityType DEF FailuresOK, CountTypeOK, Counter
<1>1. ASSUME NEW v \in Worker, WorkerMetered(v)
      PROVE  FailuresOK(j)'
  <2>1. \A w \in Worker \ {v} : Deciding(w, j)' <=> Deciding(w, j)
    BY <1>1, OthersStay DEF Deciding
  <2>2. CASE /\ ~Deciding(v, j) /\ Deciding(v, j)'
             /\ count'[j]["attempt"] = count[j]["attempt"] + 1
             /\ count'[j]["retried"] = count[j]["retried"]
             /\ count'[j]["exhausted"] = count[j]["exhausted"]
    <3>1. Deciders(j)' = Deciders(j) \cup {v} /\ v \notin Deciders(j)
      BY <2>1, <2>2 DEF Deciders
    <3>2. /\ IsFiniteSet(Deciders(j)')
          /\ Cardinality(Deciders(j)') = Cardinality(Deciders(j)) + 1
      BY <1>0, <3>1, FS_AddElement
    <3>. QED BY <1>0, <2>2, <3>2 DEF FailuresOK
  <2>3. CASE /\ Deciding(v, j) /\ ~Deciding(v, j)'
             /\ count'[j]["attempt"] = count[j]["attempt"]
             /\ count'[j]["retried"] + count'[j]["exhausted"] =
                  count[j]["retried"] + count[j]["exhausted"] + 1
    <3>1. Deciders(j)' = Deciders(j) \ {v} /\ v \in Deciders(j)
      BY <2>1, <2>3 DEF Deciders
    <3>2. /\ IsFiniteSet(Deciders(j)')
          /\ Cardinality(Deciders(j)') = Cardinality(Deciders(j)) - 1
      BY <1>0, <3>1, FS_RemoveElement
    <3>. QED BY <1>0, <2>3, <3>2 DEF FailuresOK
  <2>4. CASE /\ Deciding(v, j)' <=> Deciding(v, j)
             /\ count'[j]["attempt"] = count[j]["attempt"]
             /\ count'[j]["retried"] = count[j]["retried"]
             /\ count'[j]["exhausted"] = count[j]["exhausted"]
    <3>1. Deciders(j)' = Deciders(j)
      BY <2>1, <2>4 DEF Deciders
    <3>. QED BY <2>4, <3>1 DEF FailuresOK
  <2>. QED BY <1>1, <2>2, <2>3, <2>4, FailureMoves
<1>2. ASSUME UNCHANGED <<workerVars, count>>
      PROVE  FailuresOK(j)'
  <2>1. Deciders(j)' = Deciders(j)
    BY <1>2 DEF Deciders, Deciding, workerVars
  <2>. QED BY <1>2, <2>1 DEF FailuresOK
<1>. QED
  BY <1>1, <1>2 DEF MetricsNext, metricVars, Mature, Age

(* w has counted j as given up, and its commit is outstanding.             *)
GivenUp(w, j) ==
  held[w] = j /\ pc[w] = "fail_commit" /\ Exhausted(session[w][j], MaxAttempts[j])

(* OutcomesAreCounted of one job; as long as a worker is at it, or it can  *)
(* still get one, it is not counted, unless it is being given up.          *)
OutcomeOK(j) ==
  /\ count[j]["completed"] + count[j]["exhausted"] <= 1
  /\ db[j].status = "completed" => count[j]["completed"] = 1
  /\ db[j].status = "failed" => count[j]["exhausted"] = 1
  /\ \A w \in Worker :
       /\ GivenUp(w, j) => count[j]["exhausted"] = 1
       /\ At(w, j) /\ ~GivenUp(w, j) => count[j]["completed"] + count[j]["exhausted"] = 0
       /\ held[w] = j /\ pc[w] = "enqueue_retry" =>
            ~Exhausted(session[w][j], MaxAttempts[j])
  /\ (/\ db[j].status \in {"absent", "queued", "processing"}
      /\ \A w \in Worker : ~GivenUp(w, j)) =>
        count[j]["completed"] + count[j]["exhausted"] = 0

(* What the worker at a job makes of its row and its counters.             *)
LEMMA OutcomeMoves ==
  ASSUME IInv, CountTypeOK, NEW v \in Worker, NEW j \in Job \ recovered, At(v, j),
         WorkerMetered(v), ~InjectFault,
         pc[v] = "enqueue_retry" => ~Exhausted(session[v][j], MaxAttempts[j])
  PROVE  \/ /\ ~GivenUp(v, j) /\ At(v, j)' /\ ~GivenUp(v, j)'
            /\ pc'[v] = "enqueue_retry" => ~Exhausted(session'[v][j], MaxAttempts[j])
            /\ db'[j].status \in {db[j].status, "processing"}
            /\ count'[j]["completed"] = count[j]["completed"]
            /\ count'[j]["exhausted"] = count[j]["exhausted"]
         \/ /\ ~GivenUp(v, j) /\ ~At(v, j)'
            /\ db'[j].status \in {db[j].status, "queued", "cancelled"}
            /\ count'[j]["completed"] = count[j]["completed"]
            /\ count'[j]["exhausted"] = count[j]["exhausted"]
         \/ /\ ~GivenUp(v, j) /\ ~At(v, j)'
            /\ db'[j].status \in {"completed", "cancelled"}
            /\ count'[j]["completed"] = count[j]["completed"] + 1
            /\ count'[j]["exhausted"] = count[j]["exhausted"]
         \/ /\ ~GivenUp(v, j) /\ GivenUp(v, j)'
            /\ db'[j] = db[j]
            /\ count'[j]["completed"] = count[j]["completed"]
            /\ count'[j]["exhausted"] = count[j]["exhausted"] + 1
         \/ /\ GivenUp(v, j) /\ ~At(v, j)'
            /\ db'[j].status \in {"failed", "cancelled"}
            /\ count'[j]["completed"] = count[j]["completed"]
            /\ count'[j]["exhausted"] = count[j]["exhausted"]
<1>0. /\ pc \in [Worker -> Label] /\ NoJob \notin Job
      /\ held \in [Worker -> Job \cup {NoJob}]
      /\ session \in [Worker -> [Job -> Row]] /\ db \in [Job -> Row]
      /\ held[v] = j /\ MaxAttempts[j] \in Nat
  BY WorkerAssumption, JobAssumption DEF At, IInv, TypeOK, WorkerTypeOK, StoreTypeOK
<1>u. UNCHANGED metricVars => /\ count'[j]["completed"] = count[j]["completed"]
                              /\ count'[j]["exhausted"] = count[j]["exhausted"]
  BY DEF metricVars
<1>. USE DEF At, GivenUp, WorkLabel, Goto
<1>1. CASE BeginMetered(v)
  <2>1. BeginCommit(v) /\ UNCHANGED count /\ pc[v] = "begin"
    BY <1>1 DEF BeginMetered, BeginCommit
  <2>2. db'[j] = MarkProcessing(db[j], session[v][j]) /\ session[v][j].status = "queued"
    BY <1>0, <2>1 DEF BeginCommit, WriteProcessing, Loaded, IInv, LocalInv, LocalOK
  <2>3. db'[j].status = "processing"
    BY <1>0, <2>2, ProcessingEffect DEF NetChange
  <2>. QED BY <1>0, <2>1, <2>3 DEF BeginCommit
<1>2. CASE DiscardMetered(v)
  BY <1>0, <1>2 DEF DiscardMetered, FinishDiscard, NextRound, Leave, storeVars
<1>3. CASE FinishMetered(v)
  <2>1. /\ FinishCommit(v)
        /\ \A d \in Counter :
             count'[j][d] =
               IF j = held[v] /\ d = "completed" THEN count[j][d] + 1 ELSE count[j][d]
    BY <1>3, CounterHolds, CountEffect DEF FinishMetered, Counter
  <2>2. db'[j].status \in {"completed", "cancelled"}
    BY <1>0, <2>1, SuccessCommits
  <2>. QED BY <1>0, <2>1, <2>2 DEF FinishCommit, NextRound, Leave, Counter
<1>4. CASE ExecuteFailsMetered(v)
  <2>1. /\ ExecuteFails(v)
        /\ \A d \in Counter :
             count'[j][d] =
               IF j = held[v] /\ d = "attempt" THEN count[j][d] + 1 ELSE count[j][d]
    BY <1>4, CounterHolds, CountEffect DEF ExecuteFailsMetered, Counter
  <2>. QED BY <1>0, <2>1 DEF ExecuteFails, Counter, storeVars
<1>5. CASE FailLoad(v) /\ Lower(v) /\ Count(v, "exhausted")
           /\ Exhausted(db[held[v]], MaxAttempts[held[v]])
  <2>1. \A d \in Counter :
          count'[j][d] =
            IF j = held[v] /\ d = "exhausted" THEN count[j][d] + 1 ELSE count[j][d]
    BY <1>5, CounterHolds, CountEffect DEF Counter
  <2>2. session'[v][j] = db[j] /\ pc'[v] = "fail_commit" /\ held' = held /\ db' = db
    BY <1>0, <1>5 DEF FailLoad, AfterFailLoad, Load, storeVars
  <2>. QED BY <1>0, <1>5, <2>1, <2>2 DEF FailLoad, Counter
<1>6. CASE FailLoad(v) /\ UNCHANGED metricVars
           /\ ~Exhausted(db[held[v]], MaxAttempts[held[v]])
  <2>1. session'[v][j] = db[j] /\ pc'[v] = "enqueue_retry" /\ held' = held /\ db' = db
    BY <1>0, <1>6 DEF FailLoad, AfterFailLoad, Load, storeVars
  <2>. QED BY <1>0, <1>6, <1>u, <2>1 DEF FailLoad
<1>7. CASE EnqueueRetry(v) /\ Count(v, "retried")
  <2>1. \A d \in Counter :
          count'[j][d] =
            IF j = held[v] /\ d = "retried" THEN count[j][d] + 1 ELSE count[j][d]
    BY <1>7, CounterHolds, CountEffect DEF Counter
  <2>. QED BY <1>0, <1>7, <2>1 DEF EnqueueRetry, Counter
<1>8. CASE FailCommit(v) /\ UNCHANGED metricVars
  <2>1. /\ pc[v] = "fail_commit" /\ session[v][j] \in Row
        /\ Agree(db[j], session[v][j])
    BY <1>0, <1>8 DEF FailCommit, IInv, FreshInv, FreshOK, WriteLabel
  <2>2. db'[j] = MarkFailure(db[j], session[v][j], MaxAttempts[j])
    BY <1>0, <1>8 DEF FailCommit, Loaded
  <2>3. db'[j].status \in
          {IF Exhausted(session[v][j], MaxAttempts[j]) THEN "failed" ELSE "queued",
           "cancelled"}
    BY <1>0, <2>1, <2>2, FailureEffect DEF NetChange, Agree
  <2>4. ~At(v, j)'
    BY <1>0, <1>8 DEF FailCommit, NextRound, Leave
  <2>. QED BY <1>0, <1>u, <1>8, <2>1, <2>3, <2>4
<1>9. CASE Unmetered(v) /\ UNCHANGED metricVars
  <2>1. ExecuteOk(v) \/ NoExecutor(v) \/ FinishLoad(v)
    BY <1>0, <1>9
    DEF Unmetered, DrainScan, DrainClaim, RequeueLoad, DequeuePriority, RequeueAdd,
        DequeueNothing, LoadQueued, LoadSkipped
  <2>2. CASE ExecuteOk(v) \/ FinishLoad(v)
    BY <1>0, <1>u, <1>9, <2>2 DEF ExecuteOk, FinishLoad, storeVars
  <2>3. CASE NoExecutor(v)
    BY <1>0, <1>u, <1>9, <2>3 DEF NoExecutor, NextRound, Leave, storeVars
  <2>. QED BY <2>1, <2>2, <2>3
<1>10. ~(Start(v) \/ RecoveryStep(v) \/ RecoveryError(v))
  BY DEF Start, RecoveryStep, RecoverySelect, RecoveryClean, RecoverJob, RecoveryCommit,
     RecoveryError
<1>11. ~LoopFaultMetered(v)
  BY DEF LoopFaultMetered, DiscardError, FinishError, FinishCommitUnacknowledged,
     LoopError, BeginCommitUnacknowledged, Crash
<1>. QED
  BY <1>1, <1>2, <1>3, <1>4, <1>5, <1>6, <1>7, <1>8, <1>9, <1>10, <1>11
  DEF WorkerMetered, LoopStepMetered, FailMetered

(* A worker that is not at a job leaves its row alone.                     *)
LEMMA ForeignRow ==
  ASSUME IInv, NEW v \in Worker, WorkerMetered(v), NEW j \in Job \ recovered, ~At(v, j)
  PROVE  db'[j] = db[j]
<1>1. ASSUME \/ BeginCommit(v) \/ BeginCommitUnacknowledged(v)
             \/ FinishCommit(v) \/ FinishCommitUnacknowledged(v)
             \/ FailCommit(v)
      PROVE  db'[j] = db[j]
  <2>1. pc[v] \in WriteLabel /\ (WriteProcessing(v) \/ WriteCompleted(v) \/ FailCommit(v))
    BY <1>1 DEF BeginCommit, BeginCommitUnacknowledged, FinishCommit,
       FinishCommitUnacknowledged, FailCommit, WriteLabel
  <2>2. j # held[v]
    BY <2>1 DEF At, WriteLabel, WorkLabel
  <2>. QED BY <2>1, <2>2, WriteKeepsRows DEF IInv
<1>2. ASSUME RecoveryCommit(v)
      PROVE  db'[j] = db[j]
  BY <1>2 DEF RecoveryCommit, IInv, LocalInv, LocalOK, WriteLabel
<1>3. CASE UNCHANGED db
  BY <1>3
<1>. QED
  BY <1>1, <1>2, <1>3
  DEF WorkerMetered, LoopStepMetered, LoopFaultMetered, DiscardError, BeginMetered,
      DiscardMetered, FinishMetered, ExecuteFailsMetered, FailMetered, Unmetered, DrainScan, DrainClaim,
      RequeueLoad, RequeueAdd, DequeuePriority, DequeueNothing, LoadQueued, LoadSkipped,
      ExecuteOk, ExecuteFails, NoExecutor, FinishLoad, FinishDiscard, FailLoad,
      EnqueueRetry, LoopError, FinishError, Crash, Start, RecoveryStep, RecoverySelect,
      RecoveryClean, RecoverJob, RecoveryError, storeVars

(* A job is counted once, when it ends.                                    *)
LEMMA OutcomeStep ==
  ASSUME IInv, CountTypeOK, MetricsNext, ~InjectFault, NEW j \in Job \ recovered,
         OutcomeOK(j)
  PROVE  OutcomeOK(j)'
<1>0. /\ Next
      /\ count[j]["completed"] \in Nat /\ count[j]["exhausted"] \in Nat
  BY MetricsStep DEF CountTypeOK, Counter
<1>g. \A w \in Worker : GivenUp(w, j) => At(w, j)
  BY DEF GivenUp, At, WorkLabel
<1>1. ASSUME NEW v \in Worker, At(v, j), WorkerMetered(v)
      PROVE  OutcomeOK(j)'
  <2>1. ASSUME NEW w \in Worker, w # v
        PROVE  ~At(w, j) /\ held'[w] # j
    <3>1. held[w] # j
      BY <1>1, <2>1, SoleHolder DEF At, IInv
    <3>. QED
      BY <1>1, <2>1, <3>1, OthersStay DEF At
  <2>2. \A w \in Worker : w # v => ~GivenUp(w, j) /\ ~GivenUp(w, j)' /\ ~At(w, j)'
    BY <2>1, <1>g DEF GivenUp, At
  <2>3. pc[v] = "enqueue_retry" => ~Exhausted(session[v][j], MaxAttempts[j])
    BY <1>1 DEF OutcomeOK, At
  <2>4. ~GivenUp(v, j) => /\ count[j]["completed"] = 0 /\ count[j]["exhausted"] = 0
                          /\ db[j].status \notin {"completed", "failed"}
    BY <1>0, <1>1 DEF OutcomeOK
  <2>5. GivenUp(v, j) => count[j]["exhausted"] = 1 /\ count[j]["completed"] = 0
    BY <1>0, <1>1 DEF OutcomeOK
  <2>6. \A w \in Worker : held'[w] = j => w = v
    BY <2>1
  <2>7. CASE /\ ~GivenUp(v, j) /\ At(v, j)' /\ ~GivenUp(v, j)'
             /\ pc'[v] = "enqueue_retry" => ~Exhausted(session'[v][j], MaxAttempts[j])
             /\ db'[j].status \in {db[j].status, "processing"}
             /\ count'[j]["completed"] = count[j]["completed"]
             /\ count'[j]["exhausted"] = count[j]["exhausted"]
    BY <2>2, <2>4, <2>6, <2>7 DEF OutcomeOK
  <2>8. CASE /\ ~GivenUp(v, j) /\ ~At(v, j)'
             /\ db'[j].status \in {db[j].status, "queued", "cancelled"}
             /\ count'[j]["completed"] = count[j]["completed"]
             /\ count'[j]["exhausted"] = count[j]["exhausted"]
    BY <2>2, <2>4, <2>6, <2>8 DEF OutcomeOK, GivenUp, At, WorkLabel
  <2>9. CASE /\ ~GivenUp(v, j) /\ ~At(v, j)'
             /\ db'[j].status \in {"completed", "cancelled"}
             /\ count'[j]["completed"] = count[j]["completed"] + 1
             /\ count'[j]["exhausted"] = count[j]["exhausted"]
    BY <2>2, <2>4, <2>6, <2>9 DEF OutcomeOK, GivenUp, At, WorkLabel
  <2>10. CASE /\ ~GivenUp(v, j) /\ GivenUp(v, j)'
              /\ db'[j] = db[j]
              /\ count'[j]["completed"] = count[j]["completed"]
              /\ count'[j]["exhausted"] = count[j]["exhausted"] + 1
    BY <2>2, <2>4, <2>6, <2>10 DEF OutcomeOK, GivenUp
  <2>11. CASE /\ GivenUp(v, j) /\ ~At(v, j)'
              /\ db'[j].status \in {"failed", "cancelled"}
              /\ count'[j]["completed"] = count[j]["completed"]
              /\ count'[j]["exhausted"] = count[j]["exhausted"]
    BY <2>2, <2>5, <2>6, <2>11 DEF OutcomeOK, GivenUp, At, WorkLabel
  <2>. QED
    BY <1>1, <2>3, <2>7, <2>8, <2>9, <2>10, <2>11, OutcomeMoves
<1>2. ASSUME NEW v \in Worker, ~At(v, j), WorkerMetered(v)
      PROVE  OutcomeOK(j)'
  <2>1. /\ count'[j]["completed"] = count[j]["completed"]
        /\ count'[j]["exhausted"] = count[j]["exhausted"]
    <3>1. CASE UNCHANGED count
      BY <3>1
    <3>2. ASSUME NEW c \in Counter, Count(v, c), held[v] \in Job, held[v] # j
          PROVE  /\ count'[j]["completed"] = count[j]["completed"]
                 /\ count'[j]["exhausted"] = count[j]["exhausted"]
      BY <3>2, CountEffect DEF Counter
    <3>3. ~UNCHANGED count =>
            \E c \in Counter : Count(v, c) /\ held[v] \in Job /\ held[v] # j
      BY <1>2, CountMoves, CounterHolds DEF At, Counter
    <3>. QED BY <3>1, <3>2, <3>3
  <2>2. db'[j] = db[j]
    BY <1>2, ForeignRow
  <2>3. ~(held'[v] = j /\ pc'[v] \in WorkLabel)
    BY <1>0, <1>2, WorkBegins DEF Working, At, BeginCommit
  <2>4. At(v, j)' => count[j]["completed"] + count[j]["exhausted"] = 0
    <3>1. SUFFICES ASSUME At(v, j)'
                   PROVE  count[j]["completed"] + count[j]["exhausted"] = 0
      OBVIOUS
    <3>2. db[j].status = "queued"
      BY <1>0, <1>2, <3>1, AtBegins
    <3>3. \A w \in Worker : ~GivenUp(w, j)
      BY <3>2 DEF GivenUp, IInv, FreshInv, FreshOK, Working, WorkLabel
    <3>. QED BY <3>2, <3>3 DEF OutcomeOK
  <2>5. ASSUME NEW w \in Worker, w # v
        PROVE  /\ At(w, j)' <=> At(w, j)
               /\ GivenUp(w, j)' <=> GivenUp(w, j)
               /\ held'[w] = held[w] /\ pc'[w] = pc[w] /\ session'[w] = session[w]
    BY <1>2, <2>5, OthersStay DEF At, GivenUp
  <2>6. ~GivenUp(v, j) /\ ~GivenUp(v, j)' /\ ~(held'[v] = j /\ pc'[v] = "enqueue_retry")
    BY <1>2, <1>g, <2>3 DEF GivenUp, WorkLabel
  <2>. QED BY <2>1, <2>2, <2>4, <2>5, <2>6 DEF OutcomeOK
<1>3. ASSUME UNCHANGED <<workerVars, metricVars>>,
             ApiStep \/ ApiFault \/ \E k \in Job : Mature(k) \/ Age(k)
      PROVE  OutcomeOK(j)'
  <2>1. db \in [Job -> Row] /\ db[j] \in Row
    BY DEF IInv, TypeOK, StoreTypeOK
  <2>2. ASSUME NEW c \in Canceller, CancelCommit(c)
        PROVE  db'[j].status \in {db[j].status, "cancelled"}
    BY <2>1, <2>2, CancelledEffect DEF CancelCommit
  <2>3. ASSUME NEW k \in Job, CreateCommit(k)
        PROVE  \/ db'[j].status = db[j].status
               \/ db[j].status = "absent" /\ db'[j].status = "queued"
    BY <2>1, <2>3 DEF CreateCommit, NewRow, NoRow, IInv, ExistenceInv, ExistenceOK
  <2>4. ASSUME NEW k \in Job, Age(k)
        PROVE  db'[j].status = db[j].status
    BY <2>1, <2>4 DEF Age, Row
  <2>5. \/ db'[j].status \in {db[j].status, "cancelled"}
        \/ db[j].status = "absent" /\ db'[j].status = "queued"
    BY <1>3, <2>2, <2>3, <2>4
    DEF ApiStep, ApiFault, CreateStep, CancelStep, CreateFlush, CreateEnqueue, CancelLoad,
        CancelRemovePriority, CancelRemoveRetry, CreateAbort, CancelAbort, Mature, storeVars
  <2>6. \A w \in Worker : /\ At(w, j)' <=> At(w, j)
                          /\ GivenUp(w, j)' <=> GivenUp(w, j)
    BY <1>3 DEF At, GivenUp, workerVars
  <2>. QED
    BY <1>3, <2>5, <2>6 DEF OutcomeOK, workerVars, metricVars
<1>. QED
  BY <1>1, <1>2, <1>3 DEF MetricsNext, Mature, Age

(* As long as nothing fails, what counts do not tell is not the case.      *)
CountersInv ==
  faults = 0 => /\ \A j \in Job : FailuresOK(j)
                /\ \A j \in Job \ recovered : OutcomeOK(j)

(* If nothing has failed but executions, the counters account for every    *)
(* failed attempt, and agree with the rows on how jobs end, whoever        *)
(* cancels meanwhile.                                                      *)
THEOREM CountersAreRight == MetricsSpec => []CountersAgree
<1>1. MetricsInit => CountTypeOK /\ CountersInv
  <2>. SUFFICES ASSUME MetricsInit
                PROVE  CountTypeOK /\ CountersInv
    OBVIOUS
  <2>1. CountTypeOK /\ \A j \in Job, c \in Counter : count[j][c] = 0
    BY DEF MetricsInit, CountTypeOK
  <2>2. ASSUME NEW j \in Job
        PROVE  FailuresOK(j) /\ OutcomeOK(j)
    <3>1. \A w \in Worker : pc[w] = "down"
      BY DEF MetricsInit, Init, WorkerInit
    <3>2. Deciders(j) = {}
      BY <3>1 DEF Deciders, Deciding
    <3>3. db[j].status \in {"absent", "queued"}
      BY DEF MetricsInit, Init, NewRow, NoRow
    <3>4. FailuresOK(j)
      BY <2>1, <3>2, FS_EmptySet DEF FailuresOK, Counter
    <3>5. OutcomeOK(j)
      BY <2>1, <3>1, <3>3 DEF OutcomeOK, GivenUp, At, WorkLabel, Counter
    <3>. QED BY <3>4, <3>5
  <2>. QED BY <2>1, <2>2 DEF CountersInv
<1>2. IInv /\ CountTypeOK /\ CountersInv
        /\ [MetricsNext]_<<vars, metricVars>> => CountTypeOK' /\ CountersInv'
  <2>1. CountTypeOK /\ CountersInv /\ UNCHANGED <<vars, metricVars>>
          => CountTypeOK' /\ CountersInv'
    BY DEF CountTypeOK, CountersInv, FailuresOK, Deciders, Deciding, OutcomeOK, GivenUp,
       At, vars, storeVars, workerVars, metricVars
  <2>2. ASSUME IInv, CountTypeOK, CountersInv, MetricsNext
        PROVE  CountersInv'
    <3>. SUFFICES ASSUME faults' = 0
                  PROVE  /\ \A j \in Job : FailuresOK(j)'
                         /\ \A j \in Job \ recovered' : OutcomeOK(j)'
      BY DEF CountersInv
    <3>1. Next /\ faults = 0 /\ ~InjectFault
      BY <2>2, MetricsStep, FaultsGrow DEF InjectFault
    <3>2. \A j \in Job \ recovered' : j \in Job \ recovered
      BY <3>1, RecoveredGrows
    <3>3. \A j \in Job : FailuresOK(j)'
      BY <2>2, <3>1, FailuresStep DEF CountersInv
    <3>4. \A j \in Job \ recovered' : OutcomeOK(j)'
      BY <2>2, <3>1, <3>2, OutcomeStep DEF CountersInv
    <3>. QED BY <3>3, <3>4
  <2>. QED BY <2>1, <2>2, CountTypeStep
<1>3. CountTypeOK /\ CountersInv => CountersAgree
  <2>. SUFFICES ASSUME CountTypeOK, CountersInv, faults = 0
                PROVE  FailuresAddUp /\ OutcomesAreCounted
    BY DEF CountersAgree
  <2>1. FailuresAddUp
    BY DEF CountersInv, FailuresOK, FailuresAddUp, Deciders, Deciding
  <2>2. OutcomesAreCounted
    BY DEF CountersInv, OutcomeOK, OutcomesAreCounted
  <2>. QED BY <2>1, <2>2
<1>4. MetricsSpec => []IInv
  BY MetricsAreHarmless, Invariance, PTL
<1>. QED
  BY <1>1, <1>2, <1>3, <1>4, PTL DEF MetricsSpec

-----------------------------------------------------------------------------
(* Stops of worker processes.                                              *)

(* A step of the loop is one whatever is counted as a fault.               *)
LEMMA LoopImage ==
  ASSUME NEW w \in Worker, LoopStep(w), kills' = kills
  PROVE  Faulty!LoopStep(w)
<1>. USE DEF storeVars, enqueue_priority, enqueue_retry, Foremost, dequeue_priority,
     DueJobs, DrainBatch, remove_from_priority, remove_from_retry, Cardinality,
     NewRow, NoRow, MarkProcessing, MarkCompleted, MarkFailure, MarkRecovered,
     Recounted, MarkCancelled, Cancellable, NetChange, Exhausted, Goto, Leave,
     NextRound, Loaded, Load, AfterClaim, Removed, Requeueable, Startable,
     WriteProcessing, WriteCompleted, Discardable, AfterFailLoad, NoSession,
     workerVars, Faulty!storeVars, Faulty!enqueue_priority, Faulty!enqueue_retry,
     Faulty!Foremost, Faulty!dequeue_priority, Faulty!DueJobs, Faulty!DrainBatch,
     Faulty!remove_from_priority, Faulty!remove_from_retry, Faulty!Cardinality,
     Faulty!NewRow, Faulty!NoRow, Faulty!MarkProcessing, Faulty!MarkCompleted,
     Faulty!MarkFailure, Faulty!MarkRecovered, Faulty!Recounted,
     Faulty!MarkCancelled, Faulty!Cancellable, Faulty!NetChange, Faulty!Exhausted,
     Faulty!Goto, Faulty!Leave, Faulty!NextRound, Faulty!Loaded, Faulty!Load,
     Faulty!AfterClaim, Faulty!Removed, Faulty!Requeueable, Faulty!Startable,
     Faulty!WriteProcessing, Faulty!WriteCompleted, Faulty!Discardable,
     Faulty!AfterFailLoad, Faulty!NoSession, Faulty!workerVars
<1>1. DrainScan(w) => Faulty!DrainScan(w)
  BY DEF DrainScan, Faulty!DrainScan
<1>2. ASSUME NEW j \in Job, DrainClaim(w, j)
      PROVE  Faulty!DrainClaim(w, j)
  BY <1>2 DEF DrainClaim, Faulty!DrainClaim
<1>3. ASSUME NEW j \in Job, RequeueLoad(w, j)
      PROVE  Faulty!RequeueLoad(w, j)
  BY <1>3 DEF RequeueLoad, Faulty!RequeueLoad
<1>4. RequeueAdd(w) => Faulty!RequeueAdd(w)
  BY DEF RequeueAdd, Faulty!RequeueAdd
<1>5. ASSUME NEW j \in Job, DequeuePriority(w, j)
      PROVE  Faulty!DequeuePriority(w, j)
  BY <1>5 DEF DequeuePriority, Faulty!DequeuePriority
<1>6. DequeueNothing(w) => Faulty!DequeueNothing(w)
  BY DEF DequeueNothing, Faulty!DequeueNothing
<1>7. LoadQueued(w) => Faulty!LoadQueued(w)
  BY DEF LoadQueued, Faulty!LoadQueued
<1>8. LoadSkipped(w) => Faulty!LoadSkipped(w)
  BY DEF LoadSkipped, Faulty!LoadSkipped
<1>9. BeginCommit(w) => Faulty!BeginCommit(w)
  BY DEF BeginCommit, Faulty!BeginCommit
<1>10. ExecuteOk(w) => Faulty!ExecuteOk(w)
  BY DEF ExecuteOk, Faulty!ExecuteOk
<1>11. ExecuteFails(w) => Faulty!ExecuteFails(w)
  BY DEF ExecuteFails, Faulty!ExecuteFails
<1>12. NoExecutor(w) => Faulty!NoExecutor(w)
  BY DEF NoExecutor, Faulty!NoExecutor
<1>13. FinishLoad(w) => Faulty!FinishLoad(w)
  BY DEF FinishLoad, Faulty!FinishLoad
<1>14. FinishDiscard(w) => Faulty!FinishDiscard(w)
  BY DEF FinishDiscard, Faulty!FinishDiscard
<1>15. FinishCommit(w) => Faulty!FinishCommit(w)
  BY DEF FinishCommit, Faulty!FinishCommit
<1>16. FailLoad(w) => Faulty!FailLoad(w)
  BY DEF FailLoad, Faulty!FailLoad
<1>17. EnqueueRetry(w) => Faulty!EnqueueRetry(w)
  BY DEF EnqueueRetry, Faulty!EnqueueRetry
<1>18. FailCommit(w) => Faulty!FailCommit(w)
  BY DEF FailCommit, Faulty!FailCommit
<1>. QED
  BY <1>1, <1>2, <1>3, <1>4, <1>5, <1>6, <1>7, <1>8, <1>9, <1>10, <1>11, <1>12,
     <1>13, <1>14, <1>15, <1>16, <1>17, <1>18
  DEF LoopStep, Faulty!LoopStep

(* The faults left are enough for those of JobQueue.                       *)
LEMMA FaultImage ==
  ASSUME faults \in Nat, kills \in 0 .. MaxStops, kills' = kills, InjectFault
  PROVE  Faulty!InjectFault
BY WorkerAssumption, StopAssumption DEF InjectFault, Faulty!InjectFault

(* A fault of a worker is one.                                             *)
LEMMA WorkerFaultImage ==
  ASSUME NEW w \in Worker, WorkerFault(w), faults \in Nat, kills \in 0 .. MaxStops,
         kills' = kills
  PROVE  Faulty!WorkerFault(w)
<1>. USE FaultImage
<1>. USE DEF storeVars, Goto, Leave, NextRound, Loaded, NoSession, NoRow,
     WriteProcessing, WriteCompleted, MarkProcessing, MarkCompleted, NetChange,
     RecoveryLabel, Faulty!storeVars, Faulty!Goto, Faulty!Leave, Faulty!NextRound,
     Faulty!Loaded, Faulty!NoSession, Faulty!NoRow, Faulty!WriteProcessing,
     Faulty!WriteCompleted, Faulty!MarkProcessing, Faulty!MarkCompleted,
     Faulty!NetChange, Faulty!RecoveryLabel
<1>1. LoopError(w) => Faulty!LoopError(w)
  BY DEF LoopError, Faulty!LoopError
<1>2. FinishError(w) => Faulty!FinishError(w)
  BY DEF FinishError, Faulty!FinishError
<1>3. BeginCommitUnacknowledged(w) => Faulty!BeginCommitUnacknowledged(w)
  BY DEF BeginCommitUnacknowledged, Faulty!BeginCommitUnacknowledged
<1>4. FinishCommitUnacknowledged(w) => Faulty!FinishCommitUnacknowledged(w)
  BY DEF FinishCommitUnacknowledged, Faulty!FinishCommitUnacknowledged
<1>5. Crash(w) => Faulty!Crash(w)
  BY DEF Crash, Faulty!Crash
<1>6. RecoveryError(w) => Faulty!RecoveryError(w)
  BY DEF RecoveryError, Faulty!RecoveryError
<1>. QED
  BY <1>1, <1>2, <1>3, <1>4, <1>5, <1>6
  DEF WorkerFault, Faulty!WorkerFault, LoopFault, Faulty!LoopFault

(* A step of a worker is one.                                              *)
LEMMA WorkerImage ==
  ASSUME NEW w \in Worker, WorkerStep(w), kills' = kills
  PROVE  Faulty!WorkerStep(w)
<1>1. ASSUME LoopStep(w), Timely(w), UNCHANGED recovered
      PROVE  Faulty!WorkerStep(w)
  <2>1. Faulty!LoopStep(w)
    BY <1>1, LoopImage
  <2>. QED
    BY <1>1, <2>1
    DEF Faulty!WorkerStep, Timely, Faulty!Timely, Overtaken, Faulty!Overtaken
<1>. USE DEF storeVars, enqueue_priority, enqueue_retry, Foremost, dequeue_priority,
     DueJobs, DrainBatch, remove_from_priority, remove_from_retry, Cardinality,
     NewRow, NoRow, MarkProcessing, MarkCompleted, MarkFailure, MarkRecovered,
     Recounted, MarkCancelled, Cancellable, NetChange, Exhausted, Goto, Leave,
     NextRound, NoSession, Stuck, StuckJobs, GivesUp, InSession, RecoveryLabel,
     Faulty!storeVars, Faulty!enqueue_priority, Faulty!enqueue_retry,
     Faulty!Foremost, Faulty!dequeue_priority, Faulty!DueJobs, Faulty!DrainBatch,
     Faulty!remove_from_priority, Faulty!remove_from_retry, Faulty!Cardinality,
     Faulty!NewRow, Faulty!NoRow, Faulty!MarkProcessing, Faulty!MarkCompleted,
     Faulty!MarkFailure, Faulty!MarkRecovered, Faulty!Recounted,
     Faulty!MarkCancelled, Faulty!Cancellable, Faulty!NetChange, Faulty!Exhausted,
     Faulty!Goto, Faulty!Leave, Faulty!NextRound, Faulty!NoSession, Faulty!Stuck,
     Faulty!StuckJobs, Faulty!GivesUp, Faulty!InSession, Faulty!RecoveryLabel
<1>2. Start(w) => Faulty!Start(w)
  BY DEF Start, Faulty!Start
<1>3. RecoverySelect(w) => Faulty!RecoverySelect(w)
  BY DEF RecoverySelect, Faulty!RecoverySelect
<1>4. RecoveryClean(w) => Faulty!RecoveryClean(w)
  BY DEF RecoveryClean, Faulty!RecoveryClean
<1>5. ASSUME NEW j \in Job, RecoverJob(w, j)
      PROVE  Faulty!RecoverJob(w, j)
  BY <1>5 DEF RecoverJob, Faulty!RecoverJob
<1>6. RecoveryCommit(w) => Faulty!RecoveryCommit(w)
  BY DEF RecoveryCommit, Faulty!RecoveryCommit
<1>. QED
  BY <1>1, <1>2, <1>3, <1>4, <1>5, <1>6
  DEF WorkerStep, Faulty!WorkerStep, RecoveryStep, Faulty!RecoveryStep

(* A request is handled as it was, and time passes.                        *)
LEMMA ApiImage ==
  ASSUME kills' = kills
  PROVE  /\ ApiStep => Faulty!ApiStep
         /\ ApiFault /\ faults \in Nat /\ kills \in 0 .. MaxStops => Faulty!ApiFault
         /\ \A j \in Job : /\ Mature(j) => Faulty!Mature(j)
                           /\ Age(j) => Faulty!Age(j)
<1>. USE DEF storeVars, workerVars, apiVars, enqueue_priority, remove_from_priority,
     remove_from_retry, NewRow, NoRow, MarkProcessing, MarkCompleted, MarkFailure,
     MarkRecovered, Recounted, MarkCancelled, Cancellable, NetChange, Exhausted,
     CreateGoto, CancelGoto, CancelReply, Working, WorkLabel, RetryWriter,
     InSession, Faulty!storeVars, Faulty!workerVars, Faulty!apiVars,
     Faulty!enqueue_priority, Faulty!remove_from_priority, Faulty!remove_from_retry,
     Faulty!NewRow, Faulty!NoRow, Faulty!MarkProcessing, Faulty!MarkCompleted,
     Faulty!MarkFailure, Faulty!MarkRecovered, Faulty!Recounted,
     Faulty!MarkCancelled, Faulty!Cancellable, Faulty!NetChange, Faulty!Exhausted,
     Faulty!CreateGoto, Faulty!CancelGoto, Faulty!CancelReply, Faulty!Working,
     Faulty!WorkLabel, Faulty!RetryWriter, Faulty!InSession
<1>1. ASSUME NEW j \in Job, CreateFlush(j)
      PROVE  Faulty!CreateFlush(j)
  BY <1>1 DEF CreateFlush, Faulty!CreateFlush
<1>2. ASSUME NEW j \in Job, CreateEnqueue(j)
      PROVE  Faulty!CreateEnqueue(j)
  BY <1>2 DEF CreateEnqueue, Faulty!CreateEnqueue
<1>3. ASSUME NEW j \in Job, CreateCommit(j)
      PROVE  Faulty!CreateCommit(j)
  BY <1>3 DEF CreateCommit, Faulty!CreateCommit
<1>4. ASSUME NEW j \in Job, CreateAbort(j)
      PROVE  Faulty!CreateAbort(j)
  BY <1>4 DEF CreateAbort, Faulty!CreateAbort
<1>5. ASSUME NEW c \in Canceller, CancelLoad(c)
      PROVE  Faulty!CancelLoad(c)
  BY <1>5 DEF CancelLoad, Faulty!CancelLoad
<1>6. ASSUME NEW c \in Canceller, CancelRemovePriority(c)
      PROVE  Faulty!CancelRemovePriority(c)
  BY <1>6 DEF CancelRemovePriority, Faulty!CancelRemovePriority
<1>7. ASSUME NEW c \in Canceller, CancelRemoveRetry(c)
      PROVE  Faulty!CancelRemoveRetry(c)
  BY <1>7 DEF CancelRemoveRetry, Faulty!CancelRemoveRetry
<1>8. ASSUME NEW c \in Canceller, CancelCommit(c)
      PROVE  Faulty!CancelCommit(c)
  BY <1>8 DEF CancelCommit, Faulty!CancelCommit
<1>9. ASSUME NEW c \in Canceller, CancelAbort(c)
      PROVE  Faulty!CancelAbort(c)
  BY <1>9 DEF CancelAbort, Faulty!CancelAbort
<1>10. ASSUME NEW j \in Job, Mature(j)
      PROVE  Faulty!Mature(j)
  BY <1>10 DEF Mature, Faulty!Mature
<1>11. ASSUME NEW j \in Job, Age(j)
      PROVE  Faulty!Age(j)
  BY <1>11 DEF Age, Faulty!Age
<1>12. ApiStep => Faulty!ApiStep
  BY <1>1, <1>2, <1>3, <1>5, <1>6, <1>7, <1>8
  DEF ApiStep, Faulty!ApiStep, CreateStep, Faulty!CreateStep, CancelStep,
      Faulty!CancelStep
<1>13. ApiFault /\ faults \in Nat /\ kills \in 0 .. MaxStops => Faulty!ApiFault
  BY <1>4, <1>9, FaultImage DEF ApiFault, Faulty!ApiFault
<1>. QED BY <1>10, <1>11, <1>12, <1>13

(* So every step of JobQueue is one among whose faults the stops count.    *)
LEMMA StepImage ==
  ASSUME faults \in Nat, kills \in 0 .. MaxStops, kills' = kills, Next
  PROVE  Faulty!Next
<1>1. ASSUME NEW w \in Worker, WorkerStep(w) \/ WorkerFault(w), UNCHANGED apiVars
      PROVE  Faulty!Next
  BY <1>1, WorkerImage, WorkerFaultImage DEF Faulty!Next, apiVars, Faulty!apiVars
<1>2. ASSUME ApiStep, UNCHANGED <<workerVars, faults, recovered>>
      PROVE  Faulty!Next
  BY <1>2, ApiImage DEF Faulty!Next, workerVars, Faulty!workerVars
<1>3. ASSUME ApiFault, UNCHANGED <<workerVars, recovered>>
      PROVE  Faulty!Next
  BY <1>3, ApiImage DEF Faulty!Next, workerVars, Faulty!workerVars
<1>4. ASSUME NEW j \in Job, Mature(j) \/ Age(j)
      PROVE  Faulty!Next
  BY <1>4, ApiImage DEF Faulty!Next
<1>. QED
  BY <1>1, <1>2, <1>3, <1>4 DEF Next

(* A step moves some of the workers and injects a fault or none.           *)
LEMMA StepFrame ==
  ASSUME Next, faults \in 0 .. MaxFaults, DOMAIN pc = Worker
  PROVE  faults' \in 0 .. MaxFaults /\ DOMAIN pc' = Worker
BY StepCases, WorkerAssumption
DEF DrainScan, DrainClaim, RequeueLoad, RequeueAdd, DequeuePriority,
    DequeueNothing, LoadQueued, LoadSkipped, BeginCommit, ExecuteOk,
    ExecuteFails, NoExecutor, FinishLoad, FinishDiscard, FinishCommit, FailLoad,
    EnqueueRetry, FailCommit, LoopError, FinishError,
    BeginCommitUnacknowledged, FinishCommitUnacknowledged, Crash, Start,
    RecoverySelect, RecoveryClean, RecoverJob, RecoveryCommit, RecoveryError,
    CreateFlush, CreateEnqueue, CreateCommit, CancelLoad, CancelRemovePriority,
    CancelRemoveRetry, CancelCommit, CreateAbort, CancelAbort, Mature, Age,
    InjectFault, NextRound, Leave, Goto, workerVars

(* The workers that have been told to stop are up, and there are no more   *)
(* of them than stops are left.                                            *)
StopInv ==
  /\ faults \in 0 .. MaxFaults
  /\ kills \in Nat
  /\ DOMAIN pc = Worker
  /\ shutdown \subseteq {w \in Worker : pc[w] # "down"}
  /\ IsFiniteSet(shutdown)
  /\ kills + Cardinality(shutdown) <= MaxStops

(* Every stop is announced, and uses up one of the stops left.             *)
LEMMA StopInvStep ==
  ASSUME StopInv, ProcessNext
  PROVE  StopInv'
<1>0. Cardinality(shutdown) \in Nat /\ MaxStops \in Nat
  BY FS_CardinalityType, StopAssumption DEF StopInv
<1>1. ASSUME Next, Signals
      PROVE  StopInv'
  <2>1. shutdown' \subseteq shutdown
    BY <1>1 DEF Signals
  <2>2. /\ IsFiniteSet(shutdown') /\ Cardinality(shutdown') \in Nat
        /\ Cardinality(shutdown') <= Cardinality(shutdown)
    BY <2>1, FS_Subset, FS_CardinalityType DEF StopInv
  <2>3. faults' \in 0 .. MaxFaults /\ DOMAIN pc' = Worker
    BY <1>1, StepFrame DEF StopInv
  <2>. QED
    BY <1>0, <1>1, <2>2, <2>3 DEF StopInv, Signals
<1>2. ASSUME NEW w \in Worker, Sigterm(w)
      PROVE  StopInv'
  <2>1. /\ IsFiniteSet(shutdown')
        /\ Cardinality(shutdown') = Cardinality(shutdown) + 1
    BY <1>2, FS_AddElement DEF Sigterm, StopInv
  <2>. QED
    BY <1>0, <1>2, <2>1 DEF Sigterm, StopInv, vars, workerVars
<1>3. ASSUME NEW w \in Worker, Sigkill(w)
      PROVE  StopInv'
  <2>1. /\ IsFiniteSet(shutdown')
        /\ Cardinality(shutdown') = Cardinality(shutdown) - 1
    BY <1>3, FS_RemoveElement DEF Sigkill, StopInv
  <2>2. /\ pc' = [pc EXCEPT ![w] = "down"] /\ shutdown' = shutdown \ {w}
        /\ kills' = kills + 1 /\ faults' = faults
    BY <1>3 DEF Sigkill, Die, Leave, Goto
  <2>. QED
    BY <1>0, <2>1, <2>2 DEF StopInv
<1>. QED
  BY <1>1, <1>2, <1>3 DEF ProcessNext

(* With its stops counted as faults, a behaviour of the processes is one   *)
(* of JobQueue.                                                            *)
LEMMA StopsImplementCrashes == ProcessSpec => Faulty!Spec
<1>1. ProcessInit => StopInv
  BY FS_EmptySet, StopAssumption, WorkerAssumption
  DEF ProcessInit, Init, WorkerInit, StopInv
<1>2. StopInv /\ [ProcessNext]_<<vars, stopVars>> => StopInv'
  <2>1. StopInv /\ UNCHANGED <<vars, stopVars>> => StopInv'
    BY DEF StopInv, vars, workerVars, stopVars
  <2>. QED BY <2>1, StopInvStep
<1>3. ProcessInit => Faulty!Init
  BY DEF ProcessInit, Init, Faulty!Init, NewRow, Faulty!NewRow, NoRow, Faulty!NoRow,
     WorkerInit, Faulty!WorkerInit, RecoveryInit, Faulty!RecoveryInit, ApiInit,
     Faulty!ApiInit, NoSession, Faulty!NoSession
<1>4. StopInv /\ [ProcessNext]_<<vars, stopVars>> => [Faulty!Next]_(Faulty!vars)
  <2>. SUFFICES ASSUME StopInv, [ProcessNext]_<<vars, stopVars>>
                PROVE  Faulty!Next \/ UNCHANGED Faulty!vars
    OBVIOUS
  <2>0. Cardinality(shutdown) \in Nat /\ MaxStops \in Nat
    BY FS_CardinalityType, StopAssumption DEF StopInv
  <2>1. ASSUME Next, Signals
        PROVE  Faulty!Next
    BY <2>0, <2>1, StepImage, WorkerAssumption DEF StopInv, Signals
  <2>2. UNCHANGED vars /\ UNCHANGED kills => UNCHANGED Faulty!vars
    BY DEF vars, Faulty!vars, storeVars, Faulty!storeVars, workerVars, Faulty!workerVars,
       apiVars, Faulty!apiVars
  <2>3. ASSUME NEW w \in Worker, Sigkill(w)
        PROVE  Faulty!Next
    <3>1. Cardinality(shutdown) # 0 /\ pc[w] # "down"
      BY <2>3, FS_EmptySet DEF Sigkill, StopInv
    <3>2. faults + kills < MaxFaults + MaxStops
      BY <2>0, <3>1, WorkerAssumption DEF StopInv
    <3>3. Faulty!Crash(w)
      BY <2>3, <3>1, <3>2
      DEF Sigkill, Die, StopInv, Faulty!Crash, Faulty!InjectFault, Leave, Faulty!Leave,
          Goto, Faulty!Goto, NoSession, Faulty!NoSession, NoRow, Faulty!NoRow,
          storeVars, Faulty!storeVars
    <3>. QED
      BY <2>3, <3>3
      DEF Sigkill, Faulty!Next, Faulty!WorkerFault, Faulty!LoopFault, apiVars,
          Faulty!apiVars
  <2>. QED
    BY <2>1, <2>2, <2>3 DEF ProcessNext, Sigterm, stopVars
<1>. QED
  BY <1>1, <1>2, <1>3, <1>4, PTL
  DEF ProcessSpec, Faulty!Spec

(* All that is proved of JobQueue holds with the stops among its faults.   *)
Stopped == INSTANCE JobQueueTheorems WITH
  faults <- faults + kills,
  MaxFaults <- MaxFaults + MaxStops

(* Two instances of JobQueue with the same substitution start alike.       *)
LEMMA SameInit == Faulty!Init <=> Stopped!Init
BY DEF Faulty!Init, Faulty!NewRow, Faulty!NoRow, Faulty!WorkerInit,
       Faulty!RecoveryInit, Faulty!ApiInit, Faulty!NoSession, Stopped!Init,
       Stopped!NewRow, Stopped!NoRow, Stopped!WorkerInit, Stopped!RecoveryInit,
       Stopped!ApiInit, Stopped!NoSession

(* They make the same steps.                                               *)
LEMMA SameNext == Faulty!Next <=> Stopped!Next
BY DEF Faulty!DrainScan, Faulty!DrainClaim, Faulty!RequeueLoad, Faulty!RequeueAdd,
       Faulty!DequeuePriority, Faulty!DequeueNothing, Faulty!LoadQueued,
       Faulty!LoadSkipped, Faulty!BeginCommit, Faulty!ExecuteOk,
       Faulty!ExecuteFails, Faulty!NoExecutor, Faulty!FinishLoad,
       Faulty!FinishDiscard, Faulty!FinishCommit, Faulty!FailLoad,
       Faulty!EnqueueRetry, Faulty!FailCommit, Faulty!LoopStep, Faulty!LoopError,
       Faulty!FinishError, Faulty!BeginCommitUnacknowledged,
       Faulty!FinishCommitUnacknowledged, Faulty!Crash, Faulty!LoopFault,
       Faulty!InjectFault, Faulty!Start, Faulty!RecoverySelect,
       Faulty!RecoveryClean, Faulty!RecoverJob, Faulty!RecoveryCommit,
       Faulty!RecoveryError, Faulty!RecoveryStep, Faulty!CreateFlush,
       Faulty!CreateEnqueue, Faulty!CreateCommit, Faulty!CreateAbort,
       Faulty!CreateStep, Faulty!CancelLoad, Faulty!CancelRemovePriority,
       Faulty!CancelRemoveRetry, Faulty!CancelCommit, Faulty!CancelAbort,
       Faulty!CancelStep, Faulty!ApiStep, Faulty!ApiFault, Faulty!WorkerStep,
       Faulty!WorkerFault, Faulty!Timely, Faulty!Overtaken, Faulty!Working,
       Faulty!WorkLabel, Faulty!RetryWriter, Faulty!Mature, Faulty!Age, Faulty!Next,
       Faulty!storeVars, Faulty!enqueue_priority, Faulty!enqueue_retry,
       Faulty!Foremost, Faulty!dequeue_priority, Faulty!DueJobs, Faulty!DrainBatch,
       Faulty!remove_from_priority, Faulty!remove_from_retry, Faulty!Cardinality,
       Faulty!NewRow, Faulty!NoRow, Faulty!MarkProcessing, Faulty!MarkCompleted,
       Faulty!MarkFailure, Faulty!MarkRecovered, Faulty!Recounted,
       Faulty!MarkCancelled, Faulty!Cancellable, Faulty!NetChange, Faulty!Exhausted,
       Faulty!Goto, Faulty!Leave, Faulty!NextRound, Faulty!Loaded, Faulty!Load,
       Faulty!AfterClaim, Faulty!Removed, Faulty!Requeueable, Faulty!Startable,
       Faulty!WriteProcessing, Faulty!WriteCompleted, Faulty!Discardable,
       Faulty!AfterFailLoad, Faulty!NoSession, Faulty!workerVars, Faulty!Stuck,
       Faulty!StuckJobs, Faulty!GivesUp, Faulty!InSession, Faulty!RecoveryLabel,
       Faulty!CreateGoto, Faulty!CancelGoto, Faulty!CancelReply, Faulty!apiVars,
       Stopped!DrainScan, Stopped!DrainClaim, Stopped!RequeueLoad,
       Stopped!RequeueAdd, Stopped!DequeuePriority, Stopped!DequeueNothing,
       Stopped!LoadQueued, Stopped!LoadSkipped, Stopped!BeginCommit,
       Stopped!ExecuteOk, Stopped!ExecuteFails, Stopped!NoExecutor,
       Stopped!FinishLoad, Stopped!FinishDiscard, Stopped!FinishCommit,
       Stopped!FailLoad, Stopped!EnqueueRetry, Stopped!FailCommit, Stopped!LoopStep,
       Stopped!LoopError, Stopped!FinishError, Stopped!BeginCommitUnacknowledged,
       Stopped!FinishCommitUnacknowledged, Stopped!Crash, Stopped!LoopFault,
       Stopped!InjectFault, Stopped!Start, Stopped!RecoverySelect,
       Stopped!RecoveryClean, Stopped!RecoverJob, Stopped!RecoveryCommit,
       Stopped!RecoveryError, Stopped!RecoveryStep, Stopped!CreateFlush,
       Stopped!CreateEnqueue, Stopped!CreateCommit, Stopped!CreateAbort,
       Stopped!CreateStep, Stopped!CancelLoad, Stopped!CancelRemovePriority,
       Stopped!CancelRemoveRetry, Stopped!CancelCommit, Stopped!CancelAbort,
       Stopped!CancelStep, Stopped!ApiStep, Stopped!ApiFault, Stopped!WorkerStep,
       Stopped!WorkerFault, Stopped!Timely, Stopped!Overtaken, Stopped!Working,
       Stopped!WorkLabel, Stopped!RetryWriter, Stopped!Mature, Stopped!Age,
       Stopped!Next, Stopped!storeVars, Stopped!enqueue_priority,
       Stopped!enqueue_retry, Stopped!Foremost, Stopped!dequeue_priority,
       Stopped!DueJobs, Stopped!DrainBatch, Stopped!remove_from_priority,
       Stopped!remove_from_retry, Stopped!Cardinality, Stopped!NewRow,
       Stopped!NoRow, Stopped!MarkProcessing, Stopped!MarkCompleted,
       Stopped!MarkFailure, Stopped!MarkRecovered, Stopped!Recounted,
       Stopped!MarkCancelled, Stopped!Cancellable, Stopped!NetChange,
       Stopped!Exhausted, Stopped!Goto, Stopped!Leave, Stopped!NextRound,
       Stopped!Loaded, Stopped!Load, Stopped!AfterClaim, Stopped!Removed,
       Stopped!Requeueable, Stopped!Startable, Stopped!WriteProcessing,
       Stopped!WriteCompleted, Stopped!Discardable, Stopped!AfterFailLoad,
       Stopped!NoSession, Stopped!workerVars, Stopped!Stuck, Stopped!StuckJobs,
       Stopped!GivesUp, Stopped!InSession, Stopped!RecoveryLabel,
       Stopped!CreateGoto, Stopped!CancelGoto, Stopped!CancelReply, Stopped!apiVars

(* They have the same behaviours.                                          *)
LEMMA SameSpec == Faulty!Spec => Stopped!Spec
<1>1. UNCHANGED Faulty!vars => UNCHANGED Stopped!vars
  BY DEF Faulty!vars, Stopped!vars, Faulty!storeVars, Stopped!storeVars,
     Faulty!workerVars, Stopped!workerVars, Faulty!apiVars, Stopped!apiVars
<1>2. [Faulty!Next]_(Faulty!vars) => [Stopped!Next]_(Stopped!vars)
  BY <1>1, SameNext
<1>. QED
  BY <1>2, SameInit, PTL DEF Faulty!Spec, Stopped!Spec

(* A stop loses the jobs that the worker it kills has in hand, no other.   *)
THEOREM StopsLoseWhatIsInHand ==
  ASSUME PromptCommits, PromptClaims, Canceller = {}, Preloaded = Job
  PROVE  ProcessSpec => OnlyStopsLose
<1>1. MaxFaults + MaxStops \in Nat
  BY WorkerAssumption, StopAssumption
<1>2. Stopped!Spec => Stopped!OnlyFaultsLose
  BY <1>1, Stopped!LossNeedsFault, JobAssumption, WorkerAssumption, ApiAssumption,
     TimingAssumption
<1>3. Stopped!OnlyFaultsLose => Faulty!OnlyFaultsLose
  <2>1. UNCHANGED Stopped!vars => UNCHANGED Faulty!vars
    BY DEF Faulty!vars, Stopped!vars, Faulty!storeVars, Stopped!storeVars,
       Faulty!workerVars, Stopped!workerVars, Faulty!apiVars, Stopped!apiVars
  <2>2. \A j \in Job : (Stopped!Lost(j) <=> Faulty!Lost(j))
                       /\ (Stopped!Lost(j)' <=> Faulty!Lost(j)')
    BY DEF Stopped!Lost, Faulty!Lost, Stopped!InHand, Faulty!InHand
  <2>3. [\A j \in Job \ recovered : ~Stopped!Lost(j) /\ Stopped!Lost(j)' =>
           /\ (faults + kills)' = (faults + kills) + 1
           /\ \E w \in Worker : (held[w] = j \/ j \in claimed[w]) /\ pc'[w] # pc[w]
        ]_(Stopped!vars)
          => [\A j \in Job \ recovered : ~Faulty!Lost(j) /\ Faulty!Lost(j)' =>
                /\ (faults + kills)' = (faults + kills) + 1
                /\ \E w \in Worker : (held[w] = j \/ j \in claimed[w]) /\ pc'[w] # pc[w]
             ]_(Faulty!vars)
    BY <2>1, <2>2
  <2>. QED
    BY <2>3, PTL DEF Stopped!OnlyFaultsLose, Faulty!OnlyFaultsLose
<1>. QED
  BY <1>2, <1>3, SameSpec, StopsImplementCrashes, PTL
  DEF OnlyStopsLose

(* Neither do stops and restarts, together with all the other faults, put  *)
(* two workers at a job, cost it an attempt it has not had, overspend its  *)
(* attempts or tear its outcome apart.                                     *)
THEOREM StopsKeepPromises ==
  ProcessSpec => [](/\ ExclusiveExecution
                    /\ AttemptsMatchStarts
                    /\ RetryBudget
                    /\ OutcomeRecorded)
<1>1. MaxFaults + MaxStops \in Nat
  BY WorkerAssumption, StopAssumption
<1>. USE <1>1, JobAssumption, WorkerAssumption, ApiAssumption, TimingAssumption
<1>2. Stopped!Spec => []Stopped!ExclusiveExecution
  BY Stopped!Exclusion
<1>3. Stopped!Spec => []Stopped!AttemptsMatchStarts
  BY Stopped!AttemptsAreCounted
<1>4. Stopped!Spec => []Stopped!RetryBudget
  BY Stopped!RetriesAreBounded
<1>5. Stopped!Spec => []Stopped!OutcomeRecorded
  BY Stopped!OutcomesAreRecorded
<1>6. /\ Stopped!ExclusiveExecution => ExclusiveExecution
      /\ Stopped!AttemptsMatchStarts => AttemptsMatchStarts
      /\ Stopped!RetryBudget => RetryBudget
      /\ Stopped!OutcomeRecorded => OutcomeRecorded
  BY DEF ExclusiveExecution, Stopped!ExclusiveExecution, AttemptsMatchStarts,
     Stopped!AttemptsMatchStarts, RetryBudget, Stopped!RetryBudget, OutcomeRecorded,
     Stopped!OutcomeRecorded, Working, Stopped!Working, WorkLabel, Stopped!WorkLabel
<1>. QED
  BY <1>2, <1>3, <1>4, <1>5, <1>6, SameSpec, StopsImplementCrashes, PTL
=============================================================================
