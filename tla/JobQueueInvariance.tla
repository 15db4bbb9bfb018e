------------------------- MODULE JobQueueInvariance -------------------------
(***************************************************************************)
(* IInv is an inductive invariant of JobQueue.  Each of its parts is       *)
(* preserved by every action, given the others; the parts that speak of    *)
(* one row (AttemptsMatchStarts, RetryBudget, OutcomeRecorded) follow from *)
(* a lemma that lists the few ways a step can change a row.                *)
(***************************************************************************)
EXTENDS JobQueueSteps

-----------------------------------------------------------------------------

(* The worker that stands at a commit: its job, the row stored and the row *)
(* it loaded.                                                              *)
LEMMA WriterFacts ==
  ASSUME TypeOK, LocalInv, NEW w \in Worker, pc[w] \in WriteLabel
  PROVE  /\ held[w] \in Job
         /\ db[held[w]] \in Row
         /\ Loaded(w) \in Row
         /\ Loaded(w) = session[w][held[w]]
         /\ MaxAttempts[held[w]] \in Nat \ {0}
         /\ InSession(w, held[w])
<1>1. held[w] \in Job /\ InSession(w, held[w])
  BY DEF TypeOK, WorkerTypeOK, LocalInv, LocalOK, WriteLabel, HeldLabel,
     WorkLabel
<1>. QED
  BY <1>1, JobAssumption DEF TypeOK, StoreTypeOK, WorkerTypeOK, Loaded

(* A commit of the loop writes to the row of the job in hand only, and     *)
(* leaves it in existence.                                                 *)
LEMMA WriteKeepsRows ==
  ASSUME TypeOK, LocalInv, ExistenceInv, NEW w \in Worker, pc[w] \in WriteLabel,
         WriteProcessing(w) \/ WriteCompleted(w) \/ FailCommit(w)
  PROVE  /\ \A j \in Job : j # held[w] => db'[j] = db[j]
         /\ \A j \in Job : db'[j].status = "absent" <=> db[j].status = "absent"
<1>1. /\ held[w] \in Job /\ db[held[w]] \in Row /\ Loaded(w) \in Row
      /\ MaxAttempts[held[w]] \in Nat
  BY WriterFacts
<1>2. db[held[w]].status # "absent"
  BY WriterFacts DEF ExistenceInv, ExistenceOK
<1>3. \A j \in Job : j # held[w] => db'[j] = db[j]
  BY <1>1 DEF WriteProcessing, WriteCompleted, FailCommit, TypeOK, StoreTypeOK
<1>4. db'[held[w]].status # "absent"
  <2>1. CASE WriteProcessing(w)
    BY <1>1, <1>2, <2>1, ProcessingEffect
    DEF WriteProcessing, NetChange, TypeOK, StoreTypeOK
  <2>2. CASE WriteCompleted(w)
    BY <1>1, <1>2, <2>2, CompletedEffect
    DEF WriteCompleted, NetChange, TypeOK, StoreTypeOK
  <2>3. CASE FailCommit(w)
    BY <1>1, <1>2, <2>3, FailureEffect
    DEF FailCommit, NetChange, TypeOK, StoreTypeOK
  <2>. QED BY <2>1, <2>2, <2>3
<1>. QED BY <1>2, <1>3, <1>4

(* Two workers never have the same job in hand.                            *)
LEMMA SoleHolder ==
  ASSUME TokenInv, NEW j \in Job \ recovered, NEW v \in Worker, NEW w \in Worker,
         held[v] = j, held[w] = j
  PROVE  v = w
BY DEF TokenInv, TokenOK, Holds, Failing

-----------------------------------------------------------------------------
(* The conjuncts that speak of workers, tokens and sessions.               *)

LEMMA LocalStep ==
  ASSUME TypeOK, TypeOK', LocalInv, ExistenceInv, Next
  PROVE  LocalInv'
<1>e. \A w \in Worker : \A j \in Job : Working(w, j) => db[j].status # "absent"
  BY DEF ExistenceInv, ExistenceOK
<1>1. ASSUME NEW w \in Worker, DrainScan(w), UNCHANGED <<recovered, apiVars>>
      PROVE  LocalInv'
  BY <1>1, WorkerAssumption, <1>e
  DEF DrainScan, Goto, LocalInv, LocalOK, InSession, Loaded, HeldLabel,
      WorkLabel, ClaimLabel, WriteLabel
<1>2. ASSUME NEW w \in Worker, NEW k \in Job, DrainClaim(w, k),
             UNCHANGED <<recovered, apiVars>>
      PROVE  LocalInv'
  BY <1>2, WorkerAssumption, <1>e
  DEF DrainClaim, Removed, Goto, AfterClaim, LocalInv, LocalOK, InSession,
      Loaded, HeldLabel, WorkLabel, ClaimLabel, WriteLabel
<1>3. ASSUME NEW w \in Worker, NEW k \in Job, RequeueLoad(w, k),
             UNCHANGED <<recovered, apiVars>>
      PROVE  LocalInv'
  BY <1>3, WorkerAssumption, <1>e
  DEF RequeueLoad, Goto, AfterClaim, LocalInv, LocalOK, TypeOK, WorkerTypeOK,
      InSession, Loaded, HeldLabel, WorkLabel, ClaimLabel, WriteLabel
<1>4. ASSUME NEW w \in Worker, RequeueAdd(w), UNCHANGED <<recovered, apiVars>>
      PROVE  LocalInv'
  BY <1>4, WorkerAssumption, <1>e
  DEF RequeueAdd, Goto, AfterClaim, LocalInv, LocalOK, TypeOK, WorkerTypeOK,
      InSession, Loaded, HeldLabel, WorkLabel, ClaimLabel, WriteLabel
<1>5. ASSUME NEW w \in Worker, NEW k \in Job, DequeuePriority(w, k),
             UNCHANGED <<recovered, apiVars>>
      PROVE  LocalInv'
  BY <1>5, WorkerAssumption, <1>e
  DEF DequeuePriority, Goto, LocalInv, LocalOK, TypeOK, WorkerTypeOK,
      InSession, Loaded, HeldLabel, ClaimLabel, WriteLabel
<1>6. ASSUME NEW w \in Worker, DequeueNothing(w),
             UNCHANGED <<recovered, apiVars>>
      PROVE  LocalInv'
  BY <1>6, WorkerAssumption, <1>e
  DEF DequeueNothing, Goto, LocalInv, LocalOK, InSession, Loaded, HeldLabel,
      WorkLabel, ClaimLabel, WriteLabel
<1>7. ASSUME NEW w \in Worker, LoadQueued(w), UNCHANGED <<recovered, apiVars>>
      PROVE  LocalInv'
  BY <1>7, WorkerAssumption, <1>e
  DEF LoadQueued, Startable, Load, Goto, LocalInv, LocalOK, TypeOK,
      WorkerTypeOK, InSession, Loaded, HeldLabel, ClaimLabel, WriteLabel
<1>8. ASSUME NEW w \in Worker, LoadSkipped(w), UNCHANGED <<recovered, apiVars>>
      PROVE  LocalInv'
  BY <1>8, WorkerAssumption, <1>e
  DEF LoadSkipped, NextRound, Leave, Goto, LocalInv, LocalOK, TypeOK,
      WorkerTypeOK, InSession, Loaded, HeldLabel, WorkLabel, WriteLabel,
      NoSession, NoRow
<1>9. ASSUME NEW w \in Worker, BeginCommit(w), UNCHANGED <<recovered, apiVars>>
      PROVE  LocalInv'
  BY <1>9, WorkerAssumption, <1>e
  DEF BeginCommit, Loaded, Goto, LocalInv, LocalOK, TypeOK, WorkerTypeOK,
      InSession, HeldLabel, WorkLabel, ClaimLabel, WriteLabel, NoSession,
      NoRow
<1>10. ASSUME NEW w \in Worker, ExecuteOk(w), UNCHANGED <<recovered, apiVars>>
      PROVE  LocalInv'
  BY <1>10, WorkerAssumption, <1>e
  DEF ExecuteOk, Goto, LocalInv, LocalOK, InSession, Loaded, HeldLabel,
      WorkLabel, ClaimLabel, WriteLabel
<1>11. ASSUME NEW w \in Worker, ExecuteFails(w),
              UNCHANGED <<recovered, apiVars>>
      PROVE  LocalInv'
  BY <1>11, WorkerAssumption, <1>e
  DEF ExecuteFails, Goto, LocalInv, LocalOK, InSession, Loaded, HeldLabel,
      WorkLabel, ClaimLabel, WriteLabel
<1>12. ASSUME NEW w \in Worker, FinishLoad(w), UNCHANGED <<recovered, apiVars>>
      PROVE  LocalInv'
  <2>1. held[w] \in Job /\ db[held[w]].status # "absent"
    BY <1>12, <1>e
    DEF FinishLoad, TypeOK, WorkerTypeOK, LocalInv, LocalOK, HeldLabel,
        WorkLabel, Working
  <2>2. session'[w] = [session[w] EXCEPT ![held[w]] = db[held[w]]]
    BY <1>12 DEF FinishLoad, Load, TypeOK, WorkerTypeOK
  <2>3. \A v \in Worker : v # w => session'[v] = session[v]
    BY <1>12 DEF FinishLoad, Load, TypeOK, WorkerTypeOK
  <2>. QED
    BY <1>12, <2>1, <2>2, <2>3
    DEF FinishLoad, Goto, TypeOK, WorkerTypeOK, LocalInv, LocalOK,
        InSession, Loaded, HeldLabel, WorkLabel, ClaimLabel, WriteLabel
<1>13. ASSUME NEW w \in Worker, FinishDiscard(w),
              UNCHANGED <<recovered, apiVars>>
      PROVE  LocalInv'
  BY <1>13, WorkerAssumption, <1>e
  DEF FinishDiscard, NextRound, Leave, Goto, LocalInv, LocalOK, TypeOK,
      WorkerTypeOK, InSession, Loaded, HeldLabel, WorkLabel, WriteLabel,
      NoSession, NoRow
<1>14. ASSUME NEW w \in Worker, FinishCommit(w),
              UNCHANGED <<recovered, apiVars>>
      PROVE  LocalInv'
  BY <1>14, WorkerAssumption, <1>e
  DEF FinishCommit, Loaded, NextRound, Leave, Goto, LocalInv, LocalOK,
      TypeOK, WorkerTypeOK, InSession, HeldLabel, WorkLabel, WriteLabel,
      NoSession, NoRow
<1>15. ASSUME NEW w \in Worker, FailLoad(w), UNCHANGED <<recovered, apiVars>>
      PROVE  LocalInv'
  <2>1. held[w] \in Job /\ db[held[w]].status # "absent"
    BY <1>15, <1>e
    DEF FailLoad, TypeOK, WorkerTypeOK, LocalInv, LocalOK, HeldLabel,
        WorkLabel, Working
  <2>2. session'[w] = [session[w] EXCEPT ![held[w]] = db[held[w]]]
    BY <1>15 DEF FailLoad, Load, TypeOK, WorkerTypeOK
  <2>3. \A v \in Worker : v # w => session'[v] = session[v]
    BY <1>15 DEF FailLoad, Load, TypeOK, WorkerTypeOK
  <2>. QED
    BY <1>15, <2>1, <2>2, <2>3
    DEF FailLoad, AfterFailLoad, Goto, TypeOK, WorkerTypeOK, LocalInv,
        LocalOK, InSession, Loaded, HeldLabel, WorkLabel, ClaimLabel,
        WriteLabel
<1>16. ASSUME NEW w \in Worker, EnqueueRetry(w),
              UNCHANGED <<recovered, apiVars>>
      PROVE  LocalInv'
  BY <1>16, WorkerAssumption, <1>e
  DEF EnqueueRetry, Goto, LocalInv, LocalOK, InSession, Loaded, HeldLabel,
      WorkLabel, ClaimLabel, WriteLabel
<1>17. ASSUME NEW w \in Worker, FailCommit(w), UNCHANGED <<recovered, apiVars>>
      PROVE  LocalInv'
  BY <1>17, WorkerAssumption, <1>e
  DEF FailCommit, Loaded, NextRound, Leave, Goto, LocalInv, LocalOK, TypeOK,
      WorkerTypeOK, InSession, HeldLabel, WorkLabel, WriteLabel, NoSession,
      NoRow
<1>18. ASSUME NEW w \in Worker, LoopError(w), UNCHANGED <<recovered, apiVars>>
      PROVE  LocalInv'
  BY <1>18, WorkerAssumption, <1>e
  DEF LoopError, NextRound, Leave, Goto, LocalInv, LocalOK, TypeOK,
      WorkerTypeOK, InSession, Loaded, HeldLabel, WorkLabel, WriteLabel,
      NoSession, NoRow
<1>19. ASSUME NEW w \in Worker, FinishError(w),
              UNCHANGED <<recovered, apiVars>>
      PROVE  LocalInv'
  BY <1>19, WorkerAssumption, <1>e
  DEF FinishError, Goto, LocalInv, LocalOK, TypeOK, WorkerTypeOK, InSession,
      Loaded, HeldLabel, WorkLabel, ClaimLabel, WriteLabel, NoSession, NoRow
<1>20. ASSUME NEW w \in Worker, BeginCommitUnacknowledged(w),
              UNCHANGED <<recovered, apiVars>>
      PROVE  LocalInv'
  BY <1>20, WorkerAssumption, <1>e
  DEF BeginCommitUnacknowledged, Loaded, NextRound, Leave, Goto, LocalInv,
      LocalOK, TypeOK, WorkerTypeOK, InSession, HeldLabel, WorkLabel,
      WriteLabel, NoSession, NoRow
<1>21. ASSUME NEW w \in Worker, FinishCommitUnacknowledged(w),
              UNCHANGED <<recovered, apiVars>>
      PROVE  LocalInv'
  BY <1>21, WorkerAssumption, <1>e
  DEF FinishCommitUnacknowledged, Loaded, Goto, LocalInv, LocalOK, TypeOK,
      WorkerTypeOK, InSession, HeldLabel, WorkLabel, ClaimLabel, WriteLabel,
      NoSession, NoRow
<1>22. ASSUME NEW w \in Worker, Crash(w), UNCHANGED <<recovered, apiVars>>
      PROVE  LocalInv'
  BY <1>22, WorkerAssumption, <1>e
  DEF Crash, Leave, Goto, LocalInv, LocalOK, TypeOK, WorkerTypeOK, InSession,
      Loaded, HeldLabel, WorkLabel, WriteLabel, NoSession, NoRow
<1>23. ASSUME NEW w \in Worker, Start(w), UNCHANGED apiVars
      PROVE  LocalInv'
  BY <1>23, WorkerAssumption, <1>e
  DEF Start, Goto, LocalInv, LocalOK, InSession, Loaded, HeldLabel,
      WorkLabel, ClaimLabel, WriteLabel
<1>24. ASSUME NEW w \in Worker, RecoverySelect(w), UNCHANGED apiVars
      PROVE  LocalInv'
  <2>1. /\ todo'[w] = StuckJobs
        /\ \A j \in Job : session'[w][j] = IF j \in StuckJobs THEN db[j] ELSE NoRow
        /\ StuckJobs \subseteq recovered'
    BY <1>24 DEF RecoverySelect, TypeOK, WorkerTypeOK
  <2>2. \A j \in Job : InSession(w, j)' <=> j \in StuckJobs
    BY <2>1 DEF InSession, StuckJobs, Stuck, NoRow
  <2>3. \A v \in Worker : v # w => session'[v] = session[v] /\ todo'[v] = todo[v]
    BY <1>24 DEF RecoverySelect, TypeOK, WorkerTypeOK
  <2>4. LocalOK(w)'
    BY <1>24, <2>1, <2>2
    DEF RecoverySelect, Goto, TypeOK, WorkerTypeOK, LocalInv, LocalOK,
        HeldLabel, WorkLabel, ClaimLabel, WriteLabel
  <2>5. ASSUME NEW v \in Worker, v # w PROVE LocalOK(v)'
    BY <1>24, <2>3, <2>5
    DEF RecoverySelect, Goto, LocalInv, LocalOK, InSession, Loaded
  <2>. QED
    BY <2>4, <2>5 DEF LocalInv
<1>25. ASSUME NEW w \in Worker, RecoveryClean(w), UNCHANGED apiVars
      PROVE  LocalInv'
  BY <1>25, WorkerAssumption, <1>e
  DEF RecoveryClean, NextRound, Leave, Goto, LocalInv, LocalOK, TypeOK,
      WorkerTypeOK, InSession, Loaded, HeldLabel, WorkLabel, WriteLabel,
      NoSession, NoRow
<1>26. ASSUME NEW w \in Worker, NEW k \in Job, RecoverJob(w, k),
              UNCHANGED apiVars
      PROVE  LocalInv'
  BY <1>26, WorkerAssumption, <1>e
  DEF RecoverJob, Goto, LocalInv, LocalOK, InSession, Loaded, HeldLabel,
      WorkLabel, ClaimLabel, WriteLabel
<1>27. ASSUME NEW w \in Worker, RecoveryCommit(w), UNCHANGED apiVars
      PROVE  LocalInv'
  BY <1>27, WorkerAssumption, <1>e
  DEF RecoveryCommit, NextRound, Leave, Goto, InSession, LocalInv, LocalOK,
      TypeOK, WorkerTypeOK, Loaded, HeldLabel, WorkLabel, WriteLabel,
      NoSession, NoRow
<1>28. ASSUME NEW w \in Worker, RecoveryError(w), UNCHANGED apiVars
      PROVE  LocalInv'
  BY <1>28, WorkerAssumption, <1>e
  DEF RecoveryError, Leave, Goto, LocalInv, LocalOK, TypeOK, WorkerTypeOK,
      InSession, Loaded, HeldLabel, WorkLabel, WriteLabel, NoSession, NoRow
<1>29. ASSUME NEW k \in Job, CreateFlush(k),
              UNCHANGED <<workerVars, faults, recovered>>
      PROVE  LocalInv'
  BY <1>29, WorkerAssumption, <1>e
  DEF LocalInv, LocalOK, workerVars, InSession, Loaded
<1>30. ASSUME NEW k \in Job, CreateEnqueue(k),
              UNCHANGED <<workerVars, faults, recovered>>
      PROVE  LocalInv'
  BY <1>30, WorkerAssumption, <1>e
  DEF LocalInv, LocalOK, workerVars, InSession, Loaded
<1>31. ASSUME NEW k \in Job, CreateCommit(k),
              UNCHANGED <<workerVars, faults, recovered>>
      PROVE  LocalInv'
  BY <1>31, WorkerAssumption, <1>e
  DEF LocalInv, LocalOK, workerVars, InSession, Loaded
<1>32. ASSUME NEW c \in Canceller, CancelLoad(c),
              UNCHANGED <<workerVars, faults, recovered>>
      PROVE  LocalInv'
  BY <1>32, WorkerAssumption, <1>e
  DEF LocalInv, LocalOK, workerVars, InSession, Loaded
<1>33. ASSUME NEW c \in Canceller, CancelRemovePriority(c),
              UNCHANGED <<workerVars, faults, recovered>>
      PROVE  LocalInv'
  BY <1>33, WorkerAssumption, <1>e
  DEF LocalInv, LocalOK, workerVars, InSession, Loaded
<1>34. ASSUME NEW c \in Canceller, CancelRemoveRetry(c),
              UNCHANGED <<workerVars, faults, recovered>>
      PROVE  LocalInv'
  BY <1>34, WorkerAssumption, <1>e
  DEF LocalInv, LocalOK, workerVars, InSession, Loaded
<1>35. ASSUME NEW c \in Canceller, CancelCommit(c),
              UNCHANGED <<workerVars, faults, recovered>>
      PROVE  LocalInv'
  BY <1>35, WorkerAssumption, <1>e
  DEF LocalInv, LocalOK, workerVars, InSession, Loaded
<1>36. ASSUME NEW k \in Job, CreateAbort(k),
              InjectFault, UNCHANGED <<workerVars, recovered>>
      PROVE  LocalInv'
  BY <1>36, WorkerAssumption, <1>e
  DEF LocalInv, LocalOK, workerVars, InSession, Loaded
<1>37. ASSUME NEW c \in Canceller, CancelAbort(c),
              InjectFault, UNCHANGED <<workerVars, recovered>>
      PROVE  LocalInv'
  BY <1>37, WorkerAssumption, <1>e
  DEF LocalInv, LocalOK, workerVars, InSession, Loaded
<1>38. ASSUME NEW k \in Job, Mature(k)
      PROVE  LocalInv'
  BY <1>38, WorkerAssumption, <1>e
  DEF Mature, LocalInv, LocalOK, workerVars, InSession, Loaded
<1>39. ASSUME NEW k \in Job, Age(k)
      PROVE  LocalInv'
  BY <1>39, WorkerAssumption, <1>e
  DEF Age, LocalInv, LocalOK, workerVars, InSession, Loaded
<1>40. ASSUME NEW w \in Worker, NoExecutor(w), UNCHANGED <<recovered, apiVars>>
      PROVE  LocalInv'
  BY <1>40, WorkerAssumption, <1>e
  DEF NoExecutor, NextRound, Leave, Goto, LocalInv, LocalOK, TypeOK,
      WorkerTypeOK, InSession, Loaded, HeldLabel, WorkLabel, WriteLabel,
      NoSession, NoRow
<1>. QED
  BY StepCases, <1>1, <1>2, <1>3, <1>4, <1>5, <1>6, <1>7, <1>8, <1>9, <1>10,
     <1>11, <1>12, <1>13, <1>14, <1>15, <1>16, <1>17, <1>18, <1>19, <1>20,
     <1>21, <1>22, <1>23, <1>24, <1>25, <1>26, <1>27, <1>28, <1>29, <1>30,
     <1>31, <1>32, <1>33, <1>34, <1>35, <1>36, <1>37, <1>38, <1>39, <1>40

(* Rows stay, and ids that have not been pushed stay out of the queues.    *)
LEMMA ExistenceStep ==
  ASSUME TypeOK, TypeOK', LocalInv, LocalInv', ExistenceInv, Next
  PROVE  ExistenceInv'
<1>1. ASSUME NEW w \in Worker, DrainScan(w), UNCHANGED <<recovered, apiVars>>
      PROVE  ExistenceInv'
  BY <1>1, WorkerAssumption
  DEF DrainScan, Goto, ExistenceInv, ExistenceOK, storeVars, apiVars,
      InSession, Working, WorkLabel, Cancelling
<1>2. ASSUME NEW w \in Worker, NEW k \in Job, DrainClaim(w, k),
             UNCHANGED <<recovered, apiVars>>
      PROVE  ExistenceInv'
  BY <1>2, WorkerAssumption
  DEF DrainClaim, remove_from_retry, Removed, Goto, AfterClaim, ExistenceInv,
      ExistenceOK, apiVars, InSession, Working, WorkLabel, Cancelling
<1>3. ASSUME NEW w \in Worker, NEW k \in Job, RequeueLoad(w, k),
             UNCHANGED <<recovered, apiVars>>
      PROVE  ExistenceInv'
  BY <1>3, WorkerAssumption
  DEF RequeueLoad, Goto, AfterClaim, ExistenceInv, ExistenceOK, TypeOK,
      StoreTypeOK, WorkerTypeOK, storeVars, apiVars, InSession, Working,
      WorkLabel, Cancelling
<1>4. ASSUME NEW w \in Worker, RequeueAdd(w), UNCHANGED <<recovered, apiVars>>
      PROVE  ExistenceInv'
  BY <1>4, WorkerAssumption
  DEF RequeueAdd, enqueue_priority, Goto, ExistenceInv, ExistenceOK, TypeOK,
      WorkerTypeOK, apiVars, InSession, Working, Cancelling
<1>5. ASSUME NEW w \in Worker, NEW k \in Job, DequeuePriority(w, k),
             UNCHANGED <<recovered, apiVars>>
      PROVE  ExistenceInv'
  BY <1>5, WorkerAssumption
  DEF DequeuePriority, dequeue_priority, Foremost, Goto, ExistenceInv,
      ExistenceOK, apiVars, InSession, Working, WorkLabel, Cancelling
<1>6. ASSUME NEW w \in Worker, DequeueNothing(w),
             UNCHANGED <<recovered, apiVars>>
      PROVE  ExistenceInv'
  BY <1>6, WorkerAssumption
  DEF DequeueNothing, Goto, ExistenceInv, ExistenceOK, storeVars, apiVars,
      InSession, Working, WorkLabel, Cancelling
<1>7. ASSUME NEW w \in Worker, LoadQueued(w), UNCHANGED <<recovered, apiVars>>
      PROVE  ExistenceInv'
  BY <1>7, WorkerAssumption
  DEF LoadQueued, Startable, Load, Goto, ExistenceInv, ExistenceOK,
      storeVars, apiVars, InSession, Working, Cancelling
<1>8. ASSUME NEW w \in Worker, LoadSkipped(w), UNCHANGED <<recovered, apiVars>>
      PROVE  ExistenceInv'
  BY <1>8, WorkerAssumption
  DEF LoadSkipped, NextRound, Leave, Goto, ExistenceInv, ExistenceOK, TypeOK,
      WorkerTypeOK, storeVars, apiVars, InSession, Working, Cancelling,
      NoSession, NoRow
<1>9. ASSUME NEW w \in Worker, BeginCommit(w), UNCHANGED <<recovered, apiVars>>
      PROVE  ExistenceInv'
  <2>1. \A j \in Job : db'[j].status = "absent" <=> db[j].status = "absent"
    BY <1>9, WriteKeepsRows DEF BeginCommit, WriteLabel
  <2>2. \A v \in Worker, j \in Job :
          /\ Working(v, j)' => Working(v, j) \/ InSession(v, j)
          /\ InSession(v, j)' => InSession(v, j)
          /\ held'[v] \in {held[v], NoJob} /\ claimed'[v] \subseteq claimed[v]
    BY <1>9, WriterFacts
    DEF BeginCommit, Goto, Working, InSession, WriteLabel, NoSession, NoRow
  <2>. QED
    BY <1>9, <2>1, <2>2, WorkerAssumption
    DEF BeginCommit, ExistenceInv, ExistenceOK, Cancelling, apiVars
<1>10. ASSUME NEW w \in Worker, ExecuteOk(w), UNCHANGED <<recovered, apiVars>>
      PROVE  ExistenceInv'
  BY <1>10, WorkerAssumption
  DEF ExecuteOk, Goto, ExistenceInv, ExistenceOK, storeVars, apiVars,
      InSession, Working, WorkLabel, Cancelling
<1>11. ASSUME NEW w \in Worker, ExecuteFails(w),
              UNCHANGED <<recovered, apiVars>>
      PROVE  ExistenceInv'
  BY <1>11, WorkerAssumption
  DEF ExecuteFails, Goto, ExistenceInv, ExistenceOK, storeVars, apiVars,
      InSession, Working, WorkLabel, Cancelling
<1>12. ASSUME NEW w \in Worker, FinishLoad(w), UNCHANGED <<recovered, apiVars>>
      PROVE  ExistenceInv'
  BY <1>12, WorkerAssumption
  DEF FinishLoad, Load, Goto, ExistenceInv, ExistenceOK, storeVars, apiVars,
      InSession, Working, WorkLabel, Cancelling
<1>13. ASSUME NEW w \in Worker, FinishDiscard(w),
              UNCHANGED <<recovered, apiVars>>
      PROVE  ExistenceInv'
  BY <1>13, WorkerAssumption
  DEF FinishDiscard, NextRound, Leave, Goto, ExistenceInv, ExistenceOK,
      TypeOK, WorkerTypeOK, storeVars, apiVars, InSession, Working,
      Cancelling, NoSession, NoRow
<1>14. ASSUME NEW w \in Worker, FinishCommit(w),
              UNCHANGED <<recovered, apiVars>>
      PROVE  ExistenceInv'
  <2>1. \A j \in Job : db'[j].status = "absent" <=> db[j].status = "absent"
    BY <1>14, WriteKeepsRows DEF FinishCommit, WriteLabel
  <2>2. \A v \in Worker, j \in Job :
          /\ Working(v, j)' => Working(v, j) \/ InSession(v, j)
          /\ InSession(v, j)' => InSession(v, j)
          /\ held'[v] \in {held[v], NoJob} /\ claimed'[v] \subseteq claimed[v]
    BY <1>14, WriterFacts
    DEF FinishCommit, NextRound, Leave, Goto, TypeOK, WorkerTypeOK,
        Working, InSession, WorkLabel, NoSession, NoRow
  <2>. QED
    BY <1>14, <2>1, <2>2, WorkerAssumption
    DEF FinishCommit, ExistenceInv, ExistenceOK, Cancelling, apiVars
<1>15. ASSUME NEW w \in Worker, FailLoad(w), UNCHANGED <<recovered, apiVars>>
      PROVE  ExistenceInv'
  BY <1>15, WorkerAssumption
  DEF FailLoad, Load, Goto, ExistenceInv, ExistenceOK, storeVars, apiVars,
      InSession, Working, WorkLabel, Cancelling
<1>16. ASSUME NEW w \in Worker, EnqueueRetry(w),
              UNCHANGED <<recovered, apiVars>>
      PROVE  ExistenceInv'
  BY <1>16, WorkerAssumption
  DEF EnqueueRetry, enqueue_retry, Goto, ExistenceInv, ExistenceOK, apiVars,
      InSession, Working, WorkLabel, Cancelling
<1>17. ASSUME NEW w \in Worker, FailCommit(w), UNCHANGED <<recovered, apiVars>>
      PROVE  ExistenceInv'
  <2>1. \A j \in Job : db'[j].status = "absent" <=> db[j].status = "absent"
    BY <1>17, WriteKeepsRows DEF FailCommit, WriteLabel
  <2>2. \A v \in Worker, j \in Job :
          /\ Working(v, j)' => Working(v, j) \/ InSession(v, j)
          /\ InSession(v, j)' => InSession(v, j)
          /\ held'[v] \in {held[v], NoJob} /\ claimed'[v] \subseteq claimed[v]
    BY <1>17, WriterFacts
    DEF FailCommit, NextRound, Leave, Goto, TypeOK, WorkerTypeOK, Working,
        InSession, WorkLabel, NoSession, NoRow
  <2>. QED
    BY <1>17, <2>1, <2>2, WorkerAssumption
    DEF FailCommit, ExistenceInv, ExistenceOK, Cancelling, apiVars
<1>18. ASSUME NEW w \in Worker, LoopError(w), UNCHANGED <<recovered, apiVars>>
      PROVE  ExistenceInv'
  BY <1>18, WorkerAssumption
  DEF LoopError, NextRound, Leave, Goto, ExistenceInv, ExistenceOK, TypeOK,
      WorkerTypeOK, storeVars, apiVars, InSession, Working, Cancelling,
      NoSession, NoRow
<1>19. ASSUME NEW w \in Worker, FinishError(w),
              UNCHANGED <<recovered, apiVars>>
      PROVE  ExistenceInv'
  BY <1>19, WorkerAssumption
  DEF FinishError, Goto, ExistenceInv, ExistenceOK, storeVars, apiVars,
      InSession, Working, WorkLabel, Cancelling, NoSession, NoRow
<1>20. ASSUME NEW w \in Worker, BeginCommitUnacknowledged(w),
              UNCHANGED <<recovered, apiVars>>
      PROVE  ExistenceInv'
  <2>1. \A j \in Job : db'[j].status = "absent" <=> db[j].status = "absent"
    BY <1>20, WriteKeepsRows DEF BeginCommitUnacknowledged, WriteLabel
  <2>2. \A v \in Worker, j \in Job :
          /\ Working(v, j)' => Working(v, j) \/ InSession(v, j)
          /\ InSession(v, j)' => InSession(v, j)
          /\ held'[v] \in {held[v], NoJob} /\ claimed'[v] \subseteq claimed[v]
    BY <1>20, WriterFacts
    DEF BeginCommitUnacknowledged, NextRound, Leave, Goto, Working,
        InSession, WorkLabel, NoSession, NoRow
  <2>. QED
    BY <1>20, <2>1, <2>2, WorkerAssumption
    DEF BeginCommitUnacknowledged, ExistenceInv, ExistenceOK, Cancelling,
        apiVars
<1>21. ASSUME NEW w \in Worker, FinishCommitUnacknowledged(w),
              UNCHANGED <<recovered, apiVars>>
      PROVE  ExistenceInv'
  <2>1. \A j \in Job : db'[j].status = "absent" <=> db[j].status = "absent"
    BY <1>21, WriteKeepsRows DEF FinishCommitUnacknowledged, WriteLabel
  <2>2. \A v \in Worker, j \in Job :
          /\ Working(v, j)' => Working(v, j) \/ InSession(v, j)
          /\ InSession(v, j)' => InSession(v, j)
          /\ held'[v] \in {held[v], NoJob} /\ claimed'[v] \subseteq claimed[v]
    BY <1>21, WriterFacts
    DEF FinishCommitUnacknowledged, Goto, Working, InSession, WriteLabel,
        NoSession, NoRow
  <2>. QED
    BY <1>21, <2>1, <2>2, WorkerAssumption
    DEF FinishCommitUnacknowledged, ExistenceInv, ExistenceOK, Cancelling,
        apiVars
<1>22. ASSUME NEW w \in Worker, Crash(w), UNCHANGED <<recovered, apiVars>>
      PROVE  ExistenceInv'
  BY <1>22, WorkerAssumption
  DEF Crash, Leave, Goto, ExistenceInv, ExistenceOK, TypeOK, WorkerTypeOK,
      storeVars, apiVars, InSession, Working, Cancelling, NoSession, NoRow
<1>23. ASSUME NEW w \in Worker, Start(w), UNCHANGED apiVars
      PROVE  ExistenceInv'
  BY <1>23, WorkerAssumption
  DEF Start, Goto, ExistenceInv, ExistenceOK, storeVars, apiVars, InSession,
      Working, WorkLabel, Cancelling
<1>24. ASSUME NEW w \in Worker, RecoverySelect(w), UNCHANGED apiVars
      PROVE  ExistenceInv'
  <2>1. \A v \in Worker, j \in Job :
          InSession(v, j)' => InSession(v, j) \/ db[j].status = "processing"
    BY <1>24
    DEF RecoverySelect, TypeOK, WorkerTypeOK, InSession, StuckJobs, Stuck,
        NoRow
  <2>2. \A v \in Worker, j \in Job : Working(v, j)' => Working(v, j)
    BY <1>24 DEF RecoverySelect, Goto, TypeOK, WorkerTypeOK, Working, WorkLabel
  <2>. QED
    BY <1>24, <2>1, <2>2
    DEF RecoverySelect, ExistenceInv, ExistenceOK, Cancelling, apiVars,
        storeVars
<1>25. ASSUME NEW w \in Worker, RecoveryClean(w), UNCHANGED apiVars
      PROVE  ExistenceInv'
  BY <1>25, WorkerAssumption
  DEF RecoveryClean, NextRound, Leave, Goto, ExistenceInv, ExistenceOK,
      TypeOK, WorkerTypeOK, storeVars, apiVars, InSession, Working,
      Cancelling, NoSession, NoRow
<1>26. ASSUME NEW w \in Worker, NEW k \in Job, RecoverJob(w, k),
              UNCHANGED apiVars
      PROVE  ExistenceInv'
  <2>1. creating[k] = "created"
    BY <1>26 DEF RecoverJob, LocalInv, LocalOK, ExistenceInv, ExistenceOK
  <2>2. \A j \in Job : j # k => retry'[j] = retry[j]
    BY <1>26 DEF RecoverJob, enqueue_retry, TypeOK, StoreTypeOK
  <2>3. \A v \in Worker, j \in Job : Working(v, j)' => Working(v, j)
    BY <1>26 DEF RecoverJob, Goto, TypeOK, WorkerTypeOK, Working, WorkLabel
  <2>. QED
    BY <1>26, <2>1, <2>2, <2>3
    DEF RecoverJob, ExistenceInv, ExistenceOK, Cancelling, InSession,
        apiVars
<1>27. ASSUME NEW w \in Worker, RecoveryCommit(w), UNCHANGED apiVars
      PROVE  ExistenceInv'
  <2>1. ASSUME NEW j \in Job
        PROVE  db'[j].status = "absent" <=> db[j].status = "absent"
    <3>1. db[j] \in Row /\ session[w][j] \in Row /\ MaxAttempts[j] \in Nat
      BY JobAssumption DEF TypeOK, StoreTypeOK, WorkerTypeOK
    <3>2. InSession(w, j) => db[j].status # "absent"
      BY <1>27 DEF ExistenceInv, ExistenceOK
    <3>. QED
      BY <1>27, <3>1, <3>2, RecoveredEffect DEF RecoveryCommit
  <2>2. \A v \in Worker, j \in Job :
          /\ Working(v, j)' => Working(v, j)
          /\ InSession(v, j)' => InSession(v, j)
          /\ held'[v] \in {held[v], NoJob} /\ claimed'[v] \subseteq claimed[v]
    BY <1>27
    DEF RecoveryCommit, NextRound, Leave, Goto, Working, InSession,
        WorkLabel, NoSession, NoRow
  <2>. QED
    BY <1>27, <2>1, <2>2, WorkerAssumption
    DEF RecoveryCommit, ExistenceInv, ExistenceOK, Cancelling, apiVars
<1>28. ASSUME NEW w \in Worker, RecoveryError(w), UNCHANGED apiVars
      PROVE  ExistenceInv'
  BY <1>28, WorkerAssumption
  DEF RecoveryError, Leave, Goto, ExistenceInv, ExistenceOK, TypeOK,
      WorkerTypeOK, storeVars, apiVars, InSession, Working, Cancelling,
      NoSession, NoRow
<1>29. ASSUME NEW k \in Job, CreateFlush(k),
              UNCHANGED <<workerVars, faults, recovered>>
      PROVE  ExistenceInv'
  BY <1>29, WorkerAssumption
  DEF CreateFlush, CreateGoto, ExistenceInv, ExistenceOK, storeVars,
      workerVars, InSession, Working, Cancelling
<1>30. ASSUME NEW k \in Job, CreateEnqueue(k),
              UNCHANGED <<workerVars, faults, recovered>>
      PROVE  ExistenceInv'
  BY <1>30, WorkerAssumption
  DEF CreateEnqueue, CreateGoto, enqueue_priority, ExistenceInv, ExistenceOK,
      TypeOK, ApiTypeOK, workerVars, InSession, Working, Cancelling
<1>31. ASSUME NEW k \in Job, CreateCommit(k),
              UNCHANGED <<workerVars, faults, recovered>>
      PROVE  ExistenceInv'
  BY <1>31, WorkerAssumption
  DEF CreateCommit, CreateGoto, ExistenceInv, ExistenceOK, TypeOK, ApiTypeOK,
      workerVars, InSession, Working, Cancelling
<1>32. ASSUME NEW c \in Canceller, CancelLoad(c),
              UNCHANGED <<workerVars, faults, recovered>>
      PROVE  ExistenceInv'
  BY <1>32, WorkerAssumption
  DEF CancelLoad, CancelGoto, CancelReply, ExistenceInv, ExistenceOK,
      storeVars, workerVars, InSession, Working, Cancelling, Cancellable
<1>33. ASSUME NEW c \in Canceller, CancelRemovePriority(c),
              UNCHANGED <<workerVars, faults, recovered>>
      PROVE  ExistenceInv'
  BY <1>33, WorkerAssumption
  DEF CancelRemovePriority, CancelGoto, remove_from_priority, ExistenceInv,
      ExistenceOK, workerVars, InSession, Working, Cancelling
<1>34. ASSUME NEW c \in Canceller, CancelRemoveRetry(c),
              UNCHANGED <<workerVars, faults, recovered>>
      PROVE  ExistenceInv'
  BY <1>34, WorkerAssumption
  DEF CancelRemoveRetry, CancelGoto, remove_from_retry, ExistenceInv,
      ExistenceOK, workerVars, InSession, Working, Cancelling
<1>35. ASSUME NEW c \in Canceller, CancelCommit(c),
              UNCHANGED <<workerVars, faults, recovered>>
      PROVE  ExistenceInv'
  BY <1>35, WorkerAssumption, CancelledEffect
  DEF CancelCommit, CancelGoto, ExistenceInv, ExistenceOK, TypeOK,
      StoreTypeOK, workerVars, InSession, Working, Cancelling
<1>36. ASSUME NEW k \in Job, CreateAbort(k),
              InjectFault, UNCHANGED <<workerVars, recovered>>
      PROVE  ExistenceInv'
  BY <1>36, WorkerAssumption
  DEF CreateAbort, CreateGoto, ExistenceInv, ExistenceOK, storeVars,
      workerVars, InSession, Working, Cancelling
<1>37. ASSUME NEW c \in Canceller, CancelAbort(c),
              InjectFault, UNCHANGED <<workerVars, recovered>>
      PROVE  ExistenceInv'
  BY <1>37, WorkerAssumption
  DEF CancelAbort, CancelGoto, ExistenceInv, ExistenceOK, storeVars,
      workerVars, InSession, Working, Cancelling
<1>38. ASSUME NEW k \in Job, Mature(k)
      PROVE  ExistenceInv'
  BY <1>38, WorkerAssumption
  DEF Mature, ExistenceInv, ExistenceOK, apiVars, workerVars, InSession,
      Working, Cancelling
<1>39. ASSUME NEW k \in Job, Age(k)
      PROVE  ExistenceInv'
  BY <1>39, WorkerAssumption
  DEF Age, ExistenceInv, ExistenceOK, apiVars, workerVars, InSession,
      Working, Cancelling
<1>40. ASSUME NEW w \in Worker, NoExecutor(w), UNCHANGED <<recovered, apiVars>>
      PROVE  ExistenceInv'
  BY <1>40, WorkerAssumption
  DEF NoExecutor, NextRound, Leave, Goto, ExistenceInv, ExistenceOK, TypeOK,
      WorkerTypeOK, storeVars, apiVars, InSession, Working, Cancelling,
      NoSession, NoRow
<1>. QED
  BY StepCases, <1>1, <1>2, <1>3, <1>4, <1>5, <1>6, <1>7, <1>8, <1>9, <1>10,
     <1>11, <1>12, <1>13, <1>14, <1>15, <1>16, <1>17, <1>18, <1>19, <1>20,
     <1>21, <1>22, <1>23, <1>24, <1>25, <1>26, <1>27, <1>28, <1>29, <1>30,
     <1>31, <1>32, <1>33, <1>34, <1>35, <1>36, <1>37, <1>38, <1>39, <1>40

(* There is one token per job, whoever moves it.  The steps that need an   *)
(* argument are those that pass the token on: the requeue, the retry of    *)
(* handle_failure, and the first push of a creation.                       *)
LEMMA TokenStep ==
  ASSUME TypeOK, LocalInv, ExistenceInv, TokenInv, FreshInv, Next
  PROVE  TokenInv'
<1>1. ASSUME NEW w \in Worker, DrainScan(w), UNCHANGED <<recovered, apiVars>>
      PROVE  TokenInv'
  BY <1>1, WorkerAssumption
  DEF DrainScan, Goto, TokenInv, TokenOK, Holds, Failing, storeVars
<1>2. ASSUME NEW w \in Worker, NEW k \in Job, DrainClaim(w, k),
             UNCHANGED <<recovered, apiVars>>
      PROVE  TokenInv'
  BY <1>2, WorkerAssumption
  DEF DrainClaim, remove_from_retry, Removed, Goto, TokenInv, TokenOK,
      TypeOK, StoreTypeOK, Holds, Failing
<1>3. ASSUME NEW w \in Worker, NEW k \in Job, RequeueLoad(w, k),
             UNCHANGED <<recovered, apiVars>>
      PROVE  TokenInv'
  BY <1>3, WorkerAssumption
  DEF RequeueLoad, Requeueable, Goto, TokenInv, TokenOK, TypeOK,
      WorkerTypeOK, Holds, Failing, storeVars, FreshInv, FreshOK, Working,
      WorkLabel
<1>4. ASSUME NEW w \in Worker, RequeueAdd(w), UNCHANGED <<recovered, apiVars>>
      PROVE  TokenInv'
  <2>h. PICK h \in Job : held[w] = h
    BY <1>4 DEF RequeueAdd, TypeOK, WorkerTypeOK, LocalInv, LocalOK, HeldLabel
  <2>1. Holds(w, h) /\ h \notin claimed[w]
    BY <1>4, <2>h DEF RequeueAdd, LocalInv, LocalOK, Holds
  <2>2. \A v \in Worker, j \in Job :
          /\ Holds(v, j)' => Holds(v, j) /\ ~(v = w /\ j = h)
          /\ held'[v] = j => held[v] = j
          /\ Failing(v, j)' => Failing(v, j)
    BY <1>4, <2>h, <2>1, WorkerAssumption
    DEF RequeueAdd, Goto, AfterClaim, TypeOK, WorkerTypeOK, Holds, Failing
  <2>3. ASSUME NEW j \in Job \ recovered, j # h
        PROVE  TokenOK(j)'
    BY <1>4, <2>h, <2>2, <2>3
    DEF RequeueAdd, enqueue_priority, TokenInv, TokenOK
  <2>4. ASSUME h \notin recovered
        PROVE  TokenOK(h)'
    <3>1. \A v \in Worker : ~Holds(v, h)' /\ ~Failing(v, h)'
      BY <1>4, <2>h, <2>1, <2>2, <2>4
      DEF TokenInv, TokenOK, RequeueAdd, Failing
    <3>. QED
      BY <1>4, <2>1, <2>4, <3>1 DEF RequeueAdd, TokenInv, TokenOK
  <2>. QED
    BY <1>4, <2>3, <2>4 DEF RequeueAdd, TokenInv
<1>5. ASSUME NEW w \in Worker, NEW k \in Job, DequeuePriority(w, k),
             UNCHANGED <<recovered, apiVars>>
      PROVE  TokenInv'
  BY <1>5, WorkerAssumption
  DEF DequeuePriority, dequeue_priority, Foremost, Goto, TokenInv, TokenOK,
      Holds, Failing
<1>6. ASSUME NEW w \in Worker, DequeueNothing(w),
             UNCHANGED <<recovered, apiVars>>
      PROVE  TokenInv'
  BY <1>6, WorkerAssumption
  DEF DequeueNothing, Goto, TokenInv, TokenOK, Holds, Failing, storeVars
<1>7. ASSUME NEW w \in Worker, LoadQueued(w), UNCHANGED <<recovered, apiVars>>
      PROVE  TokenInv'
  BY <1>7, WorkerAssumption
  DEF LoadQueued, Goto, TokenInv, TokenOK, Holds, Failing, storeVars
<1>8. ASSUME NEW w \in Worker, LoadSkipped(w), UNCHANGED <<recovered, apiVars>>
      PROVE  TokenInv'
  BY <1>8, WorkerAssumption
  DEF LoadSkipped, NextRound, Leave, Goto, TokenInv, TokenOK, Holds, Failing,
      storeVars
<1>9. ASSUME NEW w \in Worker, BeginCommit(w), UNCHANGED <<recovered, apiVars>>
      PROVE  TokenInv'
  BY <1>9, WorkerAssumption
  DEF BeginCommit, Goto, TokenInv, TokenOK, Holds, Failing
<1>10. ASSUME NEW w \in Worker, ExecuteOk(w), UNCHANGED <<recovered, apiVars>>
      PROVE  TokenInv'
  BY <1>10, WorkerAssumption
  DEF ExecuteOk, Goto, TokenInv, TokenOK, Holds, Failing, storeVars
<1>11. ASSUME NEW w \in Worker, ExecuteFails(w),
              UNCHANGED <<recovered, apiVars>>
      PROVE  TokenInv'
  BY <1>11, WorkerAssumption
  DEF ExecuteFails, Goto, TokenInv, TokenOK, Holds, Failing, storeVars
<1>12. ASSUME NEW w \in Worker, FinishLoad(w), UNCHANGED <<recovered, apiVars>>
      PROVE  TokenInv'
  BY <1>12, WorkerAssumption
  DEF FinishLoad, Goto, TokenInv, TokenOK, Holds, Failing, storeVars
<1>13. ASSUME NEW w \in Worker, FinishDiscard(w),
              UNCHANGED <<recovered, apiVars>>
      PROVE  TokenInv'
  BY <1>13, WorkerAssumption
  DEF FinishDiscard, NextRound, Leave, Goto, TokenInv, TokenOK, Holds,
      Failing, storeVars
<1>14. ASSUME NEW w \in Worker, FinishCommit(w),
              UNCHANGED <<recovered, apiVars>>
      PROVE  TokenInv'
  BY <1>14, WorkerAssumption
  DEF FinishCommit, NextRound, Leave, Goto, TokenInv, TokenOK, Holds, Failing
<1>15. ASSUME NEW w \in Worker, FailLoad(w), UNCHANGED <<recovered, apiVars>>
      PROVE  TokenInv'
  BY <1>15, WorkerAssumption
  DEF FailLoad, Goto, TokenInv, TokenOK, Holds, Failing, storeVars
<1>16. ASSUME NEW w \in Worker, EnqueueRetry(w),
              UNCHANGED <<recovered, apiVars>>
      PROVE  TokenInv'
  <2>h. PICK h \in Job : held[w] = h
    BY <1>16, WriterFacts DEF EnqueueRetry, WriteLabel
  <2>1. held' = held /\ \A j \in Job : j # h => retry'[j] = retry[j]
    BY <1>16, <2>h DEF EnqueueRetry, enqueue_retry, TypeOK, StoreTypeOK
  <2>2. Holds(w, h) /\ claimed[w] = {}
    BY <1>16, <2>h DEF EnqueueRetry, Holds, LocalInv, LocalOK, ClaimLabel
  <2>3. \A v \in Worker, j \in Job :
          /\ Holds(v, j)' => Holds(v, j) /\ ~(v = w /\ j = h)
          /\ Failing(v, j)' => Failing(v, j) \/ (v = w /\ j = h)
    BY <1>16, <2>h, <2>2
    DEF EnqueueRetry, Goto, TypeOK, WorkerTypeOK, Holds, Failing
  <2>4. ASSUME NEW j \in Job \ recovered, j # h
        PROVE  TokenOK(j)'
    BY <1>16, <2>1, <2>3, <2>4 DEF EnqueueRetry, TokenInv, TokenOK
  <2>5. ASSUME h \notin recovered
        PROVE  TokenOK(h)'
    <3>1. /\ h \notin priority
          /\ \A v \in Worker : Holds(v, h) => v = w
      BY <2>2, <2>5 DEF TokenInv, TokenOK
    <3>2. \A v \in Worker : ~Failing(v, h)
      BY <1>16, <2>h, <2>5 DEF TokenInv, TokenOK, Failing, EnqueueRetry
    <3>3. \A v \in Worker : held[v] = h => v = w
      BY <3>1, <3>2 DEF Holds, Failing
    <3>. QED
      BY <1>16, <2>1, <2>3, <3>1, <3>2, <3>3 DEF EnqueueRetry, TokenOK
  <2>. QED
    BY <1>16, <2>4, <2>5 DEF TokenInv
<1>17. ASSUME NEW w \in Worker, FailCommit(w), UNCHANGED <<recovered, apiVars>>
      PROVE  TokenInv'
  BY <1>17, WorkerAssumption
  DEF FailCommit, NextRound, Leave, Goto, TokenInv, TokenOK, TypeOK,
      WorkerTypeOK, Holds, Failing
<1>18. ASSUME NEW w \in Worker, LoopError(w), UNCHANGED <<recovered, apiVars>>
      PROVE  TokenInv'
  BY <1>18, WorkerAssumption
  DEF LoopError, NextRound, Leave, Goto, TokenInv, TokenOK, TypeOK,
      WorkerTypeOK, Holds, Failing, storeVars
<1>19. ASSUME NEW w \in Worker, FinishError(w),
              UNCHANGED <<recovered, apiVars>>
      PROVE  TokenInv'
  BY <1>19, WorkerAssumption
  DEF FinishError, Goto, TokenInv, TokenOK, Holds, Failing, storeVars
<1>20. ASSUME NEW w \in Worker, BeginCommitUnacknowledged(w),
              UNCHANGED <<recovered, apiVars>>
      PROVE  TokenInv'
  BY <1>20, WorkerAssumption
  DEF BeginCommitUnacknowledged, NextRound, Leave, Goto, TokenInv, TokenOK,
      Holds, Failing
<1>21. ASSUME NEW w \in Worker, FinishCommitUnacknowledged(w),
              UNCHANGED <<recovered, apiVars>>
      PROVE  TokenInv'
  BY <1>21, WorkerAssumption
  DEF FinishCommitUnacknowledged, Goto, TokenInv, TokenOK, Holds, Failing
<1>22. ASSUME NEW w \in Worker, Crash(w), UNCHANGED <<recovered, apiVars>>
      PROVE  TokenInv'
  BY <1>22, WorkerAssumption
  DEF Crash, Leave, Goto, TokenInv, TokenOK, TypeOK, WorkerTypeOK, Holds,
      Failing, storeVars
<1>23. ASSUME NEW w \in Worker, Start(w), UNCHANGED apiVars
      PROVE  TokenInv'
  BY <1>23, WorkerAssumption
  DEF Start, Goto, TokenInv, TokenOK, Holds, Failing, storeVars
<1>24. ASSUME NEW w \in Worker, RecoverySelect(w), UNCHANGED apiVars
      PROVE  TokenInv'
  BY <1>24, WorkerAssumption
  DEF RecoverySelect, Goto, TokenInv, TokenOK, Holds, Failing, storeVars
<1>25. ASSUME NEW w \in Worker, RecoveryClean(w), UNCHANGED apiVars
      PROVE  TokenInv'
  BY <1>25, WorkerAssumption
  DEF RecoveryClean, NextRound, Leave, Goto, TokenInv, TokenOK, Holds,
      Failing, storeVars
<1>26. ASSUME NEW w \in Worker, NEW k \in Job, RecoverJob(w, k),
              UNCHANGED apiVars
      PROVE  TokenInv'
  <2>1. k \in recovered
    BY <1>26 DEF RecoverJob, LocalInv, LocalOK, WriteLabel
  <2>2. \A j \in Job : j # k => retry'[j] = retry[j]
    BY <1>26 DEF RecoverJob, enqueue_retry, TypeOK, StoreTypeOK
  <2>3. \A v \in Worker, j \in Job :
          (Holds(v, j)' <=> Holds(v, j)) /\ (Failing(v, j)' <=> Failing(v, j))
    BY <1>26 DEF RecoverJob, Goto, TypeOK, WorkerTypeOK, Holds, Failing
  <2>. QED
    BY <1>26, <2>1, <2>2, <2>3 DEF RecoverJob, TokenInv, TokenOK
<1>27. ASSUME NEW w \in Worker, RecoveryCommit(w), UNCHANGED apiVars
      PROVE  TokenInv'
  BY <1>27, WorkerAssumption
  DEF RecoveryCommit, NextRound, Leave, Goto, TokenInv, TokenOK, Holds,
      Failing
<1>28. ASSUME NEW w \in Worker, RecoveryError(w), UNCHANGED apiVars
      PROVE  TokenInv'
  BY <1>28, WorkerAssumption
  DEF RecoveryError, Leave, Goto, TokenInv, TokenOK, TypeOK, WorkerTypeOK,
      Holds, Failing, storeVars
<1>29. ASSUME NEW k \in Job, CreateFlush(k),
              UNCHANGED <<workerVars, faults, recovered>>
      PROVE  TokenInv'
  BY <1>29, WorkerAssumption
  DEF CreateFlush, TokenInv, TokenOK, Holds, Failing, storeVars, workerVars
<1>30. ASSUME NEW k \in Job, CreateEnqueue(k),
              UNCHANGED <<workerVars, faults, recovered>>
      PROVE  TokenInv'
  BY <1>30, WorkerAssumption
  DEF CreateEnqueue, enqueue_priority, TokenInv, TokenOK, Holds, Failing,
      workerVars, ExistenceInv, ExistenceOK
<1>31. ASSUME NEW k \in Job, CreateCommit(k),
              UNCHANGED <<workerVars, faults, recovered>>
      PROVE  TokenInv'
  BY <1>31, WorkerAssumption
  DEF CreateCommit, TokenInv, TokenOK, Holds, Failing, workerVars
<1>32. ASSUME NEW c \in Canceller, CancelLoad(c),
              UNCHANGED <<workerVars, faults, recovered>>
      PROVE  TokenInv'
  BY <1>32, WorkerAssumption
  DEF CancelLoad, TokenInv, TokenOK, Holds, Failing, storeVars, workerVars
<1>33. ASSUME NEW c \in Canceller, CancelRemovePriority(c),
              UNCHANGED <<workerVars, faults, recovered>>
      PROVE  TokenInv'
  BY <1>33, WorkerAssumption
  DEF CancelRemovePriority, remove_from_priority, TokenInv, TokenOK, Holds,
      Failing, workerVars
<1>34. ASSUME NEW c \in Canceller, CancelRemoveRetry(c),
              UNCHANGED <<workerVars, faults, recovered>>
      PROVE  TokenInv'
  BY <1>34, WorkerAssumption
  DEF CancelRemoveRetry, remove_from_retry, TokenInv, TokenOK, Holds,
      Failing, workerVars
<1>35. ASSUME NEW c \in Canceller, CancelCommit(c),
              UNCHANGED <<workerVars, faults, recovered>>
      PROVE  TokenInv'
  BY <1>35, WorkerAssumption
  DEF CancelCommit, TokenInv, TokenOK, Holds, Failing, workerVars
<1>36. ASSUME NEW k \in Job, CreateAbort(k),
              InjectFault, UNCHANGED <<workerVars, recovered>>
      PROVE  TokenInv'
  BY <1>36, WorkerAssumption
  DEF CreateAbort, TokenInv, TokenOK, Holds, Failing, storeVars, workerVars
<1>37. ASSUME NEW c \in Canceller, CancelAbort(c),
              InjectFault, UNCHANGED <<workerVars, recovered>>
      PROVE  TokenInv'
  BY <1>37, WorkerAssumption
  DEF CancelAbort, TokenInv, TokenOK, Holds, Failing, storeVars, workerVars
<1>38. ASSUME NEW k \in Job, Mature(k)
      PROVE  TokenInv'
  BY <1>38, WorkerAssumption
  DEF Mature, TokenInv, TokenOK, Holds, Failing, workerVars
<1>39. ASSUME NEW k \in Job, Age(k)
      PROVE  TokenInv'
  BY <1>39, WorkerAssumption
  DEF Age, TokenInv, TokenOK, Holds, Failing, workerVars
<1>40. ASSUME NEW w \in Worker, NoExecutor(w), UNCHANGED <<recovered, apiVars>>
      PROVE  TokenInv'
  BY <1>40, WorkerAssumption
  DEF NoExecutor, NextRound, Leave, Goto, TokenInv, TokenOK, TypeOK,
      WorkerTypeOK, Holds, Failing, storeVars
<1>. QED
  BY StepCases, <1>1, <1>2, <1>3, <1>4, <1>5, <1>6, <1>7, <1>8, <1>9, <1>10,
     <1>11, <1>12, <1>13, <1>14, <1>15, <1>16, <1>17, <1>18, <1>19, <1>20,
     <1>21, <1>22, <1>23, <1>24, <1>25, <1>26, <1>27, <1>28, <1>29, <1>30,
     <1>31, <1>32, <1>33, <1>34, <1>35, <1>36, <1>37, <1>38, <1>39, <1>40

(* A session finds at its commit the row it loaded, but for a cancellation *)
(* or an ageing: the other sessions that write to the row would have to    *)
(* hold its token.                                                         *)
LEMMA FreshStep ==
  ASSUME TypeOK, TypeOK', LocalInv, LocalInv', ExistenceInv, TokenInv, FreshInv, RetryBudget, Next
  PROVE  FreshInv'
<1>1. ASSUME NEW w \in Worker, DrainScan(w), UNCHANGED <<recovered, apiVars>>
      PROVE  FreshInv'
  BY <1>1, WorkerAssumption
  DEF DrainScan, Goto, FreshInv, FreshOK, Working, WorkLabel, WriteLabel,
      storeVars
<1>2. ASSUME NEW w \in Worker, NEW k \in Job, DrainClaim(w, k),
             UNCHANGED <<recovered, apiVars>>
      PROVE  FreshInv'
  BY <1>2, WorkerAssumption
  DEF DrainClaim, Goto, AfterClaim, FreshInv, FreshOK, Working, WorkLabel,
      WriteLabel
<1>3. ASSUME NEW w \in Worker, NEW k \in Job, RequeueLoad(w, k),
             UNCHANGED <<recovered, apiVars>>
      PROVE  FreshInv'
  BY <1>3, WorkerAssumption
  DEF RequeueLoad, Goto, AfterClaim, FreshInv, FreshOK, TypeOK, WorkerTypeOK,
      Working, WorkLabel, WriteLabel, storeVars
<1>4. ASSUME NEW w \in Worker, RequeueAdd(w), UNCHANGED <<recovered, apiVars>>
      PROVE  FreshInv'
  BY <1>4, WorkerAssumption
  DEF RequeueAdd, Goto, FreshInv, FreshOK, TypeOK, WorkerTypeOK, Working
<1>5. ASSUME NEW w \in Worker, NEW k \in Job, DequeuePriority(w, k),
             UNCHANGED <<recovered, apiVars>>
      PROVE  FreshInv'
  BY <1>5, WorkerAssumption
  DEF DequeuePriority, Goto, FreshInv, FreshOK, Working, WorkLabel,
      WriteLabel
<1>6. ASSUME NEW w \in Worker, DequeueNothing(w),
             UNCHANGED <<recovered, apiVars>>
      PROVE  FreshInv'
  BY <1>6, WorkerAssumption
  DEF DequeueNothing, Goto, FreshInv, FreshOK, Working, WorkLabel,
      WriteLabel, storeVars
<1>7. ASSUME NEW w \in Worker, LoadQueued(w), UNCHANGED <<recovered, apiVars>>
      PROVE  FreshInv'
  BY <1>7, WorkerAssumption
  DEF LoadQueued, Startable, Load, Goto, FreshInv, FreshOK, Agree, TypeOK,
      WorkerTypeOK, Working, WorkLabel, storeVars, RetryBudget
<1>8. ASSUME NEW w \in Worker, LoadSkipped(w), UNCHANGED <<recovered, apiVars>>
      PROVE  FreshInv'
  BY <1>8, WorkerAssumption
  DEF LoadSkipped, NextRound, Leave, Goto, FreshInv, FreshOK, TypeOK,
      WorkerTypeOK, Working, storeVars
<1>9. ASSUME NEW w \in Worker, BeginCommit(w), UNCHANGED <<recovered, apiVars>>
      PROVE  FreshInv'
  <2>h. PICK h \in Job : held[w] = h /\ pc[w] \in WriteLabel
    BY <1>9, WriterFacts DEF BeginCommit, WriteLabel
  <2>1. \A j \in Job : j # h => db'[j] = db[j]
    BY <1>9, <2>h, WriteKeepsRows DEF BeginCommit
  <2>2. /\ \A v \in Worker : v # w =>
             pc'[v] = pc[v] /\ held'[v] = held[v] /\ session'[v] = session[v]
        /\ pc'[w] \notin WriteLabel /\ held'[w] \in {h, NoJob}
    BY <1>9, <2>h DEF BeginCommit, Goto, TypeOK, WorkerTypeOK, WriteLabel
  <2>3. ASSUME NEW j \in Job \ recovered
        PROVE  Working(w, j)' => j = h /\ db'[h].status # "queued"
    <3>1. db'[h].status = "processing"
      BY <1>9, <2>h, WriterFacts, ProcessingEffect
      DEF BeginCommit, WriteProcessing, WriteLabel, NetChange, LocalInv,
          LocalOK, TypeOK, StoreTypeOK
    <3>. QED
      BY <1>9, <2>h, <3>1, WorkerAssumption
      DEF BeginCommit, Goto, TypeOK, WorkerTypeOK, Working, WorkLabel
  <2>4. ASSUME NEW j \in Job \ recovered, NEW v \in Worker
        PROVE  FreshOK(v, j)'
    <3>1. CASE v = w
      BY <2>2, <2>3, <3>1 DEF FreshOK, Working, WriteLabel
    <3>2. CASE v # w /\ j = h
      BY <2>h, <2>2, <3>2, SoleHolder DEF FreshOK, Working
    <3>3. CASE v # w /\ j # h
      BY <2>1, <2>2, <3>3 DEF FreshInv, FreshOK, Agree, Working
    <3>. QED BY <3>1, <3>2, <3>3
  <2>. QED
    BY <1>9, <2>4 DEF BeginCommit, FreshInv
<1>10. ASSUME NEW w \in Worker, ExecuteOk(w), UNCHANGED <<recovered, apiVars>>
      PROVE  FreshInv'
  BY <1>10, WorkerAssumption
  DEF ExecuteOk, Goto, FreshInv, FreshOK, Working, WorkLabel, WriteLabel,
      storeVars
<1>11. ASSUME NEW w \in Worker, ExecuteFails(w),
              UNCHANGED <<recovered, apiVars>>
      PROVE  FreshInv'
  BY <1>11, WorkerAssumption
  DEF ExecuteFails, Goto, FreshInv, FreshOK, Working, WorkLabel, WriteLabel,
      storeVars
<1>12. ASSUME NEW w \in Worker, FinishLoad(w), UNCHANGED <<recovered, apiVars>>
      PROVE  FreshInv'
  BY <1>12, WorkerAssumption
  DEF FinishLoad, Load, Goto, FreshInv, FreshOK, Agree, TypeOK, WorkerTypeOK,
      Working, WorkLabel, storeVars
<1>13. ASSUME NEW w \in Worker, FinishDiscard(w),
              UNCHANGED <<recovered, apiVars>>
      PROVE  FreshInv'
  BY <1>13, WorkerAssumption
  DEF FinishDiscard, NextRound, Leave, Goto, FreshInv, FreshOK, TypeOK,
      WorkerTypeOK, Working, storeVars
<1>14. ASSUME NEW w \in Worker, FinishCommit(w),
              UNCHANGED <<recovered, apiVars>>
      PROVE  FreshInv'
  <2>h. PICK h \in Job : held[w] = h /\ pc[w] \in WriteLabel
    BY <1>14, WriterFacts DEF FinishCommit, WriteLabel
  <2>1. \A j \in Job : j # h => db'[j] = db[j]
    BY <1>14, <2>h, WriteKeepsRows DEF FinishCommit
  <2>2. /\ \A v \in Worker : v # w =>
             pc'[v] = pc[v] /\ held'[v] = held[v] /\ session'[v] = session[v]
        /\ pc'[w] \notin WriteLabel /\ held'[w] \in {h, NoJob}
    BY <1>14, <2>h
    DEF FinishCommit, NextRound, Leave, Goto, TypeOK, WorkerTypeOK,
        WriteLabel
  <2>3. ASSUME NEW j \in Job \ recovered
        PROVE  Working(w, j)' => j = h /\ db'[h].status # "queued"
    BY <1>14, <2>h, WorkerAssumption
    DEF FinishCommit, NextRound, Leave, TypeOK, WorkerTypeOK, Working
  <2>4. ASSUME NEW j \in Job \ recovered, NEW v \in Worker
        PROVE  FreshOK(v, j)'
    <3>1. CASE v = w
      BY <2>2, <2>3, <3>1 DEF FreshOK, Working, WriteLabel
    <3>2. CASE v # w /\ j = h
      BY <2>h, <2>2, <3>2, SoleHolder DEF FreshOK, Working
    <3>3. CASE v # w /\ j # h
      BY <2>1, <2>2, <3>3 DEF FreshInv, FreshOK, Agree, Working
    <3>. QED BY <3>1, <3>2, <3>3
  <2>. QED
    BY <1>14, <2>4 DEF FinishCommit, FreshInv
<1>15. ASSUME NEW w \in Worker, FailLoad(w), UNCHANGED <<recovered, apiVars>>
      PROVE  FreshInv'
  BY <1>15, WorkerAssumption
  DEF FailLoad, Load, Goto, AfterFailLoad, FreshInv, FreshOK, Agree, TypeOK,
      WorkerTypeOK, Working, WorkLabel, storeVars
<1>16. ASSUME NEW w \in Worker, EnqueueRetry(w),
              UNCHANGED <<recovered, apiVars>>
      PROVE  FreshInv'
  BY <1>16, WorkerAssumption
  DEF EnqueueRetry, Goto, FreshInv, FreshOK, Working, WorkLabel, WriteLabel
<1>17. ASSUME NEW w \in Worker, FailCommit(w), UNCHANGED <<recovered, apiVars>>
      PROVE  FreshInv'
  <2>h. PICK h \in Job : held[w] = h /\ pc[w] \in WriteLabel
    BY <1>17, WriterFacts DEF FailCommit, WriteLabel
  <2>1. \A j \in Job : j # h => db'[j] = db[j]
    BY <1>17, <2>h, WriteKeepsRows DEF FailCommit
  <2>2. /\ \A v \in Worker : v # w =>
             pc'[v] = pc[v] /\ held'[v] = held[v] /\ session'[v] = session[v]
        /\ pc'[w] \notin WriteLabel /\ held'[w] \in {h, NoJob}
    BY <1>17, <2>h
    DEF FailCommit, NextRound, Leave, Goto, TypeOK, WorkerTypeOK,
        WriteLabel
  <2>3. ASSUME NEW j \in Job \ recovered
        PROVE  Working(w, j)' => j = h /\ db'[h].status # "queued"
    BY <1>17, <2>h, WorkerAssumption
    DEF FailCommit, NextRound, Leave, TypeOK, WorkerTypeOK, Working
  <2>4. ASSUME NEW j \in Job \ recovered, NEW v \in Worker
        PROVE  FreshOK(v, j)'
    <3>1. CASE v = w
      BY <2>2, <2>3, <3>1 DEF FreshOK, Working, WriteLabel
    <3>2. CASE v # w /\ j = h
      BY <2>h, <2>2, <3>2, SoleHolder DEF FreshOK, Working
    <3>3. CASE v # w /\ j # h
      BY <2>1, <2>2, <3>3 DEF FreshInv, FreshOK, Agree, Working
    <3>. QED BY <3>1, <3>2, <3>3
  <2>. QED
    BY <1>17, <2>4 DEF FailCommit, FreshInv
<1>18. ASSUME NEW w \in Worker, LoopError(w), UNCHANGED <<recovered, apiVars>>
      PROVE  FreshInv'
  BY <1>18, WorkerAssumption
  DEF LoopError, NextRound, Leave, Goto, FreshInv, FreshOK, TypeOK,
      WorkerTypeOK, Working, storeVars
<1>19. ASSUME NEW w \in Worker, FinishError(w),
              UNCHANGED <<recovered, apiVars>>
      PROVE  FreshInv'
  BY <1>19, WorkerAssumption
  DEF FinishError, Goto, FreshInv, FreshOK, TypeOK, WorkerTypeOK, Working,
      WorkLabel, WriteLabel, storeVars
<1>20. ASSUME NEW w \in Worker, BeginCommitUnacknowledged(w),
              UNCHANGED <<recovered, apiVars>>
      PROVE  FreshInv'
  <2>h. PICK h \in Job : held[w] = h /\ pc[w] \in WriteLabel
    BY <1>20, WriterFacts DEF BeginCommitUnacknowledged, WriteLabel
  <2>1. \A j \in Job : j # h => db'[j] = db[j]
    BY <1>20, <2>h, WriteKeepsRows DEF BeginCommitUnacknowledged
  <2>2. /\ \A v \in Worker : v # w =>
             pc'[v] = pc[v] /\ held'[v] = held[v] /\ session'[v] = session[v]
        /\ pc'[w] \notin WriteLabel /\ held'[w] \in {h, NoJob}
    BY <1>20, <2>h
    DEF BeginCommitUnacknowledged, NextRound, Leave, Goto, TypeOK,
        WorkerTypeOK, WriteLabel
  <2>3. ASSUME NEW j \in Job \ recovered
        PROVE  Working(w, j)' => j = h /\ db'[h].status # "queued"
    BY <1>20, <2>h, WorkerAssumption
    DEF BeginCommitUnacknowledged, NextRound, Leave, TypeOK, WorkerTypeOK,
        Working
  <2>4. ASSUME NEW j \in Job \ recovered, NEW v \in Worker
        PROVE  FreshOK(v, j)'
    <3>1. CASE v = w
      BY <2>2, <2>3, <3>1 DEF FreshOK, Working, WriteLabel
    <3>2. CASE v # w /\ j = h
      BY <2>h, <2>2, <3>2, SoleHolder DEF FreshOK, Working
    <3>3. CASE v # w /\ j # h
      BY <2>1, <2>2, <3>3 DEF FreshInv, FreshOK, Agree, Working
    <3>. QED BY <3>1, <3>2, <3>3
  <2>. QED
    BY <1>20, <2>4 DEF BeginCommitUnacknowledged, FreshInv
<1>21. ASSUME NEW w \in Worker, FinishCommitUnacknowledged(w),
              UNCHANGED <<recovered, apiVars>>
      PROVE  FreshInv'
  <2>h. PICK h \in Job : held[w] = h /\ pc[w] \in WriteLabel
    BY <1>21, WriterFacts DEF FinishCommitUnacknowledged, WriteLabel
  <2>1. \A j \in Job : j # h => db'[j] = db[j]
    BY <1>21, <2>h, WriteKeepsRows DEF FinishCommitUnacknowledged
  <2>2. /\ \A v \in Worker : v # w =>
             pc'[v] = pc[v] /\ held'[v] = held[v] /\ session'[v] = session[v]
        /\ pc'[w] \notin WriteLabel /\ held'[w] \in {h, NoJob}
    BY <1>21, <2>h
    DEF FinishCommitUnacknowledged, InjectFault, Goto, TypeOK,
        WorkerTypeOK, WriteLabel
  <2>3. ASSUME NEW j \in Job \ recovered
        PROVE  Working(w, j)' => j = h /\ db'[h].status # "queued"
    <3>1. h \notin recovered => db'[h].status # "queued"
      BY <1>21, <2>h, WriterFacts, CompletedEffect
      DEF FinishCommitUnacknowledged, WriteCompleted, NetChange,
          FreshInv, FreshOK, Working, WorkLabel
    <3>. QED
      BY <1>21, <2>h, <3>1, WorkerAssumption
      DEF FinishCommitUnacknowledged, InjectFault, Goto, TypeOK,
          WorkerTypeOK, Working, WorkLabel
  <2>4. ASSUME NEW j \in Job \ recovered, NEW v \in Worker
        PROVE  FreshOK(v, j)'
    <3>1. CASE v = w
      BY <2>2, <2>3, <3>1 DEF FreshOK, Working, WriteLabel
    <3>2. CASE v # w /\ j = h
      BY <2>h, <2>2, <3>2, SoleHolder DEF FreshOK, Working
    <3>3. CASE v # w /\ j # h
      BY <2>1, <2>2, <3>3 DEF FreshInv, FreshOK, Agree, Working
    <3>. QED BY <3>1, <3>2, <3>3
  <2>. QED
    BY <1>21, <2>4 DEF FinishCommitUnacknowledged, FreshInv
<1>22. ASSUME NEW w \in Worker, Crash(w), UNCHANGED <<recovered, apiVars>>
      PROVE  FreshInv'
  BY <1>22, WorkerAssumption
  DEF Crash, Leave, Goto, FreshInv, FreshOK, TypeOK, WorkerTypeOK, Working,
      storeVars
<1>23. ASSUME NEW w \in Worker, Start(w), UNCHANGED apiVars
      PROVE  FreshInv'
  BY <1>23, WorkerAssumption
  DEF Start, Goto, FreshInv, FreshOK, Working, WorkLabel, WriteLabel,
      storeVars
<1>24. ASSUME NEW w \in Worker, RecoverySelect(w), UNCHANGED apiVars
      PROVE  FreshInv'
  BY <1>24, WorkerAssumption
  DEF RecoverySelect, Goto, FreshInv, FreshOK, Working, WorkLabel,
      WriteLabel, storeVars
<1>25. ASSUME NEW w \in Worker, RecoveryClean(w), UNCHANGED apiVars
      PROVE  FreshInv'
  BY <1>25, WorkerAssumption
  DEF RecoveryClean, NextRound, Leave, Goto, FreshInv, FreshOK, TypeOK,
      WorkerTypeOK, Working, storeVars
<1>26. ASSUME NEW w \in Worker, NEW k \in Job, RecoverJob(w, k),
              UNCHANGED apiVars
      PROVE  FreshInv'
  BY <1>26, WorkerAssumption
  DEF RecoverJob, Goto, FreshInv, FreshOK, Working, WorkLabel, WriteLabel
<1>27. ASSUME NEW w \in Worker, RecoveryCommit(w), UNCHANGED apiVars
      PROVE  FreshInv'
  <2>1. \A j \in Job \ recovered : db'[j] = db[j]
    BY <1>27 DEF RecoveryCommit, LocalInv, LocalOK, WriteLabel
  <2>2. \A v \in Worker :
          \/ pc'[v] = pc[v] /\ held'[v] = held[v] /\ session'[v] = session[v]
          \/ pc'[v] = "drain"
    BY <1>27 DEF RecoveryCommit, NextRound, Leave, Goto, TypeOK, WorkerTypeOK
  <2>. QED
    BY <1>27, <2>1, <2>2
    DEF RecoveryCommit, FreshInv, FreshOK, Agree, Working, WorkLabel,
        WriteLabel
<1>28. ASSUME NEW w \in Worker, RecoveryError(w), UNCHANGED apiVars
      PROVE  FreshInv'
  BY <1>28, WorkerAssumption
  DEF RecoveryError, Leave, Goto, FreshInv, FreshOK, TypeOK, WorkerTypeOK,
      Working, storeVars
<1>29. ASSUME NEW k \in Job, CreateFlush(k),
              UNCHANGED <<workerVars, faults, recovered>>
      PROVE  FreshInv'
  BY <1>29, WorkerAssumption
  DEF CreateFlush, FreshInv, FreshOK, Working, storeVars, workerVars
<1>30. ASSUME NEW k \in Job, CreateEnqueue(k),
              UNCHANGED <<workerVars, faults, recovered>>
      PROVE  FreshInv'
  BY <1>30, WorkerAssumption
  DEF CreateEnqueue, FreshInv, FreshOK, Working, workerVars
<1>31. ASSUME NEW k \in Job, CreateCommit(k),
              UNCHANGED <<workerVars, faults, recovered>>
      PROVE  FreshInv'
  <2>1. db[k].status = "absent" /\ \A j \in Job : j # k => db'[j] = db[j]
    BY <1>31 DEF CreateCommit, ExistenceInv, ExistenceOK, TypeOK, StoreTypeOK
  <2>2. \A v \in Worker : ~Working(v, k) /\ ~(held[v] = k /\ pc[v] \in WriteLabel)
    BY <2>1, WriterFacts DEF ExistenceInv, ExistenceOK
  <2>3. ASSUME NEW j \in Job \ recovered, NEW v \in Worker
        PROVE  FreshOK(v, j)'
    <3>1. CASE j = k
      BY <1>31, <2>2, <3>1 DEF workerVars, FreshOK, Working, WriteLabel
    <3>2. CASE j # k
      BY <1>31, <2>1, <3>2 DEF workerVars, FreshInv, FreshOK, Agree, Working
    <3>. QED BY <3>1, <3>2
  <2>. QED
    BY <1>31, <2>3 DEF FreshInv
<1>32. ASSUME NEW c \in Canceller, CancelLoad(c),
              UNCHANGED <<workerVars, faults, recovered>>
      PROVE  FreshInv'
  BY <1>32, WorkerAssumption
  DEF CancelLoad, FreshInv, FreshOK, Working, storeVars, workerVars
<1>33. ASSUME NEW c \in Canceller, CancelRemovePriority(c),
              UNCHANGED <<workerVars, faults, recovered>>
      PROVE  FreshInv'
  BY <1>33, WorkerAssumption
  DEF CancelRemovePriority, FreshInv, FreshOK, Working, workerVars
<1>34. ASSUME NEW c \in Canceller, CancelRemoveRetry(c),
              UNCHANGED <<workerVars, faults, recovered>>
      PROVE  FreshInv'
  BY <1>34, WorkerAssumption
  DEF CancelRemoveRetry, FreshInv, FreshOK, Working, workerVars
<1>35. ASSUME NEW c \in Canceller, CancelCommit(c),
              UNCHANGED <<workerVars, faults, recovered>>
      PROVE  FreshInv'
  BY <1>35, WorkerAssumption, CancelledEffect
  DEF CancelCommit, FreshInv, FreshOK, Agree, TypeOK, StoreTypeOK, Working,
      workerVars
<1>36. ASSUME NEW k \in Job, CreateAbort(k),
              InjectFault, UNCHANGED <<workerVars, recovered>>
      PROVE  FreshInv'
  BY <1>36, WorkerAssumption
  DEF CreateAbort, FreshInv, FreshOK, Working, storeVars, workerVars
<1>37. ASSUME NEW c \in Canceller, CancelAbort(c),
              InjectFault, UNCHANGED <<workerVars, recovered>>
      PROVE  FreshInv'
  BY <1>37, WorkerAssumption
  DEF CancelAbort, FreshInv, FreshOK, Working, storeVars, workerVars
<1>38. ASSUME NEW k \in Job, Mature(k)
      PROVE  FreshInv'
  BY <1>38, WorkerAssumption DEF Mature, FreshInv, FreshOK, Working, workerVars
<1>39. ASSUME NEW k \in Job, Age(k)
      PROVE  FreshInv'
  BY <1>39, WorkerAssumption
  DEF Age, FreshInv, FreshOK, Agree, Working, workerVars
<1>40. ASSUME NEW w \in Worker, NoExecutor(w), UNCHANGED <<recovered, apiVars>>
      PROVE  FreshInv'
  BY <1>40, WorkerAssumption
  DEF NoExecutor, NextRound, Leave, Goto, FreshInv, FreshOK, TypeOK,
      WorkerTypeOK, Working, storeVars
<1>. QED
  BY StepCases, <1>1, <1>2, <1>3, <1>4, <1>5, <1>6, <1>7, <1>8, <1>9, <1>10,
     <1>11, <1>12, <1>13, <1>14, <1>15, <1>16, <1>17, <1>18, <1>19, <1>20,
     <1>21, <1>22, <1>23, <1>24, <1>25, <1>26, <1>27, <1>28, <1>29, <1>30,
     <1>31, <1>32, <1>33, <1>34, <1>35, <1>36, <1>37, <1>38, <1>39, <1>40

-----------------------------------------------------------------------------
(* The conjuncts that speak of rows.                                       *)

(* Every way a step can change the row of a job recovery has not selected: *)
(* the session of the one worker that has the job in hand, which finds the *)
(* row as it loaded it but for a cancellation; a cancellation; the insert; *)
(* and the passage of time.                                                *)
RowWrite(j) ==
  \E w \in Worker :
    /\ Agree(db[j], session[w][j])
    /\ db[j].status # "absent"
    /\ session[w][j] \in Row
    /\ \/ /\ session[w][j].status = "queued"
          /\ session[w][j].attempts < MaxAttempts[j]
          /\ db'[j] = MarkProcessing(db[j], session[w][j])
       \/ db'[j] = MarkCompleted(db[j], session[w][j])
       \/ db'[j] = MarkFailure(db[j], session[w][j], MaxAttempts[j])

(* A commit of the loop either spares the row of j or is one of the writes *)
(* above.                                                                  *)
LEMMA WriteIsRowWrite ==
  ASSUME IInv, NEW w \in Worker, pc[w] \in WriteLabel,
         \/ pc[w] = "begin" /\ WriteProcessing(w)
         \/ WriteCompleted(w)
         \/ FailCommit(w),
         NEW j \in Job \ recovered
  PROVE  db'[j] = db[j] \/ RowWrite(j)
<1>1. CASE j # held[w]
  BY <1>1, WriteKeepsRows DEF IInv
<1>2. CASE j = held[w]
  <2>1. /\ session[w][j] \in Row /\ Loaded(w) = session[w][j]
        /\ db[j].status # "absent"
    BY <1>2, WriterFacts DEF IInv, ExistenceInv, ExistenceOK
  <2>2. /\ Agree(db[j], session[w][j])
        /\ pc[w] = "begin" => /\ session[w][j].status = "queued"
                              /\ session[w][j].attempts < MaxAttempts[j]
    BY <1>2, <2>1 DEF IInv, FreshInv, FreshOK, LocalInv, LocalOK
  <2>3. CASE pc[w] = "begin" /\ WriteProcessing(w)
    <3>1. db'[j] = MarkProcessing(db[j], session[w][j])
      BY <1>2, <2>1, <2>3 DEF WriteProcessing, IInv, TypeOK, StoreTypeOK
    <3>. QED BY <2>1, <2>2, <2>3, <3>1 DEF RowWrite
  <2>4. CASE WriteCompleted(w)
    <3>1. db'[j] = MarkCompleted(db[j], session[w][j])
      BY <1>2, <2>1, <2>4 DEF WriteCompleted, IInv, TypeOK, StoreTypeOK
    <3>. QED BY <2>1, <2>2, <3>1 DEF RowWrite
  <2>5. CASE FailCommit(w)
    <3>1. db'[j] = MarkFailure(db[j], session[w][j], MaxAttempts[j])
      BY <1>2, <2>1, <2>5 DEF FailCommit, IInv, TypeOK, StoreTypeOK
    <3>. QED BY <2>1, <2>2, <3>1 DEF RowWrite
  <2>. QED BY <2>3, <2>4, <2>5
<1>. QED BY <1>1, <1>2

(* How a step changes the row of a job that recovery has not selected.     *)
LEMMA RowSteps ==
  ASSUME IInv, Next, NEW j \in Job \ recovered
  PROVE  \/ db'[j] = db[j]
         \/ RowWrite(j)
         \/ db[j].status # "absent" /\ db'[j] = MarkCancelled(db[j])
         \/ db[j].status = "absent" /\ db'[j] = NewRow
         \/ db'[j] = [db[j] EXCEPT !.started = "old"]
<1>1. ASSUME NEW w \in Worker, BeginCommit(w) \/ BeginCommitUnacknowledged(w)
      PROVE  db'[j] = db[j] \/ RowWrite(j)
  BY <1>1, WriteIsRowWrite
  DEF BeginCommit, BeginCommitUnacknowledged, WriteLabel
<1>2. ASSUME NEW w \in Worker, FinishCommit(w) \/ FinishCommitUnacknowledged(w)
      PROVE  db'[j] = db[j] \/ RowWrite(j)
  BY <1>2, WriteIsRowWrite
  DEF FinishCommit, FinishCommitUnacknowledged, WriteLabel
<1>3. ASSUME NEW w \in Worker, FailCommit(w)
      PROVE  db'[j] = db[j] \/ RowWrite(j)
  <2>1. pc[w] \in WriteLabel
    BY <1>3 DEF FailCommit, WriteLabel
  <2>. QED
    BY <1>3, <2>1, WriteIsRowWrite
<1>4. ASSUME NEW w \in Worker, RecoveryCommit(w)
      PROVE  db'[j] = db[j]
  BY <1>4 DEF RecoveryCommit, IInv, LocalInv, LocalOK, WriteLabel
<1>5. ASSUME NEW c \in Canceller, CancelCommit(c)
      PROVE  \/ db'[j] = db[j]
             \/ db[j].status # "absent" /\ db'[j] = MarkCancelled(db[j])
  BY <1>5
  DEF CancelCommit, Cancelling, IInv, ExistenceInv, ExistenceOK, TypeOK,
      StoreTypeOK
<1>6. ASSUME NEW k \in Job, CreateCommit(k)
      PROVE  \/ db'[j] = db[j]
             \/ db[j].status = "absent" /\ db'[j] = NewRow
  BY <1>6
  DEF CreateCommit, IInv, ExistenceInv, ExistenceOK, TypeOK, StoreTypeOK
<1>7. ASSUME NEW k \in Job, Age(k)
      PROVE  db'[j] = db[j] \/ db'[j] = [db[j] EXCEPT !.started = "old"]
  BY <1>7 DEF Age, IInv, TypeOK, StoreTypeOK
<1>8. CASE UNCHANGED db
  BY <1>8
<1>. QED
  BY StepCases, <1>1, <1>2, <1>3, <1>4, <1>5, <1>6, <1>7, <1>8
  DEF DrainScan, DrainClaim, RequeueLoad, RequeueAdd, DequeuePriority,
      DequeueNothing, LoadQueued, LoadSkipped, ExecuteOk, ExecuteFails,
      NoExecutor, FinishLoad, FinishDiscard, FailLoad, EnqueueRetry, LoopError,
      FinishError, Crash, Start, RecoverySelect, RecoveryClean, RecoverJob,
      RecoveryError, CreateFlush, CreateEnqueue, CancelLoad,
      CancelRemovePriority, CancelRemoveRetry, CreateAbort, CancelAbort,
      Mature, storeVars

(* A job that recovery has selected stays marked as such.                  *)
LEMMA RecoveredGrows ==
  ASSUME Next
  PROVE  recovered \subseteq recovered'
BY StepCases
DEF RecoverySelect, Start, RecoveryClean, RecoverJob, RecoveryCommit,
    RecoveryError, Mature, Age

(* A row written by a session that agrees with it, or in one of the other  *)
(* ways, keeps what is said of attempts and outcomes.                      *)
RowOK(j) ==
  /\ db[j].attempts = db[j].starts
  /\ db[j].attempts <= MaxAttempts[j]
  /\ db[j].status = "queued" => db[j].attempts < MaxAttempts[j]
  /\ db[j].status = "completed" =>
       db[j].completedAt = "set" /\ db[j].result = "set" /\ db[j].error = "null"
  /\ db[j].status = "failed" =>
       db[j].completedAt = "set" /\ db[j].error = "set"

(* Every step keeps what is said of attempts and outcomes.                 *)
LEMMA RowStep ==
  ASSUME IInv, Next, NEW j \in Job \ recovered
  PROVE  RowOK(j)'
<1>1. db[j] \in Row /\ MaxAttempts[j] \in Nat \ {0}
  BY JobAssumption DEF IInv, TypeOK, StoreTypeOK
<1>2. RowOK(j)
  BY DEF IInv, AttemptsMatchStarts, RetryBudget, OutcomeRecorded, RowOK
<1>3. CASE db'[j] = db[j]
  BY <1>2, <1>3 DEF RowOK
<1>4. CASE RowWrite(j)
  <2>1. PICK w \in Worker :
          /\ Agree(db[j], session[w][j])
          /\ db[j].status # "absent"
          /\ session[w][j] \in Row
          /\ \/ /\ session[w][j].status = "queued"
                /\ session[w][j].attempts < MaxAttempts[j]
                /\ db'[j] = MarkProcessing(db[j], session[w][j])
             \/ db'[j] = MarkCompleted(db[j], session[w][j])
             \/ db'[j] = MarkFailure(db[j], session[w][j], MaxAttempts[j])
    BY <1>4 DEF RowWrite
  <2>2. CASE /\ session[w][j].status = "queued"
             /\ session[w][j].attempts < MaxAttempts[j]
             /\ db'[j] = MarkProcessing(db[j], session[w][j])
    <3>1. db'[j].status = "processing"
      BY <1>1, <2>1, <2>2, ProcessingEffect DEF NetChange
    <3>2. db'[j].attempts = db'[j].starts /\ db'[j].attempts <= MaxAttempts[j]
      <4>1. /\ db'[j].attempts = session[w][j].attempts + 1
            /\ db'[j].starts = db[j].starts + 1
        BY <1>1, <2>1, <2>2, ProcessingEffect
      <4>2. /\ db[j].starts = session[w][j].attempts
            /\ session[w][j].attempts \in Nat
        BY <1>2, <2>1, RowFields DEF RowOK, Agree
      <4>. QED BY <1>1, <2>2, <4>1, <4>2
    <3>. QED BY <3>1, <3>2 DEF RowOK
  <2>3. CASE db'[j] = MarkCompleted(db[j], session[w][j])
    <3>1. db'[j].status \in {"completed", "cancelled"}
      BY <1>1, <2>1, <2>3, CompletedEffect DEF NetChange, Agree
    <3>2. /\ db'[j].attempts = db[j].attempts /\ db'[j].starts = db[j].starts
          /\ db'[j].completedAt = "set" /\ db'[j].result = "set"
          /\ db'[j].error = "null"
      BY <1>1, <2>1, <2>3, CompletedEffect DEF NetChange, Agree
    <3>. QED BY <1>2, <3>1, <3>2 DEF RowOK
  <2>4. CASE db'[j] = MarkFailure(db[j], session[w][j], MaxAttempts[j])
    <3>1. /\ db'[j].attempts = db[j].attempts /\ db'[j].starts = db[j].starts
          /\ db'[j].error = "set"
      BY <1>1, <2>1, <2>4, FailureEffect
    <3>2. CASE Exhausted(session[w][j], MaxAttempts[j])
      <4>1. /\ db'[j].status \in {"failed", "cancelled"}
            /\ db'[j].completedAt = "set"
        BY <1>1, <2>1, <2>4, <3>2, FailureEffect DEF NetChange, Agree
      <4>. QED BY <1>2, <3>1, <4>1 DEF RowOK
    <3>3. CASE ~Exhausted(session[w][j], MaxAttempts[j])
      <4>1. db'[j].status \in {"queued", "cancelled"}
        BY <1>1, <2>1, <2>4, <3>3, FailureEffect DEF NetChange, Agree
      <4>2. db[j].attempts < MaxAttempts[j]
        BY <1>1, <2>1, <3>3, RowFields DEF Exhausted, Agree
      <4>. QED BY <1>2, <3>1, <4>1, <4>2 DEF RowOK
    <3>. QED BY <3>2, <3>3
  <2>. QED BY <2>1, <2>2, <2>3, <2>4
<1>5. CASE db'[j] = MarkCancelled(db[j])
  BY <1>1, <1>2, <1>5, CancelledEffect DEF RowOK
<1>6. CASE db'[j] = NewRow
  BY <1>1, <1>6 DEF RowOK, NewRow, NoRow
<1>7. CASE db'[j] = [db[j] EXCEPT !.started = "old"]
  BY <1>1, <1>2, <1>7 DEF RowOK, Row
<1>. QED
  BY <1>3, <1>4, <1>5, <1>6, <1>7, RowSteps

-----------------------------------------------------------------------------
(* The invariant.                                                          *)

LEMMA InitIInv ==
  ASSUME Init
  PROVE  IInv
<1>. USE JobAssumption, WorkerAssumption, ApiAssumption
     DEF Init, WorkerInit, RecoveryInit, ApiInit
<1>1. TypeOK
  <2>1. StoreTypeOK
    BY NewRowIsRow DEF StoreTypeOK, RetryState
  <2>2. WorkerTypeOK
    BY NoSessionType, Labels DEF WorkerTypeOK
  <2>3. ApiTypeOK
    BY DEF ApiTypeOK, CreateLabel, CancelLabel
  <2>. QED BY <2>1, <2>2, <2>3 DEF TypeOK, RecoveryTypeOK
<1>2. LocalInv
  BY DEF LocalInv, LocalOK, HeldLabel, WorkLabel, WriteLabel, InSession,
     NoSession, NoRow
<1>3. ExistenceInv
  BY DEF ExistenceInv, ExistenceOK, NoRow, Working, InSession, NoSession,
     Cancelling
<1>4. TokenInv
  BY DEF TokenInv, TokenOK, Holds, Failing
<1>5. FreshInv
  BY DEF FreshInv, FreshOK, Working, WorkLabel, WriteLabel
<1>6. AttemptsMatchStarts /\ RetryBudget /\ OutcomeRecorded
  BY DEF AttemptsMatchStarts, RetryBudget, OutcomeRecorded, NewRow, NoRow
<1>. QED BY <1>1, <1>2, <1>3, <1>4, <1>5, <1>6 DEF IInv

(* Every step preserves the invariant.                                     *)
LEMMA NextIInv ==
  ASSUME IInv, Next
  PROVE  IInv'
<1>1. TypeOK'
  BY TypeStep DEF IInv
<1>2. LocalInv'
  BY <1>1, LocalStep DEF IInv
<1>3. ExistenceInv'
  BY <1>1, <1>2, ExistenceStep DEF IInv
<1>4. TokenInv'
  BY TokenStep DEF IInv
<1>5. FreshInv'
  BY <1>1, <1>2, FreshStep DEF IInv
<1>6. \A j \in Job \ recovered' : RowOK(j)'
  BY RowStep, RecoveredGrows
<1>7. AttemptsMatchStarts' /\ RetryBudget' /\ OutcomeRecorded'
  BY <1>6 DEF RowOK, AttemptsMatchStarts, RetryBudget, OutcomeRecorded
<1>. QED BY <1>1, <1>2, <1>3, <1>4, <1>5, <1>7 DEF IInv

(* The invariant speaks of the variables of the specification only.        *)
LEMMA StutterIInv ==
  ASSUME IInv, UNCHANGED vars
  PROVE  IInv'
<1>. USE DEF vars, storeVars, workerVars, apiVars
<1>1. TypeOK'
  BY DEF IInv, TypeOK, StoreTypeOK, WorkerTypeOK, RecoveryTypeOK, ApiTypeOK
<1>2. LocalInv'
  BY DEF IInv, LocalInv, LocalOK, InSession, Loaded
<1>3. ExistenceInv'
  BY DEF IInv, ExistenceInv, ExistenceOK, Working, InSession, Cancelling
<1>4. TokenInv'
  BY DEF IInv, TokenInv, TokenOK, Holds, Failing
<1>5. FreshInv'
  BY DEF IInv, FreshInv, FreshOK, Agree, Working
<1>6. AttemptsMatchStarts' /\ RetryBudget' /\ OutcomeRecorded'
  BY DEF IInv, AttemptsMatchStarts, RetryBudget, OutcomeRecorded
<1>. QED BY <1>1, <1>2, <1>3, <1>4, <1>5, <1>6 DEF IInv

(* The invariant is inductive: whatever fails, whoever cancels, with any   *)
(* number of workers, jobs, requests and faults.                           *)
THEOREM Invariance == Spec => []IInv
<1>1. Init => IInv
  BY InitIInv
<1>2. IInv /\ [Next]_vars => IInv'
  BY NextIInv, StutterIInv
<1>. QED
  BY <1>1, <1>2, PTL DEF Spec
=============================================================================
