------------------------ MODULE IdempotencyTheorems -------------------------
(***************************************************************************)
(* What is proved of module Idempotency, for any number of requests and    *)
(* keys: its invariants, that it implements JobRegistry, that its effect   *)
(* on the shared store is that of the creations of module Api, and that    *)
(* all this holds of requests on a connection pool of any size.            *)
(***************************************************************************)
EXTENDS ConnectionPool, FiniteSetTheorems, TLAPS

(* The initial states satisfy the inductive invariant.                     *)
LEMMA InitIInv == Init => IInv
  BY DEF Init, IInv, TypeOK, Label, Answered, UniqueKey, RowsAreAnswered,
         AnswersAreRows, ConflictsAreLost, LosersPushNothing, InFlight

(* A step of one request moves that request only, and never changes a key. *)
LEMMA StepTypeOK ==
  ASSUME TypeOK, NEW r \in Request,
         Lookup(r) \/ Continue(r) \/ Abort(r)
  PROVE  /\ TypeOK'
         /\ key' = key
         /\ \A s \in Request \ {r} : pc'[s] = pc[s] /\ answer'[s] = answer[s]
         /\ rows \subseteq rows'
         /\ pushed \subseteq pushed'
  <1> USE DEF TypeOK, Label, Answered, Goto, ReplyWith, Existing
  <1>1. CASE Lookup(r)
    BY <1>1 DEF Lookup
  <1>2. CASE Flush(r)
    BY <1>2 DEF Flush
  <1>3. CASE Enqueue(r)
    BY <1>3 DEF Enqueue
  <1>4. CASE Commit(r)
    BY <1>4 DEF Commit
  <1>5. CASE Resolve(r)
    BY <1>5 DEF Resolve
  <1>6. CASE Abort(r)
    BY <1>6 DEF Abort
  <1>7. QED
    BY <1>1, <1>2, <1>3, <1>4, <1>5, <1>6 DEF Continue

(* A request that is answered with the job s of another leaves the         *)
(* invariant intact: the first lookup and the one after a conflict.        *)
LEMMA ReplyIInv ==
  ASSUME IInv, NEW r \in Request, NEW s \in Existing(r),
         pc[r] \in {"idle", "conflict"}, ReplyWith(r, s), TypeOK'
  PROVE  IInv'
  <1> USE DEF ReplyWith, Goto, IInv, TypeOK
  <1>1. r \notin rows /\ r \notin InFlight /\ r \notin pushed
    BY DEF RowsAreAnswered, InFlight, LosersPushNothing
  <1>2. rows' = rows /\ pushed' = pushed /\ InFlight' = InFlight
    BY <1>1 DEF InFlight
  <1>3. UniqueKey'
    BY <1>2 DEF UniqueKey, SameKey
  <1>4. RowsAreAnswered'
    BY <1>1 DEF RowsAreAnswered
  <1>5. AnswersAreRows'
    BY <1>1 DEF AnswersAreRows, Existing, SameKey
  <1>6. ConflictsAreLost'
    BY DEF ConflictsAreLost, Existing, SameKey
  <1>7. LosersPushNothing'
    BY <1>1 DEF LosersPushNothing
  <1>8. QED
    BY <1>3, <1>4, <1>5, <1>6, <1>7

(* Every step preserves the inductive invariant.                           *)
LEMMA StepIInv ==
  ASSUME IInv, NEW r \in Request,
         Lookup(r) \/ Continue(r) \/ Abort(r)
  PROVE  IInv'
  <1>0. TypeOK'
    BY StepTypeOK DEF IInv
  <1>1. CASE Lookup(r)
    <2>1. CASE \E s \in Existing(r) : ReplyWith(r, s)
      BY <1>0, <1>1, <2>1, ReplyIInv DEF Lookup
    <2>2. CASE Goto(r, "insert") /\ UNCHANGED <<key, rows, pushed, answer>>
      <3>1. r \notin rows /\ r \notin pushed /\ InFlight' = InFlight
        BY <1>1, <2>2 DEF Lookup, Goto, IInv, TypeOK, RowsAreAnswered,
                          LosersPushNothing, InFlight
      <3>2. UniqueKey' /\ ConflictsAreLost'
        BY <2>2, <3>1 DEF Goto, IInv, TypeOK, UniqueKey, ConflictsAreLost,
                          Existing, SameKey
      <3>3. RowsAreAnswered' /\ AnswersAreRows' /\ LosersPushNothing'
        BY <1>1, <2>2, <3>1
           DEF Lookup, Goto, IInv, TypeOK, RowsAreAnswered, AnswersAreRows,
               LosersPushNothing, Existing, SameKey
      <3>4. QED
        BY <1>0, <3>2, <3>3 DEF IInv
    <2>3. QED
      BY <1>1, <2>1, <2>2 DEF Lookup
  <1>2. CASE Flush(r)
    <2>1. r \notin rows /\ r \notin pushed
      BY <1>2 DEF Flush, IInv, RowsAreAnswered, LosersPushNothing
    <2>2. RowsAreAnswered' /\ AnswersAreRows' /\ LosersPushNothing'
      BY <1>2, <2>1
         DEF Flush, Goto, IInv, TypeOK, RowsAreAnswered, AnswersAreRows,
             LosersPushNothing, Existing, SameKey
    <2>3. CASE Existing(r) = {}
      <3>1. InFlight' = InFlight \cup {r}
        BY <1>2, <2>3 DEF Flush, Goto, IInv, TypeOK, InFlight
      <3>2. \A s \in rows \cup InFlight : ~SameKey(r, s) /\ ~SameKey(s, r)
        BY <1>2, <2>3 DEF Flush, Blockers, Existing, SameKey
      <3>3. UniqueKey'
        BY <1>2, <3>1, <3>2 DEF Flush, IInv, UniqueKey, SameKey
      <3>4. ConflictsAreLost'
        BY <1>2, <2>3 DEF Flush, Goto, IInv, TypeOK, ConflictsAreLost,
                          Existing, SameKey
      <3>5. QED
        BY <1>0, <2>2, <3>3, <3>4 DEF IInv
    <2>4. CASE Existing(r) # {}
      <3>1. InFlight' = InFlight
        BY <1>2, <2>4 DEF Flush, Goto, IInv, TypeOK, InFlight
      <3>2. UniqueKey'
        BY <1>2, <3>1 DEF Flush, IInv, UniqueKey, SameKey
      <3>3. ConflictsAreLost'
        BY <1>2, <2>4 DEF Flush, Goto, IInv, TypeOK, ConflictsAreLost,
                          Existing, SameKey
      <3>4. QED
        BY <1>0, <2>2, <3>2, <3>3 DEF IInv
    <2>5. QED
      BY <2>3, <2>4
  <1>3. CASE Enqueue(r)
    <2>1. InFlight' = InFlight /\ r \notin rows
      BY <1>3 DEF Enqueue, Goto, IInv, TypeOK, InFlight, RowsAreAnswered
    <2>2. UniqueKey' /\ ConflictsAreLost'
      BY <1>3, <2>1 DEF Enqueue, Goto, IInv, TypeOK, UniqueKey,
                        ConflictsAreLost, Existing, SameKey
    <2>3. RowsAreAnswered' /\ AnswersAreRows' /\ LosersPushNothing'
      BY <1>3, <2>1
         DEF Enqueue, Goto, IInv, TypeOK, RowsAreAnswered, AnswersAreRows,
             LosersPushNothing, Existing, SameKey
    <2>4. QED
      BY <1>0, <2>2, <2>3 DEF IInv
  <1>4. CASE Commit(r)
    <2>1. r \in InFlight /\ r \in pushed
      BY <1>4 DEF Commit, InFlight, IInv, AnswersAreRows
    <2>2. InFlight' = InFlight \ {r} /\ rows' = rows \cup {r}
      BY <1>4 DEF Commit, Goto, IInv, TypeOK, InFlight
    <2>3. UniqueKey'
      BY <1>4, <2>1, <2>2 DEF Commit, IInv, UniqueKey, SameKey
    <2>4. ConflictsAreLost'
      BY <1>4 DEF Commit, Goto, IInv, TypeOK, ConflictsAreLost, Existing,
                  SameKey
    <2>5. RowsAreAnswered' /\ AnswersAreRows' /\ LosersPushNothing'
      BY <1>4, <2>1
         DEF Commit, Goto, IInv, TypeOK, RowsAreAnswered, AnswersAreRows,
             LosersPushNothing, Existing, SameKey
    <2>6. QED
      BY <1>0, <2>3, <2>4, <2>5 DEF IInv
  <1>5. CASE Resolve(r)
    BY <1>0, <1>5, ReplyIInv DEF Resolve
  <1>6. CASE Abort(r)
    <2>1. r \notin rows /\ InFlight' = InFlight \ {r}
      BY <1>6 DEF Abort, Answered, Goto, IInv, TypeOK, InFlight,
                  RowsAreAnswered
    <2>2. UniqueKey' /\ ConflictsAreLost'
      BY <1>6, <2>1 DEF Abort, Goto, IInv, TypeOK, UniqueKey,
                        ConflictsAreLost, Existing, SameKey
    <2>3. RowsAreAnswered' /\ AnswersAreRows' /\ LosersPushNothing'
      BY <1>6, <2>1
         DEF Abort, Answered, Goto, IInv, TypeOK, RowsAreAnswered,
             AnswersAreRows, LosersPushNothing, Existing, SameKey
    <2>4. QED
      BY <1>0, <2>2, <2>3 DEF IInv
  <1>7. QED
    BY <1>1, <1>2, <1>3, <1>4, <1>5, <1>6 DEF Continue

(* The conjunction of types, unique keys and well-founded answers is       *)
(* inductive: it holds throughout get_or_create_job.                       *)
THEOREM IdempotencyInvariance == Spec => []IInv
  <1>1. IInv /\ [Next]_vars => IInv'
    <2> SUFFICES ASSUME IInv, [Next]_vars PROVE IInv'
      OBVIOUS
    <2>1. CASE Next
      BY <2>1, StepIInv DEF Next
    <2>2. CASE UNCHANGED vars
      BY <2>2 DEF vars, IInv, TypeOK, UniqueKey, RowsAreAnswered,
                  AnswersAreRows, ConflictsAreLost, LosersPushNothing,
                  Existing, SameKey, InFlight
    <2>3. QED
      BY <2>1, <2>2
  <1>2. QED
    BY InitIInv, <1>1, PTL DEF Spec

(* One key, one job: requests answered under the same key were answered    *)
(* with the same job, with however many of them at once.                   *)
THEOREM OneJobPerKey == Spec => []SameJob
  <1>1. IInv => SameJob
    BY DEF IInv, UniqueKey, AnswersAreRows, Existing, SameKey, SameJob
  <1>2. QED
    BY IdempotencyInvariance, <1>1, PTL

(* A lost race can always be resolved: the second select of                *)
(* get_or_create_job finds exactly one row.                                *)
THEOREM LostRacesResolve == Spec => []ConflictResolvable
  <1>1. IInv => ConflictResolvable
    <2> SUFFICES ASSUME IInv, NEW r \in Request, pc[r] = "conflict"
                 PROVE  \E s \in Request : Existing(r) = {s}
      BY DEF ConflictResolvable
    <2>1. PICK s \in Existing(r) : TRUE
      BY DEF IInv, ConflictsAreLost
    <2>2. s \in Request /\ Existing(r) = {s}
      BY <2>1 DEF IInv, TypeOK, UniqueKey, Existing, SameKey
    <2>3. QED
      BY <2>2
  <1>2. QED
    BY IdempotencyInvariance, <1>1, PTL

(* The variables keep their types.                                         *)
THEOREM IdempotencyTypes == Spec => []TypeOK
  <1>1. IInv => TypeOK
    BY DEF IInv
  <1>2. QED
    BY IdempotencyInvariance, <1>1, PTL

(* A job that an answer names is in the table and has been pushed.         *)
THEOREM AnswersStand == Spec => []AnswerStands
  <1>1. IInv => AnswerStands
    BY DEF IInv, RowsAreAnswered, AnswersAreRows, Existing, AnswerStands
  <1>2. QED
    BY IdempotencyInvariance, <1>1, PTL

(* An id pushed for nothing is that of a request that failed, never that   *)
(* of one that lost the race for its key.                                  *)
THEOREM LosersAreSilent == Spec => []LosersPushNothing
  <1>1. IInv => LosersPushNothing
    BY DEF IInv
  <1>2. QED
    BY IdempotencyInvariance, <1>1, PTL

-----------------------------------------------------------------------------
(* The lookups, inserts, waits and conflicts of concurrent requests        *)
(* implement the registry whose Create is indivisible: its Create is the   *)
(* commit, its Replay either of the two selects, its Fail the abort.       *)
THEOREM ImplementsRegistry == Spec => RegistrySpec
  <1> DEFINE code == [r \in Request |->
                       IF pc[r] \in Answered THEN pc[r] ELSE "none"]
  <1>1. Init => Registry!Init
    BY DEF Init, Registry!Init, Answered
  <1>2. ASSUME IInv, NEW r \in Request,
               Lookup(r) \/ Continue(r) \/ Abort(r)
        PROVE  [Registry!Next]_Registry!registryVars
    <2> USE <1>2 DEF IInv, TypeOK, Goto
    <2>1. ASSUME NEW c \in Answered, Goto(r, c), pc[r] \notin Answered
          PROVE  /\ code[r] = "none"
                 /\ code' = [code EXCEPT ![r] = c]
      BY <2>1
    <2>2. ASSUME NEW l \in Label \ Answered, Goto(r, l),
                 pc[r] \notin Answered, UNCHANGED <<key, rows, answer>>
          PROVE  UNCHANGED Registry!registryVars
      <3>1. code' = code
        BY <2>2
      <3>2. QED
        BY <2>2, <3>1 DEF Registry!registryVars
    <2>3. ASSUME NEW s \in Existing(r), ReplyWith(r, s),
                 pc[r] \notin Answered
          PROVE  Registry!Next
      <3>1. code[r] = "none" /\ code' = [code EXCEPT ![r] = "200"]
        BY <2>1, <2>3 DEF ReplyWith, Answered
      <3>2. s \in Registry!Twins(r)
        BY <2>3 DEF Existing, SameKey, Registry!Twins
      <3>3. Registry!Replay(r)
        BY <2>3, <3>1, <3>2 DEF ReplyWith, Registry!Replay, Registry!Reply
      <3>4. QED
        BY <3>3 DEF Registry!Next
    <2>4. CASE Lookup(r)
      BY <2>4, <2>2, <2>3 DEF Lookup, Label, Answered
    <2>5. CASE Flush(r)
      BY <2>5, <2>2 DEF Flush, Label, Answered
    <2>6. CASE Enqueue(r)
      BY <2>6, <2>2 DEF Enqueue, Label, Answered
    <2>7. CASE Commit(r)
      <3>1. PICK c \in {"201", "500"} : Goto(r, c)
        BY <2>7 DEF Commit
      <3>2. code[r] = "none" /\ code' = [code EXCEPT ![r] = c]
        BY <2>7, <2>1, <3>1 DEF Commit, Answered
      <3>3. Registry!Twins(r) = {}
        BY <2>7 DEF Commit, UniqueKey, InFlight, RowsAreAnswered, SameKey,
                    Registry!Twins
      <3>4. Registry!Create(r)
        BY <2>7, <3>2, <3>3 DEF Commit, Registry!Create, Registry!Reply
      <3>5. QED
        BY <3>4 DEF Registry!Next
    <2>8. CASE Resolve(r)
      BY <2>8, <2>3 DEF Resolve, Answered
    <2>9. CASE Abort(r)
      <3>1. code[r] = "none" /\ code' = [code EXCEPT ![r] = "500"]
        BY <2>9, <2>1 DEF Abort, Answered
      <3>2. Registry!Fail(r)
        BY <2>9, <3>1 DEF Abort, Registry!Fail, Registry!Reply
      <3>3. QED
        BY <3>2 DEF Registry!Next
    <2>10. QED
      BY <2>4, <2>5, <2>6, <2>7, <2>8, <2>9 DEF Continue
  <1>3. UNCHANGED vars => UNCHANGED Registry!registryVars
    BY DEF vars, Registry!registryVars
  <1>4. IInv /\ [Next]_vars => [Registry!Next]_Registry!registryVars
    BY <1>2, <1>3 DEF Next
  <1>5. QED
    BY IdempotencyInvariance, <1>1, <1>4, PTL DEF Spec, RegistrySpec,
       Registry!Spec

(* Whatever get_or_create_job does to the store under concurrent requests  *)
(* with keys is a creation step of module Api: the push of a flushed row,  *)
(* the commit of a pushed one.                                             *)
THEOREM ImplementsCreation == Spec => CreationStep
  <1> DEFINE creating == [r \in Request |->
                           IF pc[r] = "flushed" THEN "flushed"
                           ELSE IF pc[r] = "pushed" THEN "enqueued"
                           ELSE IF r \in rows THEN "created"
                           ELSE IF pc[r] = "500" THEN "aborted" ELSE "idle"]
             db == [r \in Request |-> IF r \in rows THEN Columns!NewRow
                                                    ELSE Columns!NoRow]
  <1>1. ASSUME IInv, NEW r \in Request,
               Lookup(r) \/ Continue(r) \/ Abort(r)
        PROVE  [Creation!CreateStep(r)]_<<rows, pushed>>
    <2> USE <1>1 DEF IInv, TypeOK, Goto
    <2>1. CASE Lookup(r)
      BY <2>1 DEF Lookup, ReplyWith
    <2>2. CASE Flush(r)
      BY <2>2 DEF Flush
    <2>3. CASE Enqueue(r)
      <3>1. /\ creating[r] = "flushed"
            /\ creating' = [creating EXCEPT ![r] = "enqueued"]
            /\ db' = db
        BY <2>3 DEF Enqueue, RowsAreAnswered
      <3>2. Creation!CreateEnqueue(r)
        BY <2>3, <3>1 DEF Enqueue, Creation!CreateEnqueue,
                          Creation!CreateGoto, Creation!enqueue_priority
      <3>3. QED
        BY <3>2 DEF Creation!CreateStep
    <2>4. CASE Commit(r)
      <3>1. /\ creating[r] = "enqueued"
            /\ creating' = [creating EXCEPT ![r] = "created"]
        <4>1. PICK c \in {"201", "500"} : pc' = [pc EXCEPT ![r] = c]
          BY <2>4 DEF Commit
        <4>2. r \notin rows /\ rows' = rows \cup {r}
          BY <2>4 DEF Commit, RowsAreAnswered
        <4>3. creating[r] = "enqueued" /\ creating'[r] = "created"
          BY <2>4, <4>1, <4>2 DEF Commit
        <4>4. \A s \in Request \ {r} : creating'[s] = creating[s]
          BY <4>1, <4>2
        <4>5. QED
          BY <4>3, <4>4
      <3>2. db' = [db EXCEPT ![r] = Columns!NewRow]
        BY <2>4 DEF Commit
      <3>3. Creation!CreateCommit(r)
        BY <2>4, <3>1, <3>2 DEF Commit, Creation!CreateCommit,
             Creation!CreateGoto, Columns!NewRow, Columns!NoRow,
             Creation!NewRow, Creation!NoRow
      <3>4. QED
        BY <3>3 DEF Creation!CreateStep
    <2>5. CASE Resolve(r)
      BY <2>5 DEF Resolve, ReplyWith
    <2>6. CASE Abort(r)
      BY <2>6 DEF Abort
    <2>7. QED
      BY <2>1, <2>2, <2>3, <2>4, <2>5, <2>6 DEF Continue
  <1>2. IInv /\ [Next]_vars
          => [\E r \in Request : Creation!CreateStep(r)]_<<rows, pushed>>
    BY <1>1 DEF Next, vars
  <1>3. QED
    BY IdempotencyInvariance, <1>2, PTL DEF Spec, CreationStep

-----------------------------------------------------------------------------
(* The requests on the connection pool.                                    *)

(* A transaction that has inserted keeps its connection to its end, and a  *)
(* session that was rolled back has none.                                  *)
PoolInv ==
  /\ connected \subseteq Request
  /\ IsFiniteSet(connected) /\ Cardinality(connected) <= PoolSize
  /\ InFlight \subseteq connected
  /\ \A r \in connected : pc[r] # "conflict"

(* Taking a connection keeps the pool within its size.                     *)
LEMMA ConnectFits ==
  ASSUME IsFiniteSet(connected), Cardinality(connected) <= PoolSize,
         NEW r, Connect(r)
  PROVE  /\ connected' = connected \cup {r}
         /\ IsFiniteSet(connected') /\ Cardinality(connected') <= PoolSize
<1>1. Cardinality(connected) \in Nat /\ PoolSize \in Nat
  BY FS_CardinalityType, PoolAssumption
<1>2. CASE r \in connected /\ UNCHANGED connected
  BY <1>2
<1>3. CASE /\ Cardinality(connected) < PoolSize
           /\ connected' = connected \cup {r}
  <2>1. /\ IsFiniteSet(connected \cup {r})
        /\ Cardinality(connected \cup {r}) <= Cardinality(connected) + 1
    BY <1>1, FS_AddElement
  <2>2. Cardinality(connected \cup {r}) \in Nat
    BY <2>1, FS_CardinalityType
  <2> QED
    BY <1>1, <1>3, <2>1, <2>2
<1> QED
  BY <1>2, <1>3 DEF Connect

(* Giving a connection back does so too.                                   *)
LEMMA ReleaseFits ==
  ASSUME IsFiniteSet(connected), Cardinality(connected) <= PoolSize,
         NEW r, connected' = connected \ {r}
  PROVE  IsFiniteSet(connected') /\ Cardinality(connected') <= PoolSize
<1>1. /\ IsFiniteSet(connected')
      /\ Cardinality(connected') <= Cardinality(connected)
  BY FS_Subset
<1> QED
  BY <1>1, FS_CardinalityType, PoolAssumption

(* Every step on the pool is a step of Idempotency, or none.               *)
LEMMA PoolStepRefines ==
  ASSUME [PoolNext]_<<vars, connected>>
  PROVE  [Next]_vars
  BY DEF PoolNext, LookupConnected, ContinueConnected, Insert, FlushConnected,
         CommitConnected, ResolveConnected, Close, Next, Continue, vars

(* PoolInv is kept by every step of a request.                             *)
LEMMA PoolStepInv ==
  ASSUME TypeOK, PoolInv, NEW r \in Request,
         \/ LookupConnected(r)
         \/ ContinueConnected(r)
         \/ Abort(r) /\ UNCHANGED connected
  PROVE  PoolInv'
<1> USE DEF PoolInv, TypeOK, Goto, ReplyWith, InFlight
<1>1. CASE LookupConnected(r)
  <2>1. pc[r] = "idle" /\ \E label \in {"insert", "200"} : Goto(r, label)
    BY <1>1 DEF LookupConnected, Lookup
  <2>2. CASE UNCHANGED connected
    BY <2>1, <2>2
  <2>3. CASE Connect(r)
    BY <2>1, <2>3, ConnectFits
  <2> QED
    BY <1>1, <2>2, <2>3 DEF LookupConnected
<1>2. CASE Insert(r)
  BY <1>2, ConnectFits DEF Insert, vars
<1>3. CASE FlushConnected(r)
  <2>1. CASE pc'[r] = "conflict"
    <3>1. connected' = connected \ {r} /\ pc' = [pc EXCEPT ![r] = "conflict"]
      BY <1>3, <2>1 DEF FlushConnected, Flush
    <3> QED
      BY <3>1, ReleaseFits
  <2>2. CASE pc'[r] # "conflict"
    <3>1. connected' = connected /\ r \in connected
      BY <1>3, <2>2 DEF FlushConnected
    <3>2. pc' = [pc EXCEPT ![r] = "flushed"]
      BY <1>3, <2>2 DEF FlushConnected, Flush
    <3> QED
      BY <3>1, <3>2
  <2> QED
    BY <2>1, <2>2
<1>4. CASE Enqueue(r) /\ UNCHANGED connected
  BY <1>4 DEF Enqueue
<1>5. CASE CommitConnected(r)
  <2>1. connected' = connected \ {r}
        /\ \E label \in {"201", "500"} : Goto(r, label)
    BY <1>5 DEF CommitConnected, Commit
  <2>2. IsFiniteSet(connected') /\ Cardinality(connected') <= PoolSize
    BY <2>1, ReleaseFits
  <2>3. PICK label \in {"201", "500"} : pc' = [pc EXCEPT ![r] = label]
    BY <2>1
  <2> QED
    BY <2>1, <2>2, <2>3
<1>6. CASE ResolveConnected(r)
  <2>1. Connect(r) /\ Goto(r, "200")
    BY <1>6 DEF ResolveConnected, Resolve
  <2> QED
    BY <2>1, ConnectFits
<1>7. CASE Close(r)
  <2>1. connected' = connected \ {r} /\ pc' = pc /\ pc[r] \in Answered
    BY <1>7 DEF Close, vars
  <2> QED
    BY <2>1, ReleaseFits DEF Answered
<1>8. CASE Abort(r) /\ UNCHANGED connected
  BY <1>8 DEF Abort
<1> QED
  BY <1>1, <1>2, <1>3, <1>4, <1>5, <1>6, <1>7, <1>8 DEF ContinueConnected

(* The pool adds no behaviour: requests that wait for a connection are     *)
(* requests of Idempotency that take their time, so every theorem about    *)
(* Spec holds of PoolSpec.                                                 *)
THEOREM PoolImplementsIdempotency == PoolSpec => Spec
<1>1. PoolInit => Init
  BY DEF PoolInit
<1>2. [PoolNext]_<<vars, connected>> => [Next]_vars
  BY PoolStepRefines
<1> QED
  BY <1>1, <1>2, PTL DEF PoolSpec, Spec

(* No more connections are out than the engine of app/db/session.py        *)
(* allows, and the transactions an insert waits for have theirs, so that   *)
(* they need nothing a waiting request could keep from them.               *)
THEOREM BlockersAreConnected ==
  PoolSpec => [](/\ Cardinality(connected) <= PoolSize
                 /\ \A r \in Request : Blockers(r) \subseteq connected)
<1>1. PoolInit => PoolInv
  <2>1. IsFiniteSet({}) /\ Cardinality({}) = 0
    BY FS_EmptySet
  <2> QED
    BY <2>1, PoolAssumption DEF PoolInit, Init, PoolInv, InFlight
<1>2. TypeOK /\ PoolInv /\ [PoolNext]_<<vars, connected>> => PoolInv'
  <2>1. ASSUME TypeOK, PoolInv, UNCHANGED <<vars, connected>>
        PROVE  PoolInv'
    BY <2>1 DEF PoolInv, InFlight, vars
  <2> QED
    BY <2>1, PoolStepInv DEF PoolNext
<1>3. PoolInv => /\ Cardinality(connected) <= PoolSize
                 /\ \A r \in Request : Blockers(r) \subseteq connected
  BY DEF PoolInv, Blockers
<1> QED
  BY <1>1, <1>2, <1>3, PoolImplementsIdempotency, IdempotencyTypes, PTL
  DEF PoolSpec

(* One key, one job; lost races resolve; answers stand: for any number of  *)
(* requests on any number of connections.                                  *)
THEOREM PoolKeepsPromises ==
  PoolSpec => [](SameJob /\ ConflictResolvable /\ AnswerStands)
  BY PoolImplementsIdempotency, OneJobPerKey, LostRacesResolve, AnswersStand,
     PTL
=============================================================================
