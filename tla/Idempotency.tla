---------------------------- MODULE Idempotency -----------------------------
(***************************************************************************)
(* POST /jobs with an idempotency key: get_or_create_job of                *)
(* app/services/idempotency.py under concurrent requests.                  *)
(*                                                                         *)
(* A request looks for a row with its key; when there is none it inserts   *)
(* one, pushes the id to Redis and commits.  What makes the key unique is  *)
(* the partial index uq_jobs_idempotency_key: an insert waits for a        *)
(* transaction that has inserted the same key, and raises IntegrityError   *)
(* once that key is committed; get_or_create_job then rolls back and       *)
(* answers with the row that is there.  No row is ever deleted.            *)
(*                                                                         *)
(* A job goes by the name of the request that created it.                  *)
(***************************************************************************)
CONSTANTS
  Request,  \* the creation requests
  Key,      \* the idempotency keys clients use
  Blank,    \* the empty string, a key that is not null and yet false
  NoKey     \* the null of a request that gives no key

VARIABLES
  key,     \* idempotency_key of each request
  pc,      \* where each request stands, or the code it was answered with
  rows,    \* the committed rows of the jobs table
  pushed,  \* the ids that have been added to queue:priority
  answer   \* the job each request was answered with, its own until then

vars == <<key, pc, rows, pushed, answer>>

Answered == {"200", "201", "500"}

Label == {"idle", "insert", "flushed", "pushed", "conflict"} \cup Answered

TypeOK ==
  /\ key \in [Request -> Key \cup {NoKey}]
  /\ pc \in [Request -> Label]
  /\ rows \subseteq Request
  /\ pushed \subseteq Request
  /\ answer \in [Request -> Request]

Init ==
  /\ key \in [Request -> Key \cup {NoKey}]
  /\ pc = [r \in Request |-> "idle"]
  /\ rows = {}
  /\ pushed = {}
  /\ answer = [r \in Request |-> r]

-----------------------------------------------------------------------------

Goto(r, label) == pc' = [pc EXCEPT ![r] = label]

(* Faulty variant: the index is not partial, two nulls are equal.          *)
SameKeyOrNull(r, s) == key[r] = key[s]

SameKey(r, s) == key[r] = key[s] /\ key[r] # NoKey

(* The committed rows that carry the key of r.                             *)
Existing(r) == {s \in rows : SameKey(r, s)}

(* The requests whose transaction holds an uncommitted row.                *)
InFlight == {r \in Request : pc[r] \in {"flushed", "pushed"}}

(* The open transactions the unique index makes the insert of r wait for.  *)
Blockers(r) == {s \in InFlight : SameKey(r, s)}

ReplyWith(r, s) ==
  /\ Goto(r, "200")
  /\ answer' = [answer EXCEPT ![r] = s]
  /\ UNCHANGED <<key, rows, pushed>>

(* A null or empty key is not looked up.                                   *)
Lookup(r) ==
  /\ pc[r] = "idle"
  /\ IF key[r] \notin {NoKey, Blank} /\ Existing(r) # {}
       THEN \E s \in Existing(r) : ReplyWith(r, s)
       ELSE Goto(r, "insert") /\ UNCHANGED <<key, rows, pushed, answer>>

(* Faulty variants: there is no unique index; a conflict is reported       *)
(* without waiting for the transaction in the way; the push comes first.   *)
FlushUnchecked(r) ==
  /\ pc[r] = "insert"
  /\ Goto(r, "flushed")
  /\ UNCHANGED <<key, rows, pushed, answer>>

FlushNoWait(r) ==
  /\ pc[r] = "insert"
  /\ Goto(r, IF Existing(r) \cup Blockers(r) = {} THEN "flushed"
                                                 ELSE "conflict")
  /\ UNCHANGED <<key, rows, pushed, answer>>

FlushAfterPush(r) ==
  /\ pc[r] = "insert"
  /\ Blockers(r) = {}
  /\ pushed' = pushed \cup {r}
  /\ Goto(r, IF Existing(r) = {} THEN "flushed" ELSE "conflict")
  /\ UNCHANGED <<key, rows, answer>>

Flush(r) ==
  /\ pc[r] = "insert"
  /\ Blockers(r) = {}
  /\ Goto(r, IF Existing(r) = {} THEN "flushed" ELSE "conflict")
  /\ UNCHANGED <<key, rows, pushed, answer>>

Enqueue(r) ==
  /\ pc[r] = "flushed"
  /\ pushed' = pushed \cup {r}
  /\ Goto(r, "pushed")
  /\ UNCHANGED <<key, rows, answer>>

(* Faulty variant: the commit does not depend on the push.                 *)
CommitUnqueued(r) ==
  /\ pc[r] \in {"flushed", "pushed"}
  /\ rows' = rows \cup {r}
  /\ Goto(r, "201") \/ Goto(r, "500")
  /\ UNCHANGED <<key, pushed, answer>>

(* The commit succeeds; its acknowledgement, or the answer, may be lost.   *)
Commit(r) ==
  /\ pc[r] = "pushed"
  /\ rows' = rows \cup {r}
  /\ Goto(r, "201") \/ Goto(r, "500")
  /\ UNCHANGED <<key, pushed, answer>>

(* except IntegrityError: roll back and select again, with scalar_one.     *)
Resolve(r) ==
  /\ pc[r] = "conflict"
  /\ \E s \in Existing(r) : ReplyWith(r, s)

(* PostgreSQL, Redis or the process fails: the transaction is rolled back, *)
(* an id already pushed stays in the queue.                                *)
Abort(r) ==
  /\ pc[r] \notin Answered
  /\ Goto(r, "500")
  /\ UNCHANGED <<key, rows, pushed, answer>>

Continue(r) == Flush(r) \/ Enqueue(r) \/ Commit(r) \/ Resolve(r)

Next == \E r \in Request : Lookup(r) \/ Continue(r) \/ Abort(r)

(* A request that has begun is carried on by the event loop; the server    *)
(* ends the transaction of a connection that is gone.                      *)
Fairness == \A r \in Request : WF_vars(Continue(r))

Spec == Init /\ [][Next]_vars

FairSpec == Spec /\ Fairness

-----------------------------------------------------------------------------
(* Two requests answered with a job under the same key were answered with  *)
(* the same job, however their lookups, inserts and failures interleave    *)
(* (README.md: "safe to retry", "Concurrent calls with the same key").     *)
SameJob ==
  \A r, s \in Request :
    SameKey(r, s) /\ {pc[r], pc[s]} \subseteq {"200", "201"}
      => answer[r] = answer[s]

(* The select after a lost race finds one row and no more: scalar_one does *)
(* not raise, the request is not answered 500 for having lost.             *)
ConflictResolvable ==
  \A r \in Request :
    pc[r] = "conflict" => \E s \in Request : Existing(r) = {s}

(* The job in an answer is committed and its id was pushed, also when the  *)
(* answer is a replay of what another request was still doing.             *)
AnswerStands ==
  \A r \in Request :
    pc[r] \in {"200", "201"} => answer[r] \in rows \cap pushed

(* An id in the queue that has no row and never will was left there by a   *)
(* request that failed: losing the race pushes nothing.                    *)
LosersPushNothing ==
  \A r \in pushed : r \in rows \/ pc[r] \in {"pushed", "500"}

(* Every request that has begun is answered: nobody waits for ever for the *)
(* key of somebody else.                                                   *)
EveryRequestAnswered ==
  \A r \in Request : pc[r] # "idle" ~> pc[r] \in Answered

(* The requests implement the indivisible registry.                        *)
Registry == INSTANCE JobRegistry WITH
  jobs  <- rows,
  reply <- [r \in Request |-> IF pc[r] \in Answered THEN pc[r] ELSE "none"]

RegistrySpec == Registry!Spec

(* What happens to the shared store is what module Api says of creations:  *)
(* push after the flush, row after the push, in the transaction of one     *)
(* request.  There the keys are left out, every job is created once.       *)
Columns == INSTANCE JobRow

Creation == INSTANCE Api WITH
  Job         <- Request,
  MaxAttempts <- [r \in Request |-> 1],
  Tier        <- [r \in Request |-> 0],
  Canceller   <- {},
  Preloaded   <- {},
  db          <- [r \in Request |-> IF r \in rows THEN Columns!NewRow
                                                    ELSE Columns!NoRow],
  priority    <- pushed,
  retry       <- [r \in Request |-> "none"],
  cancelling  <- [c \in {} |-> "idle"],
  target      <- [c \in {} |-> c],
  creating    <- [r \in Request |->
                   IF pc[r] = "flushed" THEN "flushed"
                   ELSE IF pc[r] = "pushed" THEN "enqueued"
                   ELSE IF r \in rows THEN "created"
                   ELSE IF pc[r] = "500" THEN "aborted" ELSE "idle"]

CreationStep ==
  [][\E r \in Request : Creation!CreateStep(r)]_<<rows, pushed>>

-----------------------------------------------------------------------------
(* The inductive invariant.  A key is held by one row at most, committed   *)
(* or not; a row is committed when its own request has been answered; a    *)
(* replay names a committed row with the key of its request; who lost the  *)
(* race lost it to a committed row; what is pushed and has no row is of a  *)
(* request still at it, or failed.                                         *)
UniqueKey ==
  \A r, s \in rows \cup InFlight : SameKey(r, s) => r = s

RowsAreAnswered ==
  /\ \A r \in rows : pc[r] \in {"201", "500"}
  /\ rows \subseteq pushed

AnswersAreRows ==
  \A r \in Request :
    /\ pc[r] = "pushed" => r \in pushed
    /\ pc[r] # "200" => answer[r] = r
    /\ pc[r] = "201" => r \in rows
    /\ pc[r] = "200" => answer[r] \in Existing(r)

ConflictsAreLost ==
  \A r \in Request : pc[r] = "conflict" => Existing(r) # {}

IInv ==
  /\ TypeOK
  /\ UniqueKey
  /\ RowsAreAnswered
  /\ AnswersAreRows
  /\ ConflictsAreLost
  /\ LosersPushNothing

=============================================================================
