------------------------- MODULE JobQueueInvariant --------------------------
(***************************************************************************)
(* The inductive invariant behind the safety properties of JobQueue.       *)
(*                                                                         *)
(* The argument: the id of a job is a token.  It lies in queue:priority,   *)
(* or in queue:retry, or one worker holds it, and never in two of these    *)
(* places; only the worker that holds it writes the columns the outcome    *)
(* depends on.  The one exception is handle_failure, which pushes the      *)
(* retry entry before it commits: until then the token can be taken up by  *)
(* another worker, which finds the row not queued and drops it.            *)
(***************************************************************************)
EXTENDS JobQueue

HeldLabel == {"requeue_add", "load", "begin"} \cup WorkLabel

ClaimLabel == {"claim", "requeue", "requeue_add"}

(* Where a session on the row of the job in hand is open.                  *)
WriteLabel == {"begin", "finish_commit", "enqueue_retry", "fail_commit"}

(* w has the token of j.                                                   *)
Holds(w, j) ==
  \/ j \in claimed[w]
  \/ held[w] = j /\ pc[w] # "fail_commit"

(* w has given the token of j back and its commit is outstanding.          *)
Failing(w, j) == held[w] = j /\ pc[w] = "fail_commit"

(* How the local variables of a worker go with its pc.                     *)
LocalOK(w) ==
  /\ held[w] # NoJob <=> pc[w] \in HeldLabel
  /\ claimed[w] # {} => pc[w] \in ClaimLabel
  /\ held[w] \notin claimed[w]
  /\ pc[w] \in WriteLabel => InSession(w, held[w])
  /\ pc[w] = "begin" => Loaded(w).status = "queued"
  /\ \A j \in Job : InSession(w, j) =>
       \/ pc[w] \in WriteLabel /\ held[w] = j
       \/ pc[w] \in {"recover", "recover_commit"} /\ j \in recovered
  /\ pc[w] = "recover" => \A j \in todo[w] : InSession(w, j)

LocalInv == \A w \in Worker : LocalOK(w)

(* Nobody writes to a row that does not exist, and an id that has not been *)
(* pushed yet is nowhere.                                                  *)
ExistenceOK(j) ==
  /\ creating[j] # "created" => db[j].status = "absent"
  /\ creating[j] \in {"idle", "flushed"} =>
       /\ j \notin priority
       /\ retry[j] = "none"
       /\ \A w \in Worker : held[w] # j /\ j \notin claimed[w]
  /\ \A w \in Worker : Working(w, j) \/ InSession(w, j) => db[j].status # "absent"
  /\ \A c \in Canceller : Cancelling(c, j) => db[j].status # "absent"

ExistenceInv == \A j \in Job : ExistenceOK(j)

(* One token per job.                                                      *)
TokenOK(j) ==
  /\ j \in priority => retry[j] = "none"
  /\ \A w \in Worker : Holds(w, j) =>
       /\ j \notin priority
       /\ retry[j] = "none"
       /\ \A v \in Worker : Holds(v, j) => v = w
  /\ \A w \in Worker : Failing(w, j) =>
       /\ j \notin priority
       /\ \A v \in Worker : held[v] = j => v = w

TokenInv == \A j \in Job \ recovered : TokenOK(j)

(* The stored row as a session that loaded it may find it at its commit:   *)
(* at most cancelled, or aged, in between.                                 *)
Agree(stored, loaded) ==
  /\ stored.status \in {loaded.status, "cancelled"}
  /\ stored.attempts = loaded.attempts
  /\ stored.error = loaded.error

FreshOK(w, j) ==
  /\ held[w] = j /\ pc[w] \in WriteLabel => Agree(db[j], session[w][j])
  /\ held[w] = j /\ pc[w] = "begin" => session[w][j].attempts < MaxAttempts[j]
  /\ Working(w, j) => db[j].status # "queued"

FreshInv == \A j \in Job \ recovered : \A w \in Worker : FreshOK(w, j)

IInv ==
  /\ TypeOK
  /\ LocalInv
  /\ ExistenceInv
  /\ TokenInv
  /\ FreshInv
  /\ AttemptsMatchStarts
  /\ RetryBudget
  /\ OutcomeRecorded

-----------------------------------------------------------------------------
(* The invariant behind OnlyFaultsLose and NoLostJob, given prompt commits *)
(* and claims: the retry entry that handle_failure pushes stays where it   *)
(* is until the commit.                                                    *)

(* A drain has found an entry of j and has its ZREM still to send.         *)
StaleClaim(j) == \E v \in Worker : pc[v] = "claim" /\ j \in todo[v]

(* Once the execution is over no such ZREM is under way, and none comes up *)
(* before the commit: the entry pushed meanwhile is not due.               *)
HandoverOK(w, j) ==
  /\ Working(w, j) /\ pc[w] # "execute" => ~StaleClaim(j)
  /\ Failing(w, j) =>
       retry[j] = IF Exhausted(session[w][j], MaxAttempts[j])
                    THEN "none" ELSE "waiting"
  /\ held[w] = j /\ pc[w] = "enqueue_retry" =>
       ~Exhausted(session[w][j], MaxAttempts[j])

HandoverInv == \A j \in Job \ recovered : \A w \in Worker : HandoverOK(w, j)

-----------------------------------------------------------------------------
(* The invariant behind OutcomeNotStale and the life of a job that clients *)
(* see: while nothing fails and no one cancels, recovery finds nothing to  *)
(* do, and only the worker that has a job in hand writes to its row.       *)

OwnOK(w, j) ==
  /\ Working(w, j) => db[j].status = "processing"
  /\ held[w] = j /\ pc[w] \in WriteLabel => db[j] = session[w][j]

CalmInv ==
  Undisturbed =>
    /\ recovered = {}
    /\ \A j \in Job : db[j].status # "cancelled"
    /\ \A w \in Worker, j \in Job : OwnOK(w, j)

-----------------------------------------------------------------------------
(* The invariant behind the properties of a single worker process: what it *)
(* writes, be it from the loop or from recovery, it writes over the row it *)
(* has loaded.                                                             *)

SoleOK(j) ==
  /\ creating[j] # "created" => db[j] = NoRow
  /\ db[j].starts <= db[j].attempts
  /\ db[j].starts <= MaxAttempts[j]
  /\ db[j].status = "queued" => db[j].attempts < MaxAttempts[j]
  /\ \A w \in Worker :
       /\ InSession(w, j) => Agree(db[j], session[w][j])
       /\ pc[w] = "begin" /\ held[w] = j => session[w][j].attempts < MaxAttempts[j]
       /\ pc[w] \in {"recover", "recover_commit"} /\ InSession(w, j) =>
            session[w][j].status = "processing"

SoleInv == \A j \in Job : SoleOK(j)
=============================================================================
