------------------------------- MODULE JobRow -------------------------------
(***************************************************************************)
(* One row of the jobs table and the updates the program makes to it.      *)
(*                                                                         *)
(* Every update is an ORM unit of work: a session loads the row, assigns   *)
(* attributes, and at commit writes the columns whose value changed since  *)
(* the load, and only those.  There is no row lock and no version column,  *)
(* so an update is a function of two rows: the row stored at the instant   *)
(* of the commit and the row the session had loaded.                       *)
(***************************************************************************)
EXTENDS Naturals

JobStatus == {"queued", "processing", "completed", "failed", "cancelled"}

(* A nullable column of which only the presence of a value matters.        *)
Nullable == {"null", "set"}

(* started_at, as far as recovery tells its values apart: never set, set   *)
(* within the stuck threshold, or set before it.                           *)
StartedAt == {"null", "recent", "old"}

(* starts counts the "Starting executor" rows of job_logs for the job; it  *)
(* is kept with the row because it is written in the same transaction.     *)
(* Status "absent" stands for "no committed row".  Columns nothing below   *)
(* depends on (payload, next_retry_at, created_at) are left out.           *)
Row ==
  [status      : JobStatus \cup {"absent"},
   attempts    : Nat,
   starts      : Nat,
   started     : StartedAt,
   completedAt : Nullable,
   error       : Nullable,
   result      : Nullable]

NoRow ==
  [status |-> "absent", attempts |-> 0, starts |-> 0, started |-> "null",
   completedAt |-> "null", error |-> "null", result |-> "null"]

NewRow == [NoRow EXCEPT !.status = "queued"]

-----------------------------------------------------------------------------

(* A column is part of the UPDATE only if the assignment changed it.       *)
NetChange(stored, loaded, assigned) ==
  IF assigned = loaded THEN stored ELSE assigned

(* Faulty variant: started_at is set by the first start only.              *)
MarkProcessingOnce(row, loaded) ==
  [row EXCEPT !.status   = NetChange(@, loaded.status, "processing"),
              !.started  = IF @ = "null" THEN "recent" ELSE @,
              !.attempts = loaded.attempts + 1,
              !.starts   = @ + 1]

(* The worker claims a job it has just seen queued.                        *)
MarkProcessing(row, loaded) ==
  [row EXCEPT !.status   = NetChange(@, loaded.status, "processing"),
              !.started  = "recent",
              !.attempts = loaded.attempts + 1,
              !.starts   = @ + 1]

(* Faulty variant: the error of an earlier attempt is left in the row.     *)
MarkCompletedKeepingError(row, loaded) ==
  [row EXCEPT !.status      = NetChange(@, loaded.status, "completed"),
              !.completedAt = "set",
              !.result      = "set"]

(* The executor returned a result.                                         *)
MarkCompleted(row, loaded) ==
  [row EXCEPT !.status      = NetChange(@, loaded.status, "completed"),
              !.completedAt = "set",
              !.result      = "set",
              !.error       = NetChange(@, loaded.error, "null")]

(* Faulty variants: one attempt too many, one too few.                     *)
ExhaustedLate(loaded, max) == loaded.attempts > max

ExhaustedEarly(loaded, max) == loaded.attempts + 1 >= max

(* The retry budget of a loaded row is spent.                              *)
Exhausted(loaded, max) == loaded.attempts >= max

(* Faulty variants: the budget is not looked at; a job put back is not     *)
(* marked queued again.                                                    *)
MarkFailureUnbounded(row, loaded, max) ==
  [row EXCEPT !.status = NetChange(@, loaded.status, "queued"), !.error = "set"]

MarkFailureUnmarked(row, loaded, max) ==
  IF Exhausted(loaded, max)
    THEN [row EXCEPT !.status      = NetChange(@, loaded.status, "failed"),
                     !.completedAt = "set",
                     !.error       = "set"]
    ELSE [row EXCEPT !.error = "set"]

(* handle_failure: give the job up, or put it back in the queue.           *)
MarkFailure(row, loaded, max) ==
  IF Exhausted(loaded, max)
    THEN [row EXCEPT !.status      = NetChange(@, loaded.status, "failed"),
                     !.completedAt = "set",
                     !.error       = "set"]
    ELSE [row EXCEPT !.status = NetChange(@, loaded.status, "queued"),
                     !.error  = "set"]

(* Startup recovery counts one more attempt, then decides as above.        *)
Recounted(loaded) == [loaded EXCEPT !.attempts = @ + 1]

(* Faulty variants: a recovered job is not marked queued; it gets its      *)
(* attempts back.                                                          *)
MarkRecoveredUnmarked(row, loaded, max) ==
  [row EXCEPT !.attempts = loaded.attempts + 1]

MarkRecoveredAfresh(row, loaded, max) ==
  [row EXCEPT !.attempts = 0, !.status = NetChange(@, loaded.status, "queued")]

MarkRecovered(row, loaded, max) ==
  IF Exhausted(Recounted(loaded), max)
    THEN [row EXCEPT !.attempts    = loaded.attempts + 1,
                     !.status      = NetChange(@, loaded.status, "failed"),
                     !.completedAt = "set",
                     !.error       = "set"]
    ELSE [row EXCEPT !.attempts = loaded.attempts + 1,
                     !.status   = NetChange(@, loaded.status, "queued")]

(* The API cancels a job it has seen queued or processing.                 *)
Cancellable == {"queued", "processing"}

(* Faulty variant: a status no one else knows; the column is a string.     *)
MarkCancelledMisspelt(row) == [row EXCEPT !.status = "canceled"]

MarkCancelled(row) == [row EXCEPT !.status = "cancelled"]
=============================================================================
