------------------------------- MODULE Queries -------------------------------
(***************************************************************************)
(* What clients are shown of the job queue: GET /jobs/{id} (get_job), the  *)
(* page of the dashboard that polls it, and GET /metrics.                  *)
(*                                                                         *)
(* Each reply is put together from several statements, and every statement *)
(* sees what is committed when it starts: the workers go on in between.    *)
(* The depths of the queues in the reply of /metrics are left out.         *)
(***************************************************************************)
EXTENDS JobQueue

VARIABLES
  viewed,   \* the job whose page is open
  step,     \* the statement of get_job that comes next
  loaded,   \* the row the first statement has read
  view,     \* the reply the page shows: the row, and the starts in its logs
  counting, \* the statement of get_metrics that comes next
  counts,   \* counts_by_status as the first statement has read them
  metrics   \* the last reply: completed jobs, and whether there is an average

detailVars == <<viewed, step, loaded, view>>

metricsVars == <<counting, counts, metrics>>

NoView == [row |-> NoRow, logs |-> 0]

QueriesTypeOK ==
  /\ TypeOK
  /\ viewed \in Job \cup {NoJob}
  /\ step \in {"idle", "row", "logs"}
  /\ loaded \in Row
  /\ view \in [row : Row, logs : Nat]
  /\ counting \in {"counts", "average"}
  /\ counts \in [JobStatus -> 0 .. Cardinality(Job)]
  /\ metrics \in [completed : Nat, average : BOOLEAN]

QueriesInit ==
  /\ Init
  /\ viewed = NoJob
  /\ step = "idle"
  /\ loaded = NoRow
  /\ view = NoView
  /\ counting = "counts"
  /\ counts = [s \in JobStatus |-> 0]
  /\ metrics = [completed |-> 0, average |-> FALSE]

-----------------------------------------------------------------------------
(* The page of a job.                                                      *)

OpenPage(j) ==
  /\ viewed = NoJob
  /\ viewed' = j
  /\ step' = "row"
  /\ UNCHANGED <<loaded, view>>

(* A job without a committed row is answered 404.                          *)
SelectRow ==
  /\ step = "row"
  /\ loaded' = db[viewed]
  /\ step' = IF db[viewed].status = "absent" THEN "idle" ELSE "logs"
  /\ UNCHANGED <<viewed, view>>

SelectLogs ==
  /\ step = "logs"
  /\ view' = [row |-> loaded, logs |-> db[viewed].starts]
  /\ step' = "idle"
  /\ UNCHANGED <<viewed, loaded>>

(* Faulty variant: the logs are read before the row.                       *)
ReadDetailLogsFirst ==
  \/ /\ step = "row"
     /\ loaded' = db[viewed]
     /\ step' = IF db[viewed].status = "absent" THEN "idle" ELSE "logs"
     /\ UNCHANGED <<viewed, view>>
  \/ /\ step = "logs"
     /\ view' = [row |-> db[viewed], logs |-> loaded.starts]
     /\ step' = "idle"
     /\ UNCHANGED <<viewed, loaded>>

ReadDetail == SelectRow \/ SelectLogs

(* Faulty variant: the page polls until the worker has taken the job up.   *)
PollsUntilStarted(status) == status = "queued"

(* refetchInterval.                                                        *)
Polls(status) == status = "processing"

Refetch ==
  /\ step = "idle"
  /\ Polls(view.row.status)
  /\ step' = "row"
  /\ UNCHANGED <<viewed, loaded, view>>

(* The page is left; its data stay in the cache of the browser.            *)
ClosePage ==
  /\ step = "idle"
  /\ viewed # NoJob
  /\ viewed' = NoJob
  /\ view' = NoView
  /\ UNCHANGED <<step, loaded>>

-----------------------------------------------------------------------------
(* GET /metrics.                                                           *)

CountOf(s) == Cardinality({j \in Job : db[j].status = s})

(* AVG is null unless a completed row has both times.                      *)
Averaged ==
  \E j \in Job : /\ db[j].status = "completed"
                 /\ db[j].started # "null"
                 /\ db[j].completedAt # "null"

SelectCounts ==
  /\ counting = "counts"
  /\ counts' = [s \in JobStatus |-> CountOf(s)]
  /\ counting' = "average"
  /\ UNCHANGED metrics

SelectAverage ==
  /\ counting = "average"
  /\ metrics' = [completed |-> counts["completed"], average |-> Averaged]
  /\ counting' = "counts"
  /\ UNCHANGED counts

(* Faulty variant: the average is taken first.                             *)
GetMetricsAverageFirst ==
  \/ /\ counting = "counts"
     /\ counts' = [s \in JobStatus |-> IF Averaged THEN 1 ELSE 0]
     /\ counting' = "average"
     /\ UNCHANGED metrics
  \/ /\ counting = "average"
     /\ metrics' = [completed |-> CountOf("completed"),
                    average   |-> counts["completed"] = 1]
     /\ counting' = "counts"
     /\ UNCHANGED counts

GetMetrics == SelectCounts \/ SelectAverage

-----------------------------------------------------------------------------

Poll == ReadDetail \/ Refetch

QueriesNext ==
  \/ Next /\ UNCHANGED <<detailVars, metricsVars>>
  \/ /\ \/ \E j \in Job : OpenPage(j)
        \/ Poll
        \/ ClosePage
     /\ UNCHANGED <<vars, metricsVars>>
  \/ GetMetrics /\ UNCHANGED <<vars, detailVars>>

QueriesSpec == QueriesInit /\ [][QueriesNext]_<<vars, detailVars, metricsVars>>

(* An open page goes on polling, and requests that were sent are answered. *)
QueriesFairSpec ==
  /\ QueriesSpec
  /\ Fairness
  /\ WF_<<vars, detailVars, metricsVars>>(Poll /\ UNCHANGED <<vars, metricsVars>>)

-----------------------------------------------------------------------------

(* A reply of get_job shows the start of every attempt it counts: the row  *)
(* is read first, so the logs can only be ahead of it.                     *)
LogsCoverAttempts ==
  viewed \notin recovered => view.row.attempts <= view.logs

(* Unless something failed or was cancelled: metrics that count a          *)
(* completed job have an average of processing times, although the two     *)
(* are read one after the other.                                           *)
CompletedHaveAverage ==
  Undisturbed => (metrics.completed > 0 => metrics.average)

(* A page that shows a job processing shows it in another status in the    *)
(* end, unless it is left: a retry or an outcome between two polls is not  *)
(* missed for good.  Nor is a cancellation, whenever it comes; only a      *)
(* fault can leave a row processing.                                       *)
ProcessingPageMovesOn ==
  (view.row.status = "processing")
    ~> (view.row.status # "processing" \/ faults > 0 \/ viewed \in Unregistered)
=============================================================================
