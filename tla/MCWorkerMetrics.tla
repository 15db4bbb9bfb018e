--------------------------- MODULE MCWorkerMetrics ---------------------------
(* The constants of MCJobQueue, for WorkerMetrics.                         *)
EXTENDS WorkerMetrics, MCJobQueue
=============================================================================
