--------------------------- MODULE MCWorkerProcess ---------------------------
(* The constants of MCJobQueue, for WorkerProcess.                         *)
EXTENDS WorkerProcess, MCJobQueue
=============================================================================
