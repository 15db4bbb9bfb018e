---------------------------- MODULE WorkerProcess ----------------------------
(***************************************************************************)
(* Stopping and restarting worker processes (app/worker/main.py).          *)
(*                                                                         *)
(* The container runtime stops a worker with SIGTERM, and with SIGKILL     *)
(* once the grace period is over, whatever the worker is doing by then.    *)
(* The handler of SIGTERM sets the event _shutdown, which nothing awaits   *)
(* and nothing reads: worker_loop has no exit, so the clean-up after it is *)
(* never reached.                                                          *)
(***************************************************************************)
EXTENDS JobQueue

CONSTANT
  MaxStops  \* bound on the stops in a behaviour

ASSUME StopAssumption == MaxStops \in Nat

VARIABLES
  shutdown,  \* the workers whose _shutdown event is set
  kills      \* stops that ended in SIGKILL so far

stopVars == <<shutdown, kills>>

ProcessInit ==
  /\ Init
  /\ shutdown = {}
  /\ kills = 0

-----------------------------------------------------------------------------

(* _handle_sigterm; main installs it before it starts recovery.            *)
Sigterm(w) ==
  /\ pc[w] # "down"
  /\ w \notin shutdown
  /\ kills + Cardinality(shutdown) < MaxStops
  /\ shutdown' = shutdown \cup {w}
  /\ UNCHANGED <<vars, kills>>

(* Local variables and the open transaction go with the process.           *)
Die(w) == Leave(w, "down") /\ UNCHANGED storeVars

Sigkill(w) ==
  /\ w \in shutdown
  /\ Die(w)
  /\ shutdown' = shutdown \ {w}
  /\ kills' = kills + 1
  /\ UNCHANGED <<faults, recovered, apiVars>>

(* The event is a variable of the process: a crash takes it along.         *)
Signals ==
  /\ shutdown' = {w \in shutdown : pc'[w] # "down"}
  /\ UNCHANGED kills

ProcessNext ==
  \/ Next /\ Signals
  \/ \E w \in Worker : Sigterm(w) \/ Sigkill(w)

ProcessSpec == ProcessInit /\ [][ProcessNext]_<<vars, stopVars>>

(* The fairness of JobQueue; the grace period of a stop comes to its end.  *)
ProcessFairSpec ==
  /\ ProcessSpec
  /\ \A w \in Worker :
       /\ WF_<<vars, stopVars>>(WorkerStep(w) /\ UNCHANGED apiVars /\ Signals)
       /\ WF_<<vars, stopVars>>(Sigkill(w))
  /\ \A j \in Job :
       /\ WF_<<vars, stopVars>>((CreateEnqueue(j) \/ CreateCommit(j))
            /\ UNCHANGED <<workerVars, faults, recovered>> /\ Signals)
       /\ WF_<<vars, stopVars>>(Mature(j) /\ Signals)
       /\ WF_<<vars, stopVars>>(Age(j) /\ Signals)
  /\ \A c \in Canceller :
       WF_<<vars, stopVars>>(
         (CancelRemovePriority(c) \/ CancelRemoveRetry(c) \/ CancelCommit(c))
            /\ UNCHANGED <<workerVars, faults, recovered>> /\ Signals)

-----------------------------------------------------------------------------

(* JobQueue with the stops among its faults: a worker that is killed       *)
(* leaves what a crashed one leaves.                                       *)
Faulty == INSTANCE JobQueue WITH
  faults <- faults + kills,
  MaxFaults <- MaxFaults + MaxStops

(* A stop loses the jobs that the worker it kills has in hand, no other.   *)
OnlyStopsLose == Faulty!OnlyFaultsLose

(* A job orphaned by a stop settles after the restart, unless something    *)
(* fails once more.                                                        *)
StoppedJobSettles == Faulty!OrphanSettles

(* README.md:423: the handlers are there for a graceful shutdown, that of  *)
(* a worker that takes no further job once it is asked to stop.            *)
StopIsGraceful ==
  [][\A w \in Worker : w \in shutdown /\ held[w] = NoJob => held'[w] = NoJob]_vars
=============================================================================
