------------------------------ MODULE Recovery ------------------------------
(***************************************************************************)
(* Startup of a worker process: main runs run_startup_recovery once        *)
(* (app/worker/recovery.py) and then enters the loop.                      *)
(*                                                                         *)
(* One session selects every job that has been processing for longer than  *)
(* the threshold, walks through them writing a retry entry for each one    *)
(* that may run again, and updates all the rows in a single commit.        *)
(***************************************************************************)
EXTENDS Worker

VARIABLE
  recovered  \* history: the jobs some recovery has ever selected

RecoveryTypeOK == recovered \subseteq Job

RecoveryInit == recovered = {}

-----------------------------------------------------------------------------

Start(w) ==
  /\ pc[w] = "down"
  /\ Goto(w, "select")
  /\ UNCHANGED <<storeVars, todo, claimed, held, session, faults, recovered>>

(* Faulty variant: every processing job is taken for a crashed one.        *)
StuckAtOnce(j) == db[j].status = "processing"

(* started_at < threshold is false of NULL and of a recent start.          *)
Stuck(j) == db[j].status = "processing" /\ db[j].started = "old"

StuckJobs == {j \in Job : Stuck(j)}

RecoverySelect(w) ==
  /\ pc[w] = "select"
  /\ StuckJobs # {}
  /\ todo' = [todo EXCEPT ![w] = StuckJobs]
  /\ session' = [session EXCEPT ![w] =
                   [j \in Job |-> IF j \in StuckJobs THEN db[j] ELSE NoRow]]
  /\ recovered' = recovered \cup StuckJobs
  /\ Goto(w, "recover")
  /\ UNCHANGED <<storeVars, claimed, held, faults>>

RecoveryClean(w) ==
  /\ pc[w] = "select"
  /\ StuckJobs = {}
  /\ NextRound(w)
  /\ UNCHANGED <<storeVars, faults, recovered>>

GivesUp(w, j) == Exhausted(Recounted(session[w][j]), MaxAttempts[j])

RecoverJob(w, j) ==
  /\ pc[w] = "recover"
  /\ j \in todo[w]
  /\ IF GivesUp(w, j) THEN UNCHANGED retry ELSE enqueue_retry(j)
  /\ todo' = [todo EXCEPT ![w] = @ \ {j}]
  /\ Goto(w, IF todo'[w] = {} THEN "recover_commit" ELSE "recover")
  /\ UNCHANGED <<db, priority, claimed, held, session, faults, recovered>>

InSession(w, j) == session[w][j].status # "absent"

RecoveryCommit(w) ==
  /\ pc[w] = "recover_commit"
  /\ db' = [j \in Job |->
              IF InSession(w, j)
                THEN MarkRecovered(db[j], session[w][j], MaxAttempts[j])
                ELSE db[j]]
  /\ NextRound(w)
  /\ UNCHANGED <<priority, retry, faults, recovered>>

(* main has no handler around recovery: an error there ends the process.   *)
RecoveryError(w) ==
  /\ pc[w] \in RecoveryLabel
  /\ InjectFault
  /\ Leave(w, "down")
  /\ UNCHANGED <<storeVars, recovered>>

-----------------------------------------------------------------------------

RecoveryStep(w) ==
  \/ RecoverySelect(w)
  \/ RecoveryClean(w)
  \/ \E j \in Job : RecoverJob(w, j)
  \/ RecoveryCommit(w)
=============================================================================
