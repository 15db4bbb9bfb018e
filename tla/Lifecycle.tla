----------------------------- MODULE Lifecycle ------------------------------
(***************************************************************************)
(* What the job queue promises of each job, with no word of queues,        *)
(* workers or sessions: a queued job is executed, again and again with its *)
(* failures, until an execution succeeds or its attempts are spent.        *)
(***************************************************************************)
EXTENDS Naturals

CONSTANTS Job, MaxAttempts

VARIABLES
  stage,  \* what a client sees of each job
  runs    \* executions begun

lifeVars == <<stage, runs>>

Init ==
  /\ stage = [j \in Job |-> "queued"]
  /\ runs = [j \in Job |-> 0]

Move(j, from, to) == stage[j] = from /\ stage' = [stage EXCEPT ![j] = to]

Begin(j) ==
  /\ Move(j, "queued", "processing")
  /\ runs[j] < MaxAttempts[j]
  /\ runs' = [runs EXCEPT ![j] = @ + 1]

Complete(j) == Move(j, "processing", "completed") /\ UNCHANGED runs

Retry(j) ==
  /\ Move(j, "processing", "queued")
  /\ runs[j] < MaxAttempts[j]
  /\ UNCHANGED runs

GiveUp(j) ==
  /\ Move(j, "processing", "failed")
  /\ runs[j] = MaxAttempts[j]
  /\ UNCHANGED runs

End(j) == Complete(j) \/ Retry(j) \/ GiveUp(j)

Next == \E j \in Job : Begin(j) \/ End(j)

Fairness == \A j \in Job : WF_lifeVars(Begin(j)) /\ WF_lifeVars(End(j))

Spec == Init /\ [][Next]_lifeVars /\ Fairness
=============================================================================
