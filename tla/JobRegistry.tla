---------------------------- MODULE JobRegistry -----------------------------
(***************************************************************************)
(* What POST /jobs promises about idempotency keys: creating a job and     *)
(* finding out that its key is taken is one indivisible step.              *)
(*                                                                         *)
(* A job goes by the name of the request that created it.                  *)
(***************************************************************************)
CONSTANTS
  Request,  \* the creation requests
  Key,      \* the idempotency keys clients use
  NoKey     \* the key of a request that gives none

VARIABLES
  key,     \* the key each request carries
  jobs,    \* the jobs there are
  reply,   \* the status code each request was answered with, or "none"
  answer   \* the job each request was answered with, or its own

registryVars == <<key, jobs, reply, answer>>

Init ==
  /\ key \in [Request -> Key \cup {NoKey}]
  /\ jobs = {}
  /\ reply = [r \in Request |-> "none"]
  /\ answer = [r \in Request |-> r]

(* The jobs that request r is a repetition of.                             *)
Twins(r) == {s \in jobs : key[r] # NoKey /\ key[s] = key[r]}

Reply(r, code) ==
  /\ reply[r] = "none"
  /\ reply' = [reply EXCEPT ![r] = code]

(* Even a job whose creation is answered 500 may have come to be.          *)
Create(r) ==
  /\ Twins(r) = {}
  /\ Reply(r, "201") \/ Reply(r, "500")
  /\ jobs' = jobs \cup {r}
  /\ UNCHANGED <<key, answer>>

Replay(r) ==
  /\ Reply(r, "200")
  /\ \E s \in Twins(r) : answer' = [answer EXCEPT ![r] = s]
  /\ UNCHANGED <<key, jobs>>

Fail(r) ==
  /\ Reply(r, "500")
  /\ UNCHANGED <<key, jobs, answer>>

Next == \E r \in Request : Create(r) \/ Replay(r) \/ Fail(r)

Spec == Init /\ [][Next]_registryVars
=============================================================================
