--------------------------- MODULE ConnectionPool ----------------------------
(***************************************************************************)
(* The creation requests of Idempotency on the connection pool of the API  *)
(* (app/db/session.py, app/api/deps.py).                                   *)
(*                                                                         *)
(* A session takes a connection at its first statement, gives it back at   *)
(* commit or rollback, takes one again when it goes on after that, and     *)
(* gives back what it has when it is closed, after the answer.  A request  *)
(* that finds none free waits, for 30 seconds at most: its failure then is *)
(* an Abort of Idempotency.  An insert that waits for another transaction  *)
(* keeps its connection all the while.                                     *)
(***************************************************************************)
EXTENDS Idempotency, Naturals, FiniteSets

CONSTANT
  PoolSize  \* pool_size + max_overflow: 30 in the code

ASSUME PoolAssumption == PoolSize \in Nat \ {0}

VARIABLE
  connected  \* the requests whose session has a connection

PoolInit == Init /\ connected = {}

-----------------------------------------------------------------------------

(* The session has a connection for its next statement.                    *)
Connect(r) ==
  \/ r \in connected /\ UNCHANGED connected
  \/ /\ Cardinality(connected) < PoolSize
     /\ connected' = connected \cup {r}

(* A null or empty key is not looked up: no statement, no connection.      *)
LookupConnected(r) ==
  /\ Lookup(r)
  /\ IF key[r] \in {NoKey, Blank} THEN UNCHANGED connected ELSE Connect(r)

(* The insert is sent, and may have to wait.                               *)
Insert(r) ==
  /\ pc[r] = "insert"
  /\ r \notin connected
  /\ Connect(r)
  /\ UNCHANGED vars

(* Its answer; the rollback of a conflict gives the connection back.       *)
FlushConnected(r) ==
  /\ r \in connected
  /\ Flush(r)
  /\ connected' = IF pc'[r] = "conflict" THEN connected \ {r} ELSE connected

(* Faulty variant: the commit is made on a connection of its own.          *)
CommitOnAnother(r) ==
  /\ Commit(r)
  /\ Cardinality(connected) < PoolSize
  /\ connected' = connected \ {r}

CommitConnected(r) == Commit(r) /\ connected' = connected \ {r}

ResolveConnected(r) == Resolve(r) /\ Connect(r)

(* Faulty variant: the session is closed behind the answer only.           *)
CloseAfterAnswer(r) ==
  /\ pc[r] \in {"200", "201"}
  /\ r \in connected
  /\ connected' = connected \ {r}
  /\ UNCHANGED vars

(* The end of get_db, with an answer or with an exception.                 *)
Close(r) ==
  /\ pc[r] \in Answered
  /\ r \in connected
  /\ connected' = connected \ {r}
  /\ UNCHANGED vars

ContinueConnected(r) ==
  \/ Insert(r)
  \/ FlushConnected(r)
  \/ Enqueue(r) /\ UNCHANGED connected
  \/ CommitConnected(r)
  \/ ResolveConnected(r)
  \/ Close(r)

PoolNext ==
  \E r \in Request :
    \/ LookupConnected(r)
    \/ ContinueConnected(r)
    \/ Abort(r) /\ UNCHANGED connected

PoolSpec == PoolInit /\ [][PoolNext]_<<vars, connected>>

(* The event loop carries on every request that can go on.  To wait for a  *)
(* connection takes no more than that: the other requests are finitely     *)
(* many, and each of them gives its connection back for good.              *)
PoolFairSpec ==
  PoolSpec /\ \A r \in Request : WF_<<vars, connected>>(ContinueConnected(r))

-----------------------------------------------------------------------------

(* Every connection comes back, also that of a request that failed while   *)
(* others were waiting.                                                    *)
ConnectionsComeBack == \A r \in Request : r \in connected ~> r \notin connected
=============================================================================
