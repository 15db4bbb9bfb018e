----------------------------- MODULE JobListing ------------------------------
(***************************************************************************)
(* GET /jobs read page by page while jobs are being created: list_jobs of  *)
(* app/services/job_service.py, and the table of the dashboard, which      *)
(* offers a next page as long as page * page_size is below the total.      *)
(*                                                                         *)
(* The total and the page are two statements, each of which sees what is   *)
(* committed at its start.  Pages are cut by OFFSET out of the list in     *)
(* descending order of created_at.  That is the time the transaction of    *)
(* the insert began, so a row that commits late lands in the middle of the *)
(* list.  No row is ever deleted, and type and priority never change: Job  *)
(* stands for the jobs that match a filter on these.  A filter on the      *)
(* status, which rows do leave, is not represented; nor are two rows with  *)
(* the same created_at, whose order would be left open.                    *)
(***************************************************************************)
EXTENDS Naturals, FiniteSets

CONSTANTS
  Job,       \* the jobs that can ever match the filter
  PageSize   \* page_size of the requests

ASSUME ListingAssumption ==
  /\ IsFiniteSet(Job)
  /\ PageSize \in Nat \ {0}

VARIABLES
  created,    \* created_at of each job, 0 before its transaction begins
  committed,  \* the rows a statement can see
  pc,         \* what the reader does next
  page,       \* the page it asks for, or asked for last
  total,      \* total of the response
  items,      \* items of the response
  shown,      \* history: the jobs on all the pages read so far
  old         \* history: the jobs in the list when the reader began

vars == <<created, committed, pc, page, total, items, shown, old>>

readerVars == <<pc, page, total, items, shown, old>>

TypeOK ==
  /\ created \in [Job -> Nat]
  /\ committed \subseteq Job
  /\ pc \in {"count", "page", "read", "done"}
  /\ page \in Nat \ {0}
  /\ total \in Nat
  /\ items \subseteq Job
  /\ shown \subseteq Job
  /\ old \subseteq Job

Init ==
  /\ created = [j \in Job |-> 0]
  /\ committed = {}
  /\ pc = "count"
  /\ page = 1
  /\ total = 0
  /\ items = {}
  /\ shown = {}
  /\ old = {}

-----------------------------------------------------------------------------
(* Creations: now() is the time at which the transaction began.            *)

Begun == {j \in Job : created[j] # 0}

Begin(j) ==
  /\ created[j] = 0
  /\ created' = [created EXCEPT ![j] = Cardinality(Begun) + 1]
  /\ UNCHANGED <<committed, readerVars>>

Commit(j) ==
  /\ created[j] # 0
  /\ j \notin committed
  /\ committed' = committed \cup {j}
  /\ UNCHANGED <<created, readerVars>>

-----------------------------------------------------------------------------
(* list_jobs.                                                              *)

(* The committed jobs down to j, newest first: j is the row with the       *)
(* number Cardinality(UpTo(j)).                                            *)
UpTo(j) == {k \in committed : created[k] >= created[j]}

(* Faulty variant: the first page has the number 0.                        *)
OffsetFromZero(p) == p * PageSize

Offset(p) == (p - 1) * PageSize

(* Faulty variant: one row too few.                                        *)
PageButLast(p) ==
  {j \in committed : /\ Offset(p) < Cardinality(UpTo(j))
                     /\ Cardinality(UpTo(j)) < Offset(p) + PageSize}

(* OFFSET ... LIMIT page_size.                                             *)
Page(p) ==
  {j \in committed : /\ Offset(p) < Cardinality(UpTo(j))
                     /\ Cardinality(UpTo(j)) <= Offset(p) + PageSize}

CountJobs ==
  /\ pc = "count"
  /\ total' = Cardinality(committed)
  /\ old' = IF page = 1 THEN committed ELSE old
  /\ pc' = "page"
  /\ UNCHANGED <<created, committed, page, items, shown>>

ReadPage ==
  /\ pc = "page"
  /\ items' = Page(page)
  /\ shown' = shown \cup items'
  /\ pc' = "read"
  /\ UNCHANGED <<created, committed, page, total, old>>

(* Faulty variant: the number of pages is rounded down.                    *)
NextPageRoundedDown ==
  /\ pc = "read"
  /\ IF page < total \div PageSize
       THEN page' = page + 1 /\ pc' = "count"
       ELSE pc' = "done" /\ UNCHANGED page
  /\ UNCHANGED <<created, committed, total, items, shown, old>>

(* The next button of JobTable: a page is left as long as the total goes   *)
(* beyond it.                                                              *)
NextPage ==
  /\ pc = "read"
  /\ IF page * PageSize < total
       THEN page' = page + 1 /\ pc' = "count"
       ELSE pc' = "done" /\ UNCHANGED page
  /\ UNCHANGED <<created, committed, total, items, shown, old>>

Next ==
  \/ \E j \in Job : Begin(j) \/ Commit(j)
  \/ CountJobs
  \/ ReadPage
  \/ NextPage

Spec == Init /\ [][Next]_vars

-----------------------------------------------------------------------------

(* The pages the reader has been given.                                    *)
PagesRead == IF pc \in {"read", "done"} THEN page ELSE page - 1

(* What was in the list from the start and lies before the place where the *)
(* reader stands has been shown: creations, late or not, push rows on to   *)
(* pages to come and never back behind the reader.  It does not say that   *)
(* the reader gets to those pages, see MissedAreOutnumbered.               *)
NothingIsJumped ==
  \A j \in old : Cardinality(UpTo(j)) <= PagesRead * PageSize => j \in shown

(* A reader who has come to the end goes by the total of the last page,    *)
(* which may be stale: rows committed after that count push rows that were *)
(* there from the start beyond it, and these are never shown.  No more of  *)
(* them than have been committed since; if none has, none is missed.       *)
MissedAreOutnumbered ==
  pc = "done" => Cardinality(old \ shown) <= Cardinality(committed) - total

(* A page is no shorter than its total says: the row count the dashboard   *)
(* prints above the table is never ahead of the table.                     *)
PageIsFull ==
  pc = "read" =>
    \/ Cardinality(items) = PageSize
    \/ Cardinality(items) + Offset(page) >= total

(* What one might take NothingIsJumped for: that a reader who has come to  *)
(* the end has seen every job that was there from the start.               *)
NothingIsMissed == pc = "done" => old \subseteq shown
=============================================================================
