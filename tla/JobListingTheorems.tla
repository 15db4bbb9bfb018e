------------------------- MODULE JobListingTheorems --------------------------
(***************************************************************************)
(* Proofs about JobListing, for any number of jobs and any size of the     *)
(* page: no job that was there from the start comes to lie, unshown,       *)
(* behind a reader of the pages; no page is shorter than the total says;   *)
(* and who has come to the end has missed at most as many jobs as were     *)
(* committed after the last total was counted.                             *)
(***************************************************************************)
EXTENDS JobListing, FiniteSetTheorems, TLAPS

(* What the induction needs besides: only a job whose creation has begun   *)
(* is committed, so no row that is in the list ever changes its place      *)
(* except by rows that come to lie before it.                              *)
ListInv ==
  /\ TypeOK
  /\ committed \subseteq Begun
  /\ old \subseteq committed
  /\ NothingIsJumped

-----------------------------------------------------------------------------

(* Rows are numbered by naturals.                                          *)
LEMMA RowNumbers ==
  ASSUME TypeOK, NEW j \in Job
  PROVE  /\ IsFiniteSet(UpTo(j))
         /\ Cardinality(UpTo(j)) \in Nat
         /\ j \in committed => Cardinality(UpTo(j)) > 0
<1>1. UpTo(j) \subseteq Job
  BY DEF TypeOK, UpTo
<1>2. IsFiniteSet(UpTo(j))
  BY <1>1, ListingAssumption, FS_Subset
<1>3. Cardinality(UpTo(j)) \in Nat
  BY <1>2, FS_CardinalityType
<1>4. j \in committed => j \in UpTo(j)
  BY DEF TypeOK, UpTo
<1>5. j \in committed => Cardinality(UpTo(j)) # 0
  BY <1>2, <1>4, FS_EmptySet
<1> QED
  BY <1>2, <1>3, <1>5

(* A page begins where the page before it ended.                           *)
LEMMA PagesAdjoin ==
  ASSUME NEW p \in Nat \ {0}
  PROVE  /\ Offset(p) \in Nat
         /\ Offset(p) + PageSize = p * PageSize
<1>1. PageSize \in Nat
  BY ListingAssumption
<1> QED
  BY <1>1 DEF Offset

LEMMA Start == ASSUME Init PROVE ListInv
<1>1. TypeOK
  BY DEF Init, TypeOK
<1>2. committed = {} /\ old = {}
  BY DEF Init
<1> QED
  BY <1>1, <1>2 DEF ListInv, NothingIsJumped

(* A creation that begins takes no place in the list yet.                  *)
LEMMA BeginKeeps ==
  ASSUME ListInv, NEW i \in Job, Begin(i)
  PROVE  ListInv'
<1> USE DEF ListInv
<1>1. Cardinality(Begun) + 1 \in Nat \ {0}
  <2>1. IsFiniteSet(Begun)
    BY ListingAssumption, FS_Subset DEF Begun
  <2> QED
    BY <2>1, FS_CardinalityType
<1>2. TypeOK'
  BY <1>1 DEF TypeOK, Begin, readerVars
<1>3. committed' = committed /\ old' = old /\ shown' = shown
  BY DEF Begin, readerVars
<1>4. \A j \in committed : j # i /\ created'[j] = created[j]
  BY DEF TypeOK, Begin, Begun
<1>5. (committed \subseteq Begun)'
  BY <1>3, <1>4 DEF TypeOK, Begun
<1>6. \A j \in committed : UpTo(j)' = UpTo(j)
  BY <1>3, <1>4 DEF UpTo
<1>7. PagesRead' = PagesRead
  BY DEF Begin, readerVars, PagesRead
<1>8. NothingIsJumped'
  BY <1>3, <1>6, <1>7 DEF NothingIsJumped
<1> QED
  BY <1>2, <1>3, <1>5, <1>8

(* A commit moves rows towards later pages: their numbers only grow.       *)
LEMMA CommitKeeps ==
  ASSUME ListInv, NEW i \in Job, Commit(i)
  PROVE  ListInv'
<1> USE DEF ListInv
<1>1. TypeOK'
  BY DEF TypeOK, Commit, readerVars
<1>2. /\ committed \subseteq committed' /\ created' = created
      /\ old' = old /\ shown' = shown /\ PagesRead' = PagesRead
  BY DEF Commit, readerVars, PagesRead
<1>3. (committed \subseteq Begun)' /\ (old \subseteq committed)'
  BY <1>2 DEF Commit, Begun
<1>4. ASSUME NEW j \in old
      PROVE  Cardinality(UpTo(j)) <= Cardinality(UpTo(j)')
  <2>1. j \in Job
    BY DEF TypeOK
  <2>2. UpTo(j) \subseteq UpTo(j)'
    BY <1>2 DEF UpTo
  <2>3. IsFiniteSet(UpTo(j)')
    BY <1>1, <2>1, ListingAssumption, FS_Subset DEF TypeOK, UpTo
  <2> QED
    BY <2>2, <2>3, FS_Subset
<1>5. ASSUME NEW j \in old, Cardinality(UpTo(j)') <= PagesRead * PageSize
      PROVE  j \in shown
  <2>1. Cardinality(UpTo(j)) \in Nat /\ Cardinality(UpTo(j)') \in Nat
    <3>1. j \in Job
      BY DEF TypeOK
    <3>2. IsFiniteSet(UpTo(j)')
      BY <1>1, <3>1, ListingAssumption, FS_Subset DEF TypeOK, UpTo
    <3> QED
      BY <3>1, <3>2, RowNumbers, FS_CardinalityType
  <2>2. PagesRead * PageSize \in Int
    BY ListingAssumption DEF TypeOK, PagesRead
  <2>3. Cardinality(UpTo(j)) <= PagesRead * PageSize
    BY <1>4, <1>5, <2>1, <2>2
  <2> QED
    BY <2>3 DEF NothingIsJumped
<1>6. NothingIsJumped'
  BY <1>2, <1>5 DEF NothingIsJumped
<1> QED
  BY <1>1, <1>3, <1>6

(* The first count is where old is taken; no page has been read then.      *)
LEMMA CountKeeps == ASSUME ListInv, CountJobs PROVE ListInv'
<1> USE DEF ListInv
<1>1. IsFiniteSet(committed)
  BY ListingAssumption, FS_Subset DEF TypeOK
<1>2. Cardinality(committed) \in Nat
  BY <1>1, FS_CardinalityType
<1>3. TypeOK'
  BY <1>2 DEF TypeOK, CountJobs
<1>4. (committed \subseteq Begun)' /\ (old \subseteq committed)'
  BY DEF CountJobs, Begun
<1>5. /\ \A j : UpTo(j)' = UpTo(j)
      /\ shown' = shown /\ PagesRead' = PagesRead /\ PagesRead = page - 1
  BY DEF CountJobs, UpTo, PagesRead
<1>6. CASE page = 1
  <2>1. old' = committed
    BY <1>6 DEF CountJobs
  <2>2. PagesRead * PageSize = 0
    BY <1>5, <1>6, ListingAssumption
  <2>3. \A j \in committed : Cardinality(UpTo(j)) \in Nat \ {0}
    BY RowNumbers DEF TypeOK
  <2>4. \A j \in committed : ~(Cardinality(UpTo(j)) <= 0)
    BY <2>3
  <2> QED
    BY <1>3, <1>4, <1>5, <2>1, <2>2, <2>4 DEF NothingIsJumped
<1>7. CASE page # 1
  <2>1. old' = old
    BY <1>7 DEF CountJobs
  <2> QED
    BY <1>3, <1>4, <1>5, <2>1 DEF NothingIsJumped
<1> QED
  BY <1>6, <1>7

(* A page shows exactly the rows that lie behind the pages before it.      *)
LEMMA ReadKeeps == ASSUME ListInv, ReadPage PROVE ListInv'
<1> USE DEF ListInv
<1>1. TypeOK'
  BY DEF TypeOK, ReadPage, Page
<1>2. (committed \subseteq Begun)' /\ (old \subseteq committed)'
  BY DEF ReadPage, Begun
<1>3. /\ \A j : UpTo(j)' = UpTo(j)
      /\ old' = old /\ PagesRead = page - 1 /\ PagesRead' = page
      /\ shown' = shown \cup Page(page)
  BY DEF ReadPage, UpTo, PagesRead
<1>4. ASSUME NEW j \in old, Cardinality(UpTo(j)) <= page * PageSize
      PROVE  j \in shown \cup Page(page)
  <2>1. j \in committed /\ Cardinality(UpTo(j)) \in Nat
    BY RowNumbers DEF TypeOK
  <2>2. /\ Offset(page) \in Nat
        /\ Offset(page) + PageSize = page * PageSize
    BY PagesAdjoin DEF TypeOK
  <2>3. CASE Cardinality(UpTo(j)) <= Offset(page)
    BY <1>3, <2>3 DEF NothingIsJumped, Offset
  <2>4. CASE Offset(page) < Cardinality(UpTo(j))
    BY <1>4, <2>1, <2>2, <2>4 DEF Page
  <2> QED
    BY <2>1, <2>2, <2>3, <2>4
<1>5. NothingIsJumped'
  BY <1>3, <1>4 DEF NothingIsJumped
<1> QED
  BY <1>1, <1>2, <1>5

LEMMA NextPageKeeps == ASSUME ListInv, NextPage PROVE ListInv'
<1> USE DEF ListInv
<1>1. TypeOK'
  BY DEF TypeOK, NextPage
<1>2. (committed \subseteq Begun)' /\ (old \subseteq committed)'
  BY DEF NextPage, Begun
<1>3. /\ \A j : UpTo(j)' = UpTo(j)
      /\ old' = old /\ shown' = shown
  BY DEF NextPage, UpTo
<1>4. PagesRead' = PagesRead
  BY DEF TypeOK, NextPage, PagesRead
<1>5. NothingIsJumped'
  BY <1>3, <1>4 DEF NothingIsJumped
<1> QED
  BY <1>1, <1>2, <1>5

LEMMA StepKeeps == ASSUME ListInv, [Next]_vars PROVE ListInv'
<1>1. ASSUME NEW j \in Job, Begin(j) PROVE ListInv'
  BY <1>1, BeginKeeps
<1>2. ASSUME NEW j \in Job, Commit(j) PROVE ListInv'
  BY <1>2, CommitKeeps
<1>3. ASSUME UNCHANGED vars PROVE ListInv'
  BY <1>3 DEF vars, ListInv, TypeOK, Begun, NothingIsJumped, UpTo, PagesRead
<1> QED
  BY <1>1, <1>2, <1>3, CountKeeps, ReadKeeps, NextPageKeeps DEF Next

LEMMA ListInvariance == Spec => []ListInv
<1> QED
  BY Start, StepKeeps, PTL DEF Spec

-----------------------------------------------------------------------------

(* Every state of the listing has its type: total and page of list_jobs    *)
(* stay numbers, items and shown sets of jobs.                             *)
THEOREM ListingTypes == Spec => []TypeOK
<1>1. ListInv => TypeOK
  BY DEF ListInv
<1> QED
  BY <1>1, ListInvariance, PTL

(* A job that was in the list when the reader began, and that lies on one  *)
(* of the pages read so far, has been shown: whatever is created and       *)
(* committed between pages, OFFSET brings no row back behind the reader.   *)
THEOREM NothingFallsBehind == Spec => []NothingIsJumped
<1>1. ListInv => NothingIsJumped
  BY DEF ListInv
<1> QED
  BY <1>1, ListInvariance, PTL

-----------------------------------------------------------------------------
(* The length of a page.                                                   *)

(* Elements that are numbered from 1 on without repetition fill a page     *)
(* from lo to hi.                                                          *)
LEMMA NumbersFillPages ==
  ASSUME NEW S, IsFiniteSet(S),
         NEW rank \in [S -> 1 .. Cardinality(S)],
         \A x, y \in S : rank[x] = rank[y] => x = y,
         NEW lo \in Nat, NEW hi \in Nat, lo <= hi, hi <= Cardinality(S)
  PROVE  Cardinality({x \in S : lo < rank[x] /\ rank[x] <= hi}) = hi - lo
<1> DEFINE n == Cardinality(S)
           T == {x \in S : lo < rank[x] /\ rank[x] <= hi}
           g == [x \in T |-> rank[x]]
           U == lo + 1 .. hi
<1>1. n \in Nat
  BY FS_CardinalityType
<1>2. rank \in Injection(S, 1 .. n)
  BY DEF Injection, IsInjective
<1>3. IsFiniteSet(1 .. n) /\ Cardinality(1 .. n) = n
  BY <1>1, FS_Interval
<1>4. rank \in Surjection(S, 1 .. n)
  BY <1>2, <1>3, FS_Injection
<1>5. g \in [T -> U]
  BY <1>1
<1>6. g \in Injection(T, U)
  BY <1>5 DEF Injection, IsInjective
<1>7. ASSUME NEW u \in U PROVE \E x \in T : g[x] = u
  <2>1. u \in 1 .. n
    BY <1>1
  <2>2. PICK x \in S : rank[x] = u
    BY <1>4, <2>1 DEF Surjection
  <2>3. x \in T
    BY <2>2
  <2> QED
    BY <2>2, <2>3
<1>8. g \in Surjection(T, U)
  BY <1>5, <1>7 DEF Surjection
<1>9. IsFiniteSet(U) /\ Cardinality(U) = hi - lo
  <2>1. lo + 1 \in Int /\ hi \in Int
    OBVIOUS
  <2>2. /\ IsFiniteSet(lo + 1 .. hi)
        /\ Cardinality(lo + 1 .. hi) = IF lo + 1 > hi THEN 0 ELSE hi - (lo + 1) + 1
    BY <2>1, FS_Interval
  <2> QED
    BY <2>2
<1> HIDE DEF T, g, U
<1>10. Cardinality(T) = Cardinality(U)
  BY <1>6, <1>8, <1>9, FS_Injection
<1> QED
  BY <1>9, <1>10 DEF T

(* now() is never the same in two creations, and a total that was counted  *)
(* is of rows that are still there when the page is read.                  *)
OrderInv ==
  /\ \A j \in Job : created[j] <= Cardinality(Begun)
  /\ \A j, k \in Begun : created[j] = created[k] => j = k
  /\ pc = "page" => total <= Cardinality(committed)

FullInv == OrderInv /\ PageIsFull

(* The rows of the list are numbered from 1 on without repetition.         *)
LEMMA RowsAreNumbered ==
  ASSUME ListInv, OrderInv
  PROVE  /\ \A j \in committed : Cardinality(UpTo(j)) \in 1 .. Cardinality(committed)
         /\ \A j, k \in committed :
              Cardinality(UpTo(j)) = Cardinality(UpTo(k)) => j = k
<1>1. committed \subseteq Job /\ IsFiniteSet(committed)
  BY ListingAssumption, FS_Subset DEF ListInv, TypeOK
<1>2. ASSUME NEW j \in committed
      PROVE  Cardinality(UpTo(j)) \in 1 .. Cardinality(committed)
  <2>1. UpTo(j) \subseteq committed
    BY DEF UpTo
  <2>2. Cardinality(UpTo(j)) <= Cardinality(committed)
    BY <1>1, <2>1, FS_Subset
  <2>3. Cardinality(UpTo(j)) \in Nat /\ Cardinality(UpTo(j)) > 0
    BY <1>1, RowNumbers DEF ListInv
  <2>4. Cardinality(committed) \in Nat
    BY <1>1, FS_CardinalityType
  <2> QED
    BY <2>2, <2>3, <2>4
<1>3. ASSUME NEW j \in committed, NEW k \in committed, created[j] < created[k]
      PROVE  Cardinality(UpTo(j)) # Cardinality(UpTo(k))
  <2>1. created[j] \in Nat /\ created[k] \in Nat
    BY <1>1 DEF ListInv, TypeOK
  <2>2. UpTo(k) \subseteq UpTo(j)
    BY <1>1, <1>3, <2>1 DEF UpTo, ListInv, TypeOK
  <2>3. j \in UpTo(j) /\ j \notin UpTo(k)
    BY <1>3, <2>1 DEF UpTo
  <2>4. IsFiniteSet(UpTo(j))
    BY <1>1, RowNumbers DEF ListInv
  <2> QED
    BY <2>2, <2>3, <2>4, FS_Subset
<1>4. ASSUME NEW j \in committed, NEW k \in committed,
             Cardinality(UpTo(j)) = Cardinality(UpTo(k))
      PROVE  j = k
  <2>1. created[j] \in Nat /\ created[k] \in Nat
    BY <1>1 DEF ListInv, TypeOK
  <2>2. created[j] = created[k]
    BY <1>3, <1>4, <2>1
  <2> QED
    BY <2>2 DEF OrderInv, ListInv
<1> QED
  BY <1>2, <1>4

(* A page is full unless the list ends on it or before it.                 *)
LEMMA PageLength ==
  ASSUME ListInv, OrderInv, NEW p \in Nat \ {0}
  PROVE  \/ Cardinality(Page(p)) = PageSize
         \/ Cardinality(Page(p)) + Offset(p) >= Cardinality(committed)
<1> DEFINE n == Cardinality(committed)
           rank == [j \in committed |-> Cardinality(UpTo(j))]
           In(hi) == {j \in committed : Offset(p) < rank[j] /\ rank[j] <= hi}
<1>1. IsFiniteSet(committed) /\ n \in Nat
  BY ListingAssumption, FS_Subset, FS_CardinalityType DEF ListInv, TypeOK
<1>2. /\ rank \in [committed -> 1 .. n]
      /\ \A j, k \in committed : rank[j] = rank[k] => j = k
  BY RowsAreNumbered
<1>3. Offset(p) \in Nat /\ PageSize \in Nat \ {0}
  BY PagesAdjoin, ListingAssumption
<1>4. Page(p) = In(Offset(p) + PageSize)
  BY DEF Page
<1>5. Cardinality(Page(p)) \in Nat
  <2>1. IsFiniteSet(Page(p))
    BY <1>1, FS_Subset DEF Page
  <2> QED
    BY <2>1, FS_CardinalityType
<1> HIDE DEF rank
<1>6. ASSUME NEW hi \in Nat, Offset(p) <= hi, hi <= n
      PROVE  Cardinality(In(hi)) = hi - Offset(p)
  BY <1>1, <1>2, <1>3, <1>6, NumbersFillPages
<1>7. CASE Offset(p) + PageSize <= n
  <2>1. Cardinality(In(Offset(p) + PageSize)) = PageSize
    BY <1>1, <1>3, <1>6, <1>7
  <2> QED
    BY <1>4, <2>1
<1>8. CASE Offset(p) <= n /\ n < Offset(p) + PageSize
  <2>1. In(Offset(p) + PageSize) = In(n)
    BY <1>1, <1>2, <1>3, <1>8
  <2>2. Cardinality(In(n)) = n - Offset(p)
    BY <1>1, <1>6, <1>8
  <2> QED
    BY <1>1, <1>3, <1>4, <2>1, <2>2
<1>9. CASE n < Offset(p)
  BY <1>1, <1>3, <1>5, <1>9
<1> QED
  BY <1>1, <1>3, <1>7, <1>8, <1>9

(* A creation takes the time after that of the one before.                 *)
LEMMA BeginKeepsOrder ==
  ASSUME ListInv, FullInv, NEW i \in Job, Begin(i)
  PROVE  FullInv'
<1> USE DEF FullInv, OrderInv
<1>1. IsFiniteSet(Begun)
  BY ListingAssumption, FS_Subset DEF Begun
<1>2. Cardinality(Begun) \in Nat
  BY <1>1, FS_CardinalityType
<1>3. i \notin Begun /\ Begun' = Begun \cup {i}
  <2> DEFINE time == Cardinality(Begun) + 1
  <2>1. time \in Nat \ {0} /\ created' = [created EXCEPT ![i] = time]
    BY <1>2 DEF Begin
  <2> HIDE DEF time
  <2>2. created \in [Job -> Nat] /\ created[i] = 0
    BY DEF Begin, ListInv, TypeOK
  <2>3. \A j \in Job : created'[j] # 0 <=> (created[j] # 0 \/ j = i)
    BY <2>1, <2>2
  <2>4. Begun' = {j \in Job : created'[j] # 0}
    BY DEF Begun
  <2>5. Begun = {j \in Job : created[j] # 0}
    BY DEF Begun
  <2> QED
    BY Zenon, <2>2, <2>3, <2>4, <2>5
<1>4. Cardinality(Begun') = Cardinality(Begun) + 1
  BY <1>1, <1>3, FS_AddElement
<1>5. /\ created'[i] = Cardinality(Begun) + 1
      /\ \A j \in Job \ {i} : created'[j] = created[j]
      /\ \A j \in Job : created[j] \in Nat
  BY DEF Begin, ListInv, TypeOK
<1>6. \A j \in Job : created'[j] <= Cardinality(Begun')
  BY <1>2, <1>4, <1>5
<1>7. \A j, k \in Begun' : created'[j] = created'[k] => j = k
  <2>1. \A j \in Begun : j \in Job /\ j # i /\ created'[j] # created'[i]
    BY <1>2, <1>3, <1>5 DEF Begun
  <2> QED
    BY <1>3, <1>5, <2>1
<1>8. UNCHANGED <<committed, pc, page, total, items>>
  BY DEF Begin, readerVars
<1> QED
  BY <1>6, <1>7, <1>8 DEF PageIsFull, Offset

(* FullInv is kept by every step.                                          *)
LEMMA FullInductive ==
  ASSUME ListInv, FullInv, [Next]_vars
  PROVE  FullInv'
<1> USE DEF FullInv, OrderInv
<1>1. ASSUME UNCHANGED created
      PROVE  /\ \A j \in Job : created'[j] <= Cardinality(Begun')
             /\ \A j, k \in Begun' : created'[j] = created'[k] => j = k
  BY <1>1 DEF Begun
<1>2. IsFiniteSet(committed) /\ Cardinality(committed) \in Nat
  BY ListingAssumption, FS_Subset, FS_CardinalityType DEF ListInv, TypeOK
<1>3. ASSUME NEW i \in Job, Commit(i)
      PROVE  FullInv'
  <2>1. UNCHANGED <<created, pc, page, total, items>>
    BY <1>3 DEF Commit, readerVars
  <2>2. Cardinality(committed') = Cardinality(committed) + 1
    BY <1>2, <1>3, FS_AddElement DEF Commit
  <2>3. pc = "page" => total <= Cardinality(committed')
    BY <1>2, <2>2 DEF ListInv, TypeOK
  <2> QED
    BY <1>1, <2>1, <2>3 DEF PageIsFull, Offset
<1>4. CASE CountJobs
  <2>1. UNCHANGED <<created, committed>> /\ pc' = "page"
        /\ total' = Cardinality(committed)
    BY <1>4 DEF CountJobs
  <2> QED
    BY <1>1, <1>2, <2>1 DEF PageIsFull
<1>5. CASE ReadPage
  <2>1. /\ UNCHANGED <<created, committed, page, total>>
        /\ pc = "page" /\ pc' = "read" /\ items' = Page(page)
    BY <1>5 DEF ReadPage
  <2>2. page \in Nat \ {0} /\ total \in Nat
    BY DEF ListInv, TypeOK
  <2>3. \/ Cardinality(items') = PageSize
        \/ Cardinality(items') + Offset(page) >= Cardinality(committed)
    BY <2>1, <2>2, PageLength
  <2>4. Cardinality(items') \in Nat /\ Offset(page) \in Nat
    <3>1. IsFiniteSet(items')
      BY <1>2, <2>1, FS_Subset DEF Page
    <3> QED
      BY <2>2, <3>1, FS_CardinalityType, PagesAdjoin
  <2>5. \/ Cardinality(items') = PageSize
        \/ Cardinality(items') + Offset(page) >= total
    BY <1>2, <2>1, <2>2, <2>3, <2>4
  <2> QED
    BY <1>1, <2>1, <2>5 DEF PageIsFull, Offset
<1>6. CASE NextPage
  <2>1. UNCHANGED created /\ pc' \in {"count", "done"}
    BY <1>6 DEF NextPage
  <2> QED
    BY <1>1, <2>1 DEF PageIsFull
<1>7. CASE UNCHANGED vars
  BY <1>1, <1>7 DEF vars, PageIsFull, Offset
<1> QED
  BY <1>3, <1>4, <1>5, <1>6, <1>7, BeginKeepsOrder DEF Next

(* FullInv holds all along.                                                *)
LEMMA FullInvariance == Spec => []FullInv
<1>1. Init => FullInv
  <2> SUFFICES ASSUME Init PROVE FullInv
    OBVIOUS
  <2>1. pc = "count" /\ \A j \in Job : created[j] = 0
    BY DEF Init
  <2>2. Begun = {}
    BY <2>1 DEF Begun
  <2>3. Cardinality(Begun) = 0
    BY <2>2, FS_EmptySet
  <2> QED
    BY <2>1, <2>2, <2>3 DEF FullInv, OrderInv, PageIsFull
<1>2. ListInv /\ FullInv /\ [Next]_vars => FullInv'
  BY FullInductive
<1> QED
  BY <1>1, <1>2, ListInvariance, PTL DEF Spec

(* No page of list_jobs is shorter than the total it comes with allows,    *)
(* although the count and the page are two statements and rows are         *)
(* committed in between.                                                   *)
THEOREM PagesAreFull == Spec => []PageIsFull
<1>1. FullInv => PageIsFull
  BY DEF FullInv
<1> QED
  BY <1>1, FullInvariance, PTL

-----------------------------------------------------------------------------
(* What a reader who has come to the end has missed.                       *)

(* The last total was counted of rows that are still there, and the pages  *)
(* read reach as far as it says.                                           *)
EndInv ==
  /\ pc # "count" => total <= Cardinality(committed)
  /\ pc = "done" => total <= page * PageSize

(* Rows are only added, and the button stays enabled up to the total.      *)
LEMMA EndStep ==
  ASSUME ListInv, EndInv, [Next]_vars
  PROVE  EndInv'
<1> USE DEF EndInv
<1>1. /\ IsFiniteSet(committed) /\ Cardinality(committed) \in Nat
      /\ total \in Nat /\ page \in Nat /\ PageSize \in Nat /\ page * PageSize \in Nat
  BY ListingAssumption, FS_Subset, FS_CardinalityType DEF ListInv, TypeOK
<1>2. ASSUME NEW i \in Job, Commit(i)
      PROVE  EndInv'
  <2>1. UNCHANGED <<pc, page, total>>
    BY <1>2 DEF Commit, readerVars
  <2>2. Cardinality(committed') = Cardinality(committed) + 1
    BY <1>1, <1>2, FS_AddElement DEF Commit
  <2> QED
    BY <1>1, <2>1, <2>2
<1>3. CASE CountJobs
  BY <1>1, <1>3 DEF CountJobs
<1>4. CASE ReadPage
  BY <1>4 DEF ReadPage
<1>5. CASE NextPage
  BY <1>1, <1>5 DEF NextPage
<1>6. ASSUME NEW i \in Job, Begin(i)
      PROVE  EndInv'
  BY <1>6 DEF Begin, readerVars
<1>7. CASE UNCHANGED vars
  BY <1>7 DEF vars
<1> QED
  BY <1>2, <1>3, <1>4, <1>5, <1>6, <1>7 DEF Next

(* The rows that were missed lie beyond the total, and there are only as   *)
(* many places beyond it as the list has grown by.                         *)
LEMMA MissedLieBeyond ==
  ASSUME ListInv, OrderInv, EndInv, pc = "done"
  PROVE  Cardinality(old \ shown) <= Cardinality(committed) - total
<1> DEFINE n == Cardinality(committed)
           rank == [j \in committed |-> Cardinality(UpTo(j))]
           Beyond == {j \in committed : total < rank[j] /\ rank[j] <= n}
<1>1. /\ IsFiniteSet(committed) /\ n \in Nat /\ total \in Nat /\ total <= n
      /\ page * PageSize \in Nat /\ total <= page * PageSize
  BY ListingAssumption, FS_Subset, FS_CardinalityType DEF ListInv, TypeOK, EndInv
<1>2. /\ rank \in [committed -> 1 .. n]
      /\ \A j, k \in committed : rank[j] = rank[k] => j = k
  BY RowsAreNumbered
<1>3. ASSUME NEW j \in old \ shown
      PROVE  j \in Beyond
  <2>1. j \in committed /\ rank[j] = Cardinality(UpTo(j)) /\ rank[j] \in 1 .. n
    BY <1>2 DEF ListInv
  <2>2. ~(Cardinality(UpTo(j)) <= page * PageSize)
    BY DEF ListInv, NothingIsJumped, PagesRead
  <2> HIDE DEF rank
  <2> QED
    BY <1>1, <2>1, <2>2
<1> HIDE DEF rank
<1>4. Cardinality(Beyond) = n - total
  BY <1>1, <1>2, NumbersFillPages
<1>5. Cardinality(old \ shown) <= Cardinality(Beyond)
  <2>1. IsFiniteSet(Beyond)
    BY <1>1, FS_Subset
  <2> HIDE DEF Beyond
  <2> QED
    BY <1>3, <2>1, FS_Subset
<1> QED
  BY <1>4, <1>5

(* A reader who has come to the end of the pages has missed no more of the *)
(* jobs that were there from the start than have been committed since the  *)
(* total of the last page was counted: none, if nothing has been.          *)
THEOREM MissedAreLate == Spec => []MissedAreOutnumbered
<1>1. Init => EndInv
  BY DEF Init, EndInv
<1>2. ListInv /\ EndInv /\ [Next]_vars => EndInv'
  BY EndStep
<1>3. ListInv /\ FullInv /\ EndInv => MissedAreOutnumbered
  BY MissedLieBeyond DEF FullInv, MissedAreOutnumbered
<1> QED
  BY <1>1, <1>2, <1>3, ListInvariance, FullInvariance, PTL DEF Spec
=============================================================================
