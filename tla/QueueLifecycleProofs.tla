------------------------ MODULE QueueLifecycleProofs ------------------------
(***************************************************************************)
(* Theorems about QueueLifecycle, for any requests and any bucket size.    *)
(***************************************************************************)
EXTENDS QueueLifecycle, TLAPS

-----------------------------------------------------------------------------
(* Type correctness *)

Rows == [status : Provisioning .. Inactive, version : Versions]
Pointers == [repair : Nat, invis : Nat \union {-1}]

LEMMA BucketIsNatural ==
  ASSUME NEW i \in Nat
  PROVE  Bucket(i) \in Nat
BY BucketSizeAssumption DEF Bucket

LEMMA RowIsNotNil == Nil \notin Rows
<1>1. Provisioning .. Inactive \subseteq Nat /\ Versions \subseteq Nat
  BY DEF Versions, CallerVersion, Provisioning, Inactive
<1>2. \A r \in Rows : r \in [status : Nat, version : Nat]
  BY <1>1 DEF Rows
<1> QED
  BY <1>2, NilAssumption

LEMMA TypeInit == Init => TypeOK
BY MaxIndexAssumption DEF Init, TypeOK, Versions, CallerVersion, Index

\* The row of a creator's statements
LEMMA CreatorKeepsTypes ==
  ASSUME TypeOK, NEW c \in Creators, InsertQueue(c) \/ CreatorStep(c) \/ CrashCreator(c)
  PROVE  TypeOK'
<1> USE DEF TypeOK, CGoto, CreatorEnds, Versions, CallerVersion, Provisioning, Active, Deleting, Inactive
<1>1. CASE InsertQueue(c)
  BY <1>1 DEF InsertQueue, deleters, publishers
<1>2. CASE ReadCurrent(c)
  BY <1>2 DEF ReadCurrent, tables, deleters, publishers
<1>3. CASE EnsureMonoton(c)
  BY <1>3, MaxIndexAssumption DEF EnsureMonoton, deleters, publishers
<1>4. CASE EnsurePointers(c)
  BY <1>4 DEF EnsurePointers, InitialPointers, deleters, publishers
<1>5. CASE Activate(c)
  BY <1>5 DEF Activate, HasStatus, deleters, publishers
<1>6. CASE UpdateDefinition(c)
  BY <1>6 DEF UpdateDefinition, deleters, publishers
<1>7. CASE CrashCreator(c)
  BY <1>7 DEF CrashCreator, tables, deleters, publishers
<1> QED
  BY <1>1, <1>2, <1>3, <1>4, <1>5, <1>6, <1>7 DEF CreatorStep

LEMMA TryAdvanceKeepsTypes ==
  ASSUME TypeOK, NEW d \in Deleters, NEW status \in {PendingDelete, Deleting, Inactive},
         NEW onSuccess \in {"insertJob", "readRepair", "end", "deleteJob"},
         NEW onFailure \in {"end", "deleteJob"},
         TryAdvance(d, status, onSuccess, onFailure),
         UNCHANGED <<jobs, monoton, pointers, messages, dVersion, dJob, dRange, creators, publishers>>
  PROVE  TypeOK'
<1> USE DEF TypeOK, Provisioning, Active, PendingDelete, Deleting, Inactive, creators, publishers
<1>1. row' \in Rows \union {Nil}
  BY DEF TryAdvance, HasStatus, Rows
<1>2. dpc' \in [Deleters -> {"idle", "markPending", "insertJob", "markDeleting", "readRepair",
                             "readInvis", "readMonoton", "deleteMessages", "deleteMonotons",
                             "deletePointers", "markInactive", "deleteJob", "deleteRow", "end"}]
  BY DEF TryAdvance
<1>3. dTry' \in [Deleters -> {"previous", "equal"}]
  BY DEF TryAdvance
<1> QED
  BY <1>1, <1>2, <1>3 DEF Rows

LEMMA DeleterKeepsTypes ==
  ASSUME TypeOK, NEW d \in Deleters, GetActiveQueue(d) \/ DeleterStep(d) \/ CrashDeleter(d)
  PROVE  TypeOK'
<1> USE DEF TypeOK, DGoto, DeleterEnds, tables, creators, publishers
<1>1. CASE GetActiveQueue(d)
  BY <1>1 DEF GetActiveQueue, InUse, HasStatus
<1>2. CASE MarkPendingDelete(d)
  BY <1>2, TryAdvanceKeepsTypes DEF MarkPendingDelete
<1>3. CASE InsertDeletionJob(d)
  BY <1>3 DEF InsertDeletionJob
<1>4. CASE MarkDeleting(d)
  BY <1>4, TryAdvanceKeepsTypes DEF MarkDeleting
<1>5. CASE ReadRepairPointer(d)
  BY <1>5 DEF ReadRepairPointer
<1>6. CASE ReadInvisPointer(d)
  BY <1>6 DEF ReadInvisPointer
<1>7. CASE ReadMonoton(d)
  BY <1>7 DEF ReadMonoton
<1>8. CASE DeleteMessages(d)
  BY <1>8 DEF DeleteMessages
<1>9. CASE DeleteMonotons(d)
  BY <1>9 DEF DeleteMonotons
<1>10. CASE DeletePointers(d)
  BY <1>10 DEF DeletePointers
<1>11. CASE MarkInactive(d)
  BY <1>11, TryAdvanceKeepsTypes DEF MarkInactive
<1>12. CASE DeleteCompletionJob(d)
  BY <1>12 DEF DeleteCompletionJob
<1>13. CASE DeleteIfInactive(d)
  BY <1>13 DEF DeleteIfInactive, Versions, CallerVersion
<1>14. CASE Return(d) \/ CrashDeleter(d)
  BY <1>14 DEF Return, CrashDeleter, Versions, CallerVersion
<1> QED
  BY <1>1, <1>2, <1>3, <1>4, <1>5, <1>6, <1>7, <1>8, <1>9, <1>10, <1>11, <1>12, <1>13, <1>14
  DEF DeleterStep

LEMMA PublisherKeepsTypes ==
  ASSUME TypeOK, NEW p \in Publishers, LookupQueue(p) \/ PublisherStep(p)
  PROVE  TypeOK'
<1> USE MaxIndexAssumption
    DEF TypeOK, PublisherEnds, tables, creators, deleters, Index, Versions, CallerVersion
<1>1. CASE LookupQueue(p)
  BY <1>1 DEF LookupQueue, InUse, HasStatus
<1>2. CASE NextMonotonic(p)
  BY <1>2 DEF NextMonotonic
<1>3. CASE PutMessage(p)
  BY <1>3 DEF PutMessage
<1> QED
  BY <1>1, <1>2, <1>3 DEF PublisherStep

LEMMA PointersKeepTypes ==
  ASSUME TypeOK, NEW v \in Versions, RepairBucket(v) \/ PassInvisBucket(v)
  PROVE  TypeOK'
<1> USE DEF TypeOK, creators, deleters, publishers
<1>1. CASE RepairBucket(v)
  <2>1. pointers[v] \in Pointers /\ pointers[v].repair + 1 \in Nat
    BY <1>1 DEF RepairBucket, Pointers
  <2>2. pointers' \in [Versions -> Pointers \union {Nil}]
    BY <1>1, <2>1 DEF RepairBucket, Pointers
  <2>3. messages' \in [Versions -> SUBSET Index]
    BY <1>1 DEF RepairBucket
  <2> QED
    BY <1>1, <2>2, <2>3 DEF RepairBucket, Pointers
<1>2. CASE PassInvisBucket(v)
  <2> DEFINE b == IF pointers[v].invis < 0 THEN 0 ELSE Bucket(pointers[v].invis)
             passed == (b + 1) * BucketSize
  <2>1. pointers[v] \in Pointers
    BY <1>2 DEF PassInvisBucket, Pointers
  <2>2. b \in Nat
    BY <2>1, BucketIsNatural DEF Pointers
  <2>3. passed \in Nat
    <3>1. \A x, y \in Nat : (x + 1) * y \in Nat
      OBVIOUS
    <3> HIDE DEF b
    <3> QED
      BY <2>2, <3>1, BucketSizeAssumption
  <2>4. pointers' = [pointers EXCEPT ![v].invis = passed]
    BY <1>2 DEF PassInvisBucket
  <2> HIDE DEF b, passed
  <2>5. pointers' \in [Versions -> Pointers \union {Nil}]
    BY <2>1, <2>3, <2>4 DEF Pointers
  <2> QED
    BY <1>2, <2>5 DEF PassInvisBucket, Pointers
<1> QED
  BY <1>1, <1>2

LEMMA TypeNext == TypeOK /\ [Next]_vars => TypeOK'
<1> SUFFICES ASSUME TypeOK, [Next]_vars PROVE TypeOK'
  OBVIOUS
<1>1. CASE UNCHANGED vars
  BY <1>1 DEF vars, tables, creators, deleters, publishers, TypeOK
<1> QED
  BY <1>1, CreatorKeepsTypes, DeleterKeepsTypes, PublisherKeepsTypes, PointersKeepTypes DEF Next

\* Every column and every local keeps the range the code gives it.
THEOREM TypeCorrect == Spec => []TypeOK
BY TypeInit, TypeNext, PTL DEF Spec

-----------------------------------------------------------------------------
(* The status of the definition *)

LEMMA TryAdvanceAdvances ==
  ASSUME TypeOK, NEW d \in Deleters, NEW status \in {PendingDelete, Deleting, Inactive},
         NEW onSuccess, NEW onFailure, TryAdvance(d, status, onSuccess, onFailure), row' # row
  PROVE  Advances(row, row')
<1> USE DEF TypeOK, Provisioning, Active, PendingDelete, Deleting, Inactive
<1>1. /\ row \in Rows /\ row' = [row EXCEPT !.status = status]
      /\ row.status = status - 1 \/ row.status = status
  <2>1. HasStatus(IF dTry[d] = "previous" THEN status - 1 ELSE status) /\ row' = [row EXCEPT !.status = status]
    BY DEF TryAdvance
  <2>2. row # Nil /\ row \in Rows
    BY <2>1 DEF HasStatus, Rows
  <2> QED
    BY <2>1, <2>2 DEF HasStatus
<1>2. row.status = status - 1
  BY <1>1 DEF Rows
<1>3. row' \in Rows /\ row'.version = row.version /\ row'.status = row.status + 1
  BY <1>1, <1>2 DEF Rows
<1> QED
  BY <1>1, <1>3, RowIsNotNil DEF Advances

LEMMA CreatorAdvances ==
  ASSUME TypeOK, NEW c \in Creators, InsertQueue(c) \/ CreatorStep(c) \/ CrashCreator(c), row' # row
  PROVE  Advances(row, row')
<1> USE DEF Provisioning, Active, Deleting, Inactive, Versions, CallerVersion
<1>1. row # Nil => row \in Rows
  BY DEF TypeOK, Rows
<1>2. CASE InsertQueue(c)
  BY <1>2 DEF InsertQueue, Advances
<1>3. CASE Activate(c)
  <2>1. row # Nil /\ row.status = Provisioning /\ row' = [row EXCEPT !.status = Active]
    BY <1>3 DEF Activate, HasStatus
  <2>2. row' \in Rows /\ row'.version = row.version /\ row'.status = row.status + 1
    BY <1>1, <2>1 DEF Rows
  <2> QED
    BY <2>1, <2>2, RowIsNotNil DEF Advances
<1>4. CASE UpdateDefinition(c)
  <2>1. /\ row # Nil /\ row.version = CallerVersion /\ row.status >= Deleting
        /\ row' = [status |-> Active, version |-> CallerVersion + 1]
    BY <1>4 DEF UpdateDefinition
  <2>2. row' \in Rows
    BY <2>1 DEF Rows
  <2> QED
    BY <2>1, <2>2, RowIsNotNil DEF Advances
<1>5. CASE ReadCurrent(c) \/ EnsureMonoton(c) \/ EnsurePointers(c) \/ CrashCreator(c)
  BY <1>5 DEF ReadCurrent, EnsureMonoton, EnsurePointers, CrashCreator, tables
<1> QED
  BY <1>2, <1>3, <1>4, <1>5 DEF CreatorStep

LEMMA DeleterAdvances ==
  ASSUME TypeOK, NEW d \in Deleters, GetActiveQueue(d) \/ DeleterStep(d) \/ CrashDeleter(d), row' # row
  PROVE  Advances(row, row')
<1>1. CASE MarkPendingDelete(d) \/ MarkDeleting(d) \/ MarkInactive(d)
  BY <1>1, TryAdvanceAdvances DEF MarkPendingDelete, MarkDeleting, MarkInactive
<1>2. CASE DeleteIfInactive(d)
  BY <1>2 DEF DeleteIfInactive, HasStatus, Advances
<1>3. ASSUME UNCHANGED row PROVE FALSE
  BY <1>3
<1> QED
  BY <1>1, <1>2, <1>3 DEF DeleterStep, GetActiveQueue, InsertDeletionJob, ReadRepairPointer,
     ReadInvisPointer, ReadMonoton, DeleteMessages, DeleteMonotons, DeletePointers,
     DeleteCompletionJob, Return, CrashDeleter, tables

LEMMA NextAdvances == TypeOK /\ [Next]_vars => [row' # row => Advances(row, row')]_vars
<1> SUFFICES ASSUME TypeOK, Next, row' # row PROVE Advances(row, row')
  BY DEF vars, tables
<1>1. ASSUME NEW p \in Publishers, LookupQueue(p) \/ PublisherStep(p)
      PROVE  UNCHANGED row
  BY <1>1 DEF LookupQueue, PublisherStep, NextMonotonic, PutMessage, tables
<1>2. ASSUME NEW v \in Versions, RepairBucket(v) \/ PassInvisBucket(v)
      PROVE  UNCHANGED row
  BY <1>2 DEF RepairBucket, PassInvisBucket
<1> QED
  BY <1>1, <1>2, CreatorAdvances, DeleterAdvances DEF Next

\* However many requests race, the status takes one step at a time and never back, and
\* only an inactive definition is removed (QueueStatus, tryAdvanceQueueStatus).
THEOREM StatusMovesForwardAlways == Spec => StatusMovesForward
BY TypeInit, TypeNext, NextAdvances, PTL DEF Spec, StatusMovesForward

-----------------------------------------------------------------------------
(* Deletion by one deleter at a time *)

\* What the definition is while a deleter is at work on a version of it: the one it
\* found until its status is marked; then that one on its way out, or the next version.
OnItsWay(d) ==
  /\ dpc[d] \in {"idle", "markPending", "insertJob", "markDeleting"} => dTry[d] = "previous"
  /\ dpc[d] = "markPending" => IsActive(dVersion[d])
  /\ dpc[d] \in {"insertJob", "markDeleting"} => HasStatus(PendingDelete) /\ row.version = dVersion[d]
  /\ dpc[d] \in {"readRepair", "readInvis", "readMonoton", "deleteMessages", "deleteMonotons",
                 "deletePointers", "markInactive"} =>
       /\ row # Nil
       /\ \/ row.version = dVersion[d] /\ row.status = Deleting
          \/ row.version > dVersion[d]

SpareInv == TypeOK /\ \A d \in Deleters : OnItsWay(d)

LEMMA SpareMeansSpared == SpareInv => DeletionSparesActive
<1> SUFFICES ASSUME SpareInv, NEW d \in Deleters,
                    dpc[d] \in {"deleteMessages", "deleteMonotons", "deletePointers"}
             PROVE  ~IsActive(dVersion[d])
  BY DEF DeletionSparesActive
<1>1. row # Nil /\ (row.status = Deleting \/ row.version > dVersion[d]) /\ dVersion[d] \in Versions
  BY DEF SpareInv, OnItsWay, TypeOK
<1> QED
  BY <1>1 DEF IsActive, InUse, HasStatus, Active, Deleting, Versions, CallerVersion

LEMMA CreatorSpares ==
  ASSUME SpareInv, NEW c \in Creators, InsertQueue(c) \/ CreatorStep(c) \/ CrashCreator(c),
         NEW d \in Deleters
  PROVE  OnItsWay(d)'
<1> USE DEF SpareInv, OnItsWay
<1>1. UNCHANGED deleters /\ dVersion[d] \in Versions
  BY DEF CreatorStep, InsertQueue, ReadCurrent, EnsureMonoton, EnsurePointers, Activate,
     UpdateDefinition, CrashCreator, TypeOK
<1>2. CASE UNCHANGED row
  BY <1>1, <1>2 DEF deleters, IsActive, InUse, HasStatus
<1>3. CASE row = Nil /\ InsertQueue(c)
  BY <1>1, <1>3 DEF deleters, IsActive, InUse, HasStatus
<1>4. CASE Activate(c)
  <2>1. row # Nil /\ row.status = Provisioning /\ row \in Rows /\ row' = [row EXCEPT !.status = Active]
    BY <1>4 DEF Activate, HasStatus, TypeOK, Rows
  <2>2. row'.version = row.version /\ row' \in Rows
    BY <2>1 DEF Rows, Provisioning, Active, Inactive
  <2> QED
    BY <1>1, <2>1, <2>2, RowIsNotNil
    DEF deleters, IsActive, InUse, HasStatus, Provisioning, Active, PendingDelete, Deleting
<1>5. CASE UpdateDefinition(c) /\ row' # row
  <2>1. /\ row # Nil /\ row.version = CallerVersion /\ row.status >= Deleting
        /\ row' = [status |-> Active, version |-> CallerVersion + 1]
    BY <1>5 DEF UpdateDefinition
  <2>2. row' \in Rows /\ row'.version > row.version
    BY <2>1 DEF Rows, Versions, CallerVersion, Provisioning, Active, Inactive
  <2> QED
    BY <1>1, <2>1, <2>2, RowIsNotNil
    DEF deleters, IsActive, InUse, HasStatus, Active, PendingDelete, Deleting, Versions, CallerVersion
<1> QED
  BY <1>2, <1>3, <1>4, <1>5
  DEF CreatorStep, InsertQueue, ReadCurrent, EnsureMonoton, EnsurePointers, UpdateDefinition,
      CrashCreator, tables

LEMMA DeleterSpares ==
  ASSUME SpareInv, NEW d \in Deleters, GetActiveQueue(d) \/ DeleterStep(d) \/ CrashDeleter(d)
  PROVE  OnItsWay(d)'
<1> USE DEF SpareInv, OnItsWay, tables
<1>t. /\ dpc \in [Deleters -> {"idle", "markPending", "insertJob", "markDeleting", "readRepair",
                              "readInvis", "readMonoton", "deleteMessages", "deleteMonotons",
                              "deletePointers", "markInactive", "deleteJob", "deleteRow", "end"}]
      /\ dVersion \in [Deleters -> Versions] /\ dTry \in [Deleters -> {"previous", "equal"}]
      /\ row # Nil => row \in Rows
  BY DEF TypeOK, Rows
<1> HIDE DEF TypeOK
<1>1. CASE GetActiveQueue(d)
  BY <1>1, <1>t DEF GetActiveQueue, IsActive, InUse, HasStatus
<1>2. CASE MarkPendingDelete(d)
  <2>1. HasStatus(Active) /\ row.version = dVersion[d] /\ dTry[d] = "previous"
    BY <1>2 DEF MarkPendingDelete, IsActive, InUse
  <2>2. /\ row' = [row EXCEPT !.status = PendingDelete] /\ dpc' = [dpc EXCEPT ![d] = "insertJob"]
        /\ dTry' = [dTry EXCEPT ![d] = "previous"] /\ UNCHANGED dVersion
    BY <1>2, <2>1 DEF MarkPendingDelete, TryAdvance, PendingDelete, Active
  <2>3. row' \in Rows /\ row'.status = PendingDelete /\ row'.version = row.version
    BY <2>1, <2>2, <1>t DEF Rows, HasStatus, Provisioning, PendingDelete, Inactive
  <2> QED
    BY <2>1, <2>2, <2>3, <1>t, RowIsNotNil DEF HasStatus
<1>3. CASE InsertDeletionJob(d)
  BY <1>3, <1>t DEF InsertDeletionJob, HasStatus
<1>4. CASE MarkDeleting(d)
  <2>1. HasStatus(PendingDelete) /\ row.version = dVersion[d] /\ dTry[d] = "previous"
    BY <1>4 DEF MarkDeleting
  <2>2. /\ row' = [row EXCEPT !.status = Deleting]
        /\ dpc' = [dpc EXCEPT ![d] = IF dJob[d] THEN "readRepair" ELSE "end"]
        /\ UNCHANGED dVersion
    BY <1>4, <2>1 DEF MarkDeleting, TryAdvance, PendingDelete, Deleting
  <2>3. row' \in Rows /\ row'.status = Deleting /\ row'.version = row.version
    BY <2>1, <2>2, <1>t DEF Rows, HasStatus, Provisioning, Deleting, Inactive
  <2> QED
    BY <2>1, <2>2, <2>3, <1>t, RowIsNotNil DEF HasStatus
<1>5. CASE ReadRepairPointer(d) \/ ReadInvisPointer(d) \/ ReadMonoton(d)
  BY <1>5, <1>t DEF ReadRepairPointer, ReadInvisPointer, ReadMonoton
<1>6. CASE DeleteMessages(d) \/ DeleteMonotons(d) \/ DeletePointers(d) \/ DeleteCompletionJob(d)
  BY <1>6, <1>t DEF DeleteMessages, DeleteMonotons, DeletePointers, DeleteCompletionJob, DGoto
<1>7. CASE MarkInactive(d)
  <2>1. \/ dpc'[d] = "deleteJob"
        \/ dpc'[d] = "markInactive" /\ UNCHANGED <<row, dVersion>>
    BY <1>7, <1>t DEF MarkInactive, TryAdvance
  <2> QED
    BY <1>7, <2>1 DEF MarkInactive
<1>8. CASE DeleteIfInactive(d) \/ Return(d) \/ CrashDeleter(d)
  BY <1>8, <1>t DEF DeleteIfInactive, Return, CrashDeleter, DeleterEnds
<1> QED
  BY <1>1, <1>2, <1>3, <1>4, <1>5, <1>6, <1>7, <1>8 DEF DeleterStep

LEMMA SpareNext ==
  ASSUME \A d, e \in Deleters : d = e, SpareInv, [Next]_vars
  PROVE  SpareInv'
<1>1. TypeOK'
  BY TypeNext DEF SpareInv
<1>2. ASSUME NEW d \in Deleters PROVE OnItsWay(d)'
  <2> USE DEF SpareInv
  <2>1. ASSUME NEW c \in Creators, InsertQueue(c) \/ CreatorStep(c) \/ CrashCreator(c)
        PROVE  OnItsWay(d)'
    BY <2>1, CreatorSpares
  <2>2. ASSUME NEW e \in Deleters, GetActiveQueue(e) \/ DeleterStep(e) \/ CrashDeleter(e)
        PROVE  OnItsWay(d)'
    BY <2>2, DeleterSpares
  <2>3. ASSUME UNCHANGED <<row, deleters>>
        PROVE  OnItsWay(d)'
    BY <2>3 DEF OnItsWay, deleters, IsActive, InUse, HasStatus
  <2>4. ASSUME NEW p \in Publishers, LookupQueue(p) \/ PublisherStep(p)
        PROVE  UNCHANGED <<row, deleters>>
    BY <2>4 DEF LookupQueue, PublisherStep, NextMonotonic, PutMessage, tables
  <2>5. ASSUME NEW v \in Versions, RepairBucket(v) \/ PassInvisBucket(v)
        PROVE  UNCHANGED <<row, deleters>>
    BY <2>5 DEF RepairBucket, PassInvisBucket
  <2>6. CASE UNCHANGED vars
    BY <2>3, <2>6 DEF vars, tables
  <2> QED
    BY <2>1, <2>2, <2>3, <2>4, <2>5, <2>6 DEF Next
<1> QED
  BY <1>1, <1>2 DEF SpareInv

\* A deletion job deletes nothing of a queue in use, if the queue has one deleter at a
\* time; it may die at any statement and begin again, against any number of creators
\* ("make sure the deleter when it completed didn't just kill this active queue",
\* QueueDeleterTests).
THEOREM DeletionSparesActiveAlways ==
  ASSUME \A d, e \in Deleters : d = e
  PROVE  Spec => []DeletionSparesActive
<1>1. Init => SpareInv
  <2> SUFFICES ASSUME Init PROVE SpareInv
    OBVIOUS
  <2>1. TypeOK
    BY TypeInit
  <2> QED
    BY <2>1 DEF Init, SpareInv, OnItsWay
<1>2. SpareInv /\ [Next]_vars => SpareInv'
  BY SpareNext
<1> QED
  BY <1>1, <1>2, SpareMeansSpared, PTL DEF Spec

-----------------------------------------------------------------------------
(* A queue created from nothing is empty *)

\* What version 0 leaves behind when it is gone, and nobody is about to add to it: at
\* most the first value of a monoton, and of pointers, that a creator ensured too late.
Using(p) == ppc[p] \in {"claim", "put"} /\ pVersion[p] = CallerVersion
Holding(p) == ppc[p] = "put" /\ pVersion[p] = CallerVersion

Emptied ==
  /\ messages[CallerVersion] = {}
  /\ monoton[CallerVersion] \in {Nil, 0}
  /\ pointers[CallerVersion] \in {Nil, InitialPointers}
  /\ \A p \in Publishers : ~Using(p)

InService == row # Nil /\ row.version = CallerVersion /\ row.status \in {Active, PendingDelete}

\* A creator that found no row provisions version 0, on its own.
Provisioner(c) == cpc[c] \in {"newMonoton", "newPointers", "activate"}

ProvisionInv ==
  /\ HasStatus(Provisioning) => row.version = CallerVersion
  /\ \A c \in Creators :
       /\ cpc[c] = "idle" \/ Provisioner(c) => cVersion[c] = CallerVersion
       /\ Provisioner(c) => HasStatus(Provisioning)
       /\ cpc[c] \in {"newPointers", "activate"} => monoton[CallerVersion] # Nil
       /\ cpc[c] = "activate" => pointers[CallerVersion] # Nil
  /\ \A c, e \in Creators : Provisioner(c) /\ Provisioner(e) => c = e

\* The deletion job of version 0 is new to the deleter that inserts it.
JobInv ==
  /\ CallerVersion \in jobs => \E d \in Deleters :
       /\ dVersion[d] = CallerVersion
       /\ dpc[d] \in {"markDeleting", "readRepair", "readInvis", "readMonoton", "deleteMessages",
                      "deleteMonotons", "deletePointers", "markInactive", "deleteJob"}
  /\ \A d \in Deleters : dpc[d] = "markDeleting" /\ dVersion[d] = CallerVersion => dJob[d]

AtWork(d) ==
  /\ dVersion[d] = CallerVersion
  /\ dpc[d] \in {"readRepair", "readInvis", "readMonoton", "deleteMessages", "deleteMonotons", "deletePointers"}

\* Where the messages of version 0 are, and will be put: below the monoton, and in
\* buckets that the repair pointer has not passed.
BelowMonoton ==
  /\ monoton[CallerVersion] # Nil
  /\ \A i \in messages[CallerVersion] : i < monoton[CallerVersion]
  /\ \A p \in Publishers : Holding(p) => pIndex[p] < monoton[CallerVersion]

Running ==
  /\ BelowMonoton
  /\ pointers[CallerVersion] # Nil
  /\ pointers[CallerVersion].repair * BucketSize <= monoton[CallerVersion]
  /\ \A i \in messages[CallerVersion] : Bucket(i) >= pointers[CallerVersion].repair
  /\ \A p \in Publishers : Holding(p) => Bucket(pIndex[p]) >= pointers[CallerVersion].repair

\* The range a deletion job has read leaves out no index that holds a message, or may yet.
Ranged(d) ==
  /\ BelowMonoton
  /\ \A i \in Index \ dRange[d] :
       /\ i \notin messages[CallerVersion] /\ i < monoton[CallerVersion]
       /\ \A p \in Publishers : Holding(p) => pIndex[p] # i

WorkInv ==
  \A d \in Deleters : AtWork(d) =>
    /\ dpc[d] = "readRepair" => Running
    /\ dpc[d] \in {"readInvis", "readMonoton"} => Ranged(d)
    /\ dpc[d] \in {"deleteMessages", "deleteMonotons", "deletePointers"} => \A p \in Publishers : ~Using(p)
    /\ dpc[d] = "deleteMessages" => messages[CallerVersion] \subseteq dRange[d]
    /\ dpc[d] \in {"deleteMonotons", "deletePointers"} => messages[CallerVersion] = {}
    /\ dpc[d] = "deletePointers" => monoton[CallerVersion] \in {Nil, 0}

\* Version 0 is in service, or its deleter is at work on it, or nothing is left of it.
RestInv ==
  /\ InService => Running
  /\ ~InService => Emptied \/ \E d \in Deleters : AtWork(d)

EmptyInv == SpareInv /\ ProvisionInv /\ JobInv /\ WorkInv /\ RestInv

LEMMA TablesAreNotNil == 0 # Nil /\ InitialPointers # Nil
<1>1. InitialPointers \in [repair : Nat, invis : Nat \union {-1}] /\ 0 \in Nat
  BY DEF InitialPointers
<1> QED
  BY <1>1, NilAssumption

LEMMA EmptyInit == Init => EmptyInv
<1> SUFFICES ASSUME Init PROVE EmptyInv
  OBVIOUS
<1>0. CallerVersion \in Versions
  BY DEF Versions
<1>1. SpareInv
  BY TypeInit DEF Init, SpareInv, OnItsWay
<1>2. ProvisionInv /\ JobInv /\ WorkInv
  BY DEF Init, ProvisionInv, Provisioner, HasStatus, JobInv, WorkInv, AtWork, CallerVersion
<1>3. ~InService /\ Emptied
  BY <1>0 DEF Init, InService, Emptied, Using
<1> QED
  BY <1>1, <1>2, <1>3 DEF EmptyInv, RestInv

\* A deleter at work is at work on a definition that is out of service.
LEMMA WorkIsOutOfService ==
  ASSUME SpareInv, ProvisionInv, NEW d \in Deleters, AtWork(d)
  PROVE  row # Nil /\ ~InService /\ ~HasStatus(Provisioning)
<1>1. /\ row # Nil
      /\ (row.version = CallerVersion /\ row.status = Deleting) \/ row.version > CallerVersion
  BY DEF SpareInv, OnItsWay, AtWork
<1> QED
  BY <1>1 DEF InService, ProvisionInv, HasStatus, CallerVersion, Provisioning, Active, PendingDelete, Deleting

\* A creator's late inserts of version 0's monoton and pointers change nothing of a
\* version that has them, and of one that has not only what its next life starts with.
LEMMA LateEnsures ==
  ASSUME TypeOK, WorkInv, RestInv, UNCHANGED <<messages, deleters, publishers>>, InService' <=> InService,
         \/ monoton'[CallerVersion] = monoton[CallerVersion]
         \/ monoton[CallerVersion] = Nil /\ monoton'[CallerVersion] = 0,
         \/ pointers'[CallerVersion] = pointers[CallerVersion]
         \/ pointers[CallerVersion] = Nil /\ pointers'[CallerVersion] = InitialPointers
  PROVE  WorkInv' /\ RestInv'
<1> USE DEF deleters, publishers
<1>1. BelowMonoton => BelowMonoton' /\ monoton'[CallerVersion] = monoton[CallerVersion]
  BY DEF BelowMonoton, Holding
<1>2. Running => Running'
  BY <1>1 DEF Running, Holding
<1>3. \A d \in Deleters : Ranged(d) => Ranged(d)'
  BY <1>1 DEF Ranged, Holding
<1>4. Emptied => Emptied'
  BY DEF Emptied, Using
<1>5. WorkInv'
  BY <1>2, <1>3 DEF WorkInv, AtWork, Using
<1>6. RestInv'
  BY <1>2, <1>4 DEF RestInv, AtWork
<1> QED
  BY <1>5, <1>6

LEMMA SpareRow ==
  ASSUME SpareInv
  PROVE  /\ row # Nil => row \in Rows
         /\ CallerVersion \in Versions /\ CallerVersion = 0
         /\ cpc \in [Creators -> {"idle", "newMonoton", "newPointers", "activate", "read",
                                  "monoton", "pointers", "update"}]
         /\ cVersion \in [Creators -> Versions]
         /\ monoton \in [Versions -> (0 .. MaxIndex) \union {Nil}]
         /\ pointers \in [Versions -> Pointers \union {Nil}]
         /\ messages \in [Versions -> SUBSET Index]
BY DEF SpareInv, TypeOK, Rows, Pointers, Versions, CallerVersion

\* The creators' steps but the last of them leave a queue as empty as it was.
LEMMA CreatorEmpties ==
  ASSUME EmptyInv, NEW c \in Creators,
         InsertQueue(c) \/ ReadCurrent(c) \/ EnsureMonoton(c) \/ EnsurePointers(c) \/ UpdateDefinition(c) \/ CrashCreator(c)
  PROVE  WorkInv' /\ RestInv'
<1> USE DEF EmptyInv
<1>1. TypeOK
  BY DEF SpareInv
<1>2. UNCHANGED <<messages, deleters, publishers>>
  BY DEF InsertQueue, ReadCurrent, EnsureMonoton, EnsurePointers, UpdateDefinition, CrashCreator, tables
<1>3. \/ monoton'[CallerVersion] = monoton[CallerVersion]
      \/ monoton[CallerVersion] = Nil /\ monoton'[CallerVersion] = 0
  BY SpareRow DEF InsertQueue, ReadCurrent, EnsureMonoton, EnsurePointers, UpdateDefinition, CrashCreator, tables
<1>4. \/ pointers'[CallerVersion] = pointers[CallerVersion]
      \/ pointers[CallerVersion] = Nil /\ pointers'[CallerVersion] = InitialPointers
  BY SpareRow DEF InsertQueue, ReadCurrent, EnsureMonoton, EnsurePointers, UpdateDefinition, CrashCreator, tables
<1>5. InService' <=> InService
  <2> USE DEF InService, Active, PendingDelete, Provisioning, Deleting, CallerVersion
  <2>1. CASE InsertQueue(c)
    BY <2>1 DEF InsertQueue
  <2>2. CASE UpdateDefinition(c)
    <3>1. row # Nil => row.status \in Nat
      BY SpareRow DEF Rows, Inactive
    <3> QED
      BY <2>2, <3>1 DEF UpdateDefinition
  <2>3. CASE ReadCurrent(c) \/ EnsureMonoton(c) \/ EnsurePointers(c) \/ CrashCreator(c)
    BY <2>3 DEF ReadCurrent, EnsureMonoton, EnsurePointers, CrashCreator, tables
  <2> QED
    BY <2>1, <2>2, <2>3
<1> QED
  BY <1>1, <1>2, <1>3, <1>4, <1>5, LateEnsures

\* The last of them finds what an empty queue has, and nothing else.
LEMMA ActivatedEmpty ==
  ASSUME EmptyInv, NEW c \in Creators, Activate(c)
  PROVE  /\ UNCHANGED <<jobs, monoton, pointers, messages, deleters, publishers>>
         /\ messages[CallerVersion] = {} /\ monoton[CallerVersion] = 0 /\ pointers[CallerVersion] = InitialPointers
         /\ \A p \in Publishers : ~Using(p)
         /\ \A d \in Deleters : ~AtWork(d)
<1> USE DEF EmptyInv
<1>1. cpc[c] = "activate" /\ HasStatus(Provisioning)
  BY DEF Activate
<1>2. monoton[CallerVersion] # Nil /\ pointers[CallerVersion] # Nil
  BY <1>1 DEF ProvisionInv
<1>3. \A d \in Deleters : ~AtWork(d)
  BY <1>1, WorkIsOutOfService
<1>4. ~InService
  BY <1>1 DEF InService, HasStatus, Provisioning, Active, PendingDelete
<1>5. Emptied
  BY <1>3, <1>4 DEF RestInv
<1> QED
  BY <1>2, <1>3, <1>5 DEF Activate, Emptied

LEMMA ActivateEmpties ==
  ASSUME EmptyInv, NEW c \in Creators, Activate(c)
  PROVE  WorkInv' /\ RestInv'
<1>1. /\ UNCHANGED <<jobs, monoton, pointers, messages, deleters, publishers>>
      /\ messages[CallerVersion] = {} /\ monoton[CallerVersion] = 0 /\ pointers[CallerVersion] = InitialPointers
      /\ \A p \in Publishers : ~Using(p)
      /\ \A d \in Deleters : ~AtWork(d)
  BY ActivatedEmpty
<1>2. \A p \in Publishers : ~Using(p)' /\ ~Holding(p)'
  BY <1>1 DEF Using, Holding, publishers
<1>3. 0 # Nil /\ InitialPointers # Nil
  BY TablesAreNotNil
<1>4. Running'
  <2>1. 0 * BucketSize <= 0
    BY BucketSizeAssumption
  <2> QED
    BY <1>1, <1>2, <1>3, <2>1 DEF Running, BelowMonoton, InitialPointers
<1>5. Emptied'
  BY <1>1, <1>2 DEF Emptied
<1>6. WorkInv'
  BY <1>1 DEF WorkInv, AtWork, deleters
<1> QED
  BY <1>4, <1>5, <1>6 DEF RestInv

LEMMA CreatorJobs ==
  ASSUME JobInv, NEW c \in Creators, InsertQueue(c) \/ CreatorStep(c) \/ CrashCreator(c)
  PROVE  JobInv'
<1>1. UNCHANGED <<jobs, deleters>>
  BY DEF CreatorStep, InsertQueue, ReadCurrent, EnsureMonoton, EnsurePointers, Activate, UpdateDefinition,
    CrashCreator, tables
<1> QED
  BY <1>1 DEF JobInv, deleters

LEMMA CreatorProvisions ==
  ASSUME EmptyInv, NEW c \in Creators, InsertQueue(c) \/ CreatorStep(c) \/ CrashCreator(c)
  PROVE  ProvisionInv'
<1> USE DEF EmptyInv, CGoto, CreatorEnds
<1>2. CASE InsertQueue(c)
  <2>1. CASE row = Nil
    <3>1. \A e \in Creators : ~Provisioner(e)
      BY <2>1 DEF ProvisionInv, HasStatus
    <3>2. /\ row' = [status |-> Provisioning, version |-> 0] /\ cpc[c] = "idle"
          /\ cpc' = [cpc EXCEPT ![c] = "newMonoton"] /\ cVersion' = cVersion
      BY <1>2, <2>1 DEF InsertQueue
    <3>3. row' # Nil
      <4>1. row' \in Rows
        BY <3>2 DEF Rows, Versions, CallerVersion, Provisioning, Inactive
      <4> QED
        BY <4>1, RowIsNotNil
    <3> QED
      BY <3>1, <3>2, <3>3, SpareRow DEF ProvisionInv, Provisioner, HasStatus
  <2>2. CASE row # Nil
    BY <1>2, <2>2, SpareRow DEF InsertQueue, ProvisionInv, Provisioner, HasStatus
  <2> QED
    BY <2>1, <2>2
<1>3. CASE ReadCurrent(c)
  BY <1>3, SpareRow DEF ReadCurrent, tables, ProvisionInv, Provisioner, HasStatus
<1>4. CASE EnsureMonoton(c)
  <2>1. monoton[CallerVersion] # Nil => monoton'[CallerVersion] # Nil
    BY <1>4, SpareRow DEF EnsureMonoton
  <2>2. cpc[c] = "newMonoton" => monoton'[CallerVersion] # Nil
    <3>1. cpc[c] = "newMonoton" => cVersion[c] = CallerVersion
      BY DEF ProvisionInv, Provisioner
    <3>2. 0 # Nil
      BY TablesAreNotNil
    <3> QED
      BY <1>4, <3>1, <3>2, SpareRow DEF EnsureMonoton
  <2>3. UNCHANGED <<row, pointers, cVersion>>
    BY <1>4 DEF EnsureMonoton
  <2>4. cpc' = [cpc EXCEPT ![c] = IF cpc[c] = "newMonoton" THEN "newPointers" ELSE "pointers"]
        /\ cpc[c] \in {"newMonoton", "monoton"}
    BY <1>4 DEF EnsureMonoton
  <2> QED
    BY <2>1, <2>2, <2>3, <2>4, SpareRow DEF ProvisionInv, Provisioner, HasStatus
<1>5. CASE EnsurePointers(c)
  <2>1. pointers[CallerVersion] # Nil => pointers'[CallerVersion] # Nil
    BY <1>5, SpareRow DEF EnsurePointers
  <2>2. cpc[c] = "newPointers" => pointers'[CallerVersion] # Nil
    <3>1. cpc[c] = "newPointers" => cVersion[c] = CallerVersion
      BY DEF ProvisionInv, Provisioner
    <3>2. InitialPointers # Nil
      BY TablesAreNotNil
    <3> QED
      BY <1>5, <3>1, <3>2, SpareRow DEF EnsurePointers
  <2>3. UNCHANGED <<row, monoton, cVersion>>
    BY <1>5 DEF EnsurePointers
  <2>4. cpc' = [cpc EXCEPT ![c] = IF cpc[c] = "newPointers" THEN "activate" ELSE "update"]
        /\ cpc[c] \in {"newPointers", "pointers"}
    BY <1>5 DEF EnsurePointers
  <2> QED
    BY <2>1, <2>2, <2>3, <2>4, SpareRow DEF ProvisionInv, Provisioner, HasStatus
<1>6. CASE Activate(c)
  <2>1. cpc[c] = "activate" /\ cpc' = [cpc EXCEPT ![c] = "idle"] /\ cVersion' = [cVersion EXCEPT ![c] = 0]
        /\ HasStatus(Provisioning) /\ row' = [row EXCEPT !.status = Active]
    BY <1>6 DEF Activate
  <2>2. \A e \in Creators : Provisioner(e) => e = c
    BY <2>1 DEF ProvisionInv, Provisioner
  <2>3. \A e \in Creators : ~Provisioner(e)'
    BY <2>1, <2>2, SpareRow DEF Provisioner
  <2>4. ~HasStatus(Provisioning)'
    <3>1. row \in Rows
      BY <2>1, SpareRow DEF HasStatus
    <3>2. row'.status = Active
      BY <2>1, <3>1 DEF Rows
    <3> QED
      BY <3>2 DEF HasStatus, Provisioning, Active
  <2>5. \A e \in Creators : cpc'[e] = "idle" => cVersion'[e] = CallerVersion
    BY <2>1, SpareRow DEF ProvisionInv
  <2> QED
    BY <2>3, <2>4, <2>5 DEF ProvisionInv, Provisioner
<1>7. CASE UpdateDefinition(c)
  <2>1. cpc[c] = "update" /\ cpc' = [cpc EXCEPT ![c] = "idle"] /\ cVersion' = [cVersion EXCEPT ![c] = 0]
        /\ UNCHANGED <<monoton, pointers>>
    BY <1>7 DEF UpdateDefinition
  <2>2. CASE row' = row
    BY <2>1, <2>2, SpareRow DEF ProvisionInv, Provisioner, HasStatus
  <2>3. CASE row' # row
    <3>1. row # Nil /\ row.status >= Deleting /\ row' = [status |-> Active, version |-> CallerVersion + 1]
      BY <1>7, <2>3 DEF UpdateDefinition
    <3>2. ~HasStatus(Provisioning) /\ ~HasStatus(Provisioning)'
      BY <3>1, SpareRow DEF HasStatus, Provisioning, Active, Deleting, Rows
    <3>3. \A e \in Creators : ~Provisioner(e)'
      BY <2>1, <3>2, SpareRow DEF ProvisionInv, Provisioner
    <3>4. \A e \in Creators : cpc'[e] = "idle" => cVersion'[e] = CallerVersion
      BY <2>1, SpareRow DEF ProvisionInv
    <3> QED
      BY <3>2, <3>3, <3>4 DEF ProvisionInv, Provisioner
  <2> QED
    BY <2>2, <2>3
<1>8. CASE CrashCreator(c)
  BY <1>8, SpareRow DEF CrashCreator, tables, ProvisionInv, Provisioner, HasStatus
<1> QED
  BY <1>2, <1>3, <1>4, <1>5, <1>6, <1>7, <1>8 DEF CreatorStep

\* What the traffic of the queue keeps, so that it keeps the rest
TrafficKeeps ==
  /\ UNCHANGED <<row, jobs, creators, deleters>>
  /\ Running => Running'
  /\ \A d \in Deleters : Ranged(d) => Ranged(d)'
  /\ ~InService /\ (\A p \in Publishers : ~Using(p)) =>
       /\ \A p \in Publishers : ~Using(p)'
       /\ messages'[CallerVersion] \subseteq messages[CallerVersion]
       /\ monoton'[CallerVersion] = monoton[CallerVersion]
       /\ monoton[CallerVersion] \in {Nil, 0} => pointers'[CallerVersion] = pointers[CallerVersion]
  /\ monoton[CallerVersion] # Nil => monoton'[CallerVersion] # Nil
  /\ pointers[CallerVersion] # Nil => pointers'[CallerVersion] # Nil

LEMMA TrafficEmpties ==
  ASSUME EmptyInv, TrafficKeeps
  PROVE  ProvisionInv' /\ JobInv' /\ WorkInv' /\ RestInv'
<1> USE DEF EmptyInv, TrafficKeeps, deleters, creators
<1>1. /\ InService' <=> InService
      /\ HasStatus(Provisioning)' <=> HasStatus(Provisioning)
      /\ \A d \in Deleters : AtWork(d)' <=> AtWork(d)
  BY DEF InService, HasStatus, AtWork
<1>2. ProvisionInv'
  BY <1>1 DEF ProvisionInv, Provisioner
<1>3. JobInv'
  BY DEF JobInv
<1>4. WorkInv'
  <2> SUFFICES ASSUME NEW d \in Deleters, AtWork(d)
               PROVE  /\ dpc'[d] = "readRepair" => Running'
                      /\ dpc'[d] \in {"readInvis", "readMonoton"} => Ranged(d)'
                      /\ dpc'[d] \in {"deleteMessages", "deleteMonotons", "deletePointers"} =>
                           \A p \in Publishers : ~Using(p)'
                      /\ dpc'[d] = "deleteMessages" => messages'[CallerVersion] \subseteq dRange'[d]
                      /\ dpc'[d] \in {"deleteMonotons", "deletePointers"} => messages'[CallerVersion] = {}
                      /\ dpc'[d] = "deletePointers" => monoton'[CallerVersion] \in {Nil, 0}
    BY <1>1 DEF WorkInv
  <2>1. ~InService
    BY WorkIsOutOfService
  <2>2. CASE dpc[d] \in {"readRepair", "readInvis", "readMonoton"}
    BY <2>2 DEF WorkInv
  <2>3. CASE dpc[d] \in {"deleteMessages", "deleteMonotons", "deletePointers"}
    BY <2>1, <2>3 DEF WorkInv
  <2> QED
    BY <2>2, <2>3 DEF AtWork
<1>5. RestInv'
  <2>1. ~InService /\ Emptied => Emptied'
    BY DEF Emptied
  <2> QED
    BY <1>1, <2>1 DEF RestInv
<1> QED
  BY <1>2, <1>3, <1>4, <1>5

\* Multiplying by a natural number keeps the order, and dividing does.
LEMMA ProductMonotone ==
  ASSUME NEW a \in Nat, NEW b \in Nat, NEW n \in Nat, a <= b
  PROVE  a * n <= b * n
OBVIOUS

LEMMA BucketBounds ==
  ASSUME NEW i \in Nat
  PROVE  /\ Bucket(i) \in Nat
         /\ Bucket(i) * BucketSize <= i
         /\ i < (Bucket(i) + 1) * BucketSize
BY BucketSizeAssumption DEF Bucket

LEMMA InBucketOrBeyond ==
  ASSUME NEW i \in Nat, NEW b \in Nat
  PROVE  Bucket(i) >= b <=> b * BucketSize <= i
<1>1. Bucket(i) \in Nat /\ Bucket(i) * BucketSize <= i /\ i < (Bucket(i) + 1) * BucketSize
  BY BucketBounds
<1>2. ASSUME Bucket(i) >= b PROVE b * BucketSize <= i
  <2>1. b * BucketSize <= Bucket(i) * BucketSize
    BY <1>1, <1>2, ProductMonotone, BucketSizeAssumption
  <2>2. b * BucketSize \in Nat /\ Bucket(i) * BucketSize \in Nat
    BY <1>1, BucketSizeAssumption
  <2> QED
    BY <1>1, <2>1, <2>2
<1>3. ASSUME ~(Bucket(i) >= b) PROVE ~(b * BucketSize <= i)
  <2>1. Bucket(i) + 1 <= b /\ Bucket(i) + 1 \in Nat
    BY <1>1, <1>3
  <2>2. (Bucket(i) + 1) * BucketSize <= b * BucketSize
    BY <2>1, ProductMonotone, BucketSizeAssumption
  <2>3. (Bucket(i) + 1) * BucketSize \in Nat /\ b * BucketSize \in Nat
    BY <2>1, BucketSizeAssumption
  <2> QED
    BY <1>1, <2>2, <2>3
<1> QED
  BY <1>2, <1>3

LEMMA BucketMonotone ==
  ASSUME NEW i \in Nat, NEW j \in Nat, i <= j
  PROVE  Bucket(i) <= Bucket(j)
<1>1. Bucket(i) \in Nat /\ Bucket(i) * BucketSize <= i /\ Bucket(j) \in Nat
  BY BucketBounds
<1>2. Bucket(i) * BucketSize <= j
  BY <1>1, BucketSizeAssumption
<1> QED
  BY <1>1, <1>2, InBucketOrBeyond

LEMMA TrafficTyped ==
  ASSUME TypeOK
  PROVE  /\ CallerVersion \in Versions /\ Index \subseteq Nat
         /\ monoton \in [Versions -> (0 .. MaxIndex) \union {Nil}]
         /\ monoton[CallerVersion] # Nil => monoton[CallerVersion] \in Nat
         /\ pointers \in [Versions -> Pointers \union {Nil}]
         /\ pointers[CallerVersion] # Nil =>
              pointers[CallerVersion] \in Pointers /\ pointers[CallerVersion].repair \in Nat
         /\ messages \in [Versions -> SUBSET Index] /\ messages[CallerVersion] \subseteq Nat
         /\ ppc \in [Publishers -> {"idle", "claim", "put"}] /\ pVersion \in [Publishers -> Versions]
         /\ pIndex \in [Publishers -> Index]
<1>1. CallerVersion \in Versions /\ Index \subseteq Nat
  BY DEF Versions, Index
<1>2. /\ monoton \in [Versions -> (0 .. MaxIndex) \union {Nil}]
      /\ pointers \in [Versions -> Pointers \union {Nil}]
      /\ messages \in [Versions -> SUBSET Index]
      /\ ppc \in [Publishers -> {"idle", "claim", "put"}] /\ pVersion \in [Publishers -> Versions]
      /\ pIndex \in [Publishers -> Index]
  BY DEF TypeOK, Pointers
<1>3. pointers[CallerVersion] # Nil =>
        pointers[CallerVersion] \in Pointers /\ pointers[CallerVersion].repair \in Nat
  BY <1>1, <1>2 DEF Pointers
<1>4. monoton[CallerVersion] # Nil => monoton[CallerVersion] \in Nat
  BY <1>1, <1>2, MaxIndexAssumption
<1>5. messages[CallerVersion] \subseteq Nat
  BY <1>1, <1>2
<1> QED
  BY <1>1, <1>2, <1>3, <1>4, <1>5

LEMMA LookupKeeps ==
  ASSUME TypeOK, NEW p \in Publishers, LookupQueue(p)
  PROVE  TrafficKeeps
<1>1. /\ UNCHANGED <<row, jobs, monoton, pointers, messages, pIndex, creators, deleters>>
      /\ ppc' = [ppc EXCEPT ![p] = "claim"] /\ pVersion' = [pVersion EXCEPT ![p] = row.version]
      /\ row # Nil /\ row.status = Active
  BY DEF LookupQueue, InUse, HasStatus, tables
<1>2. \A q \in Publishers : Holding(q)' => Holding(q) /\ pIndex'[q] = pIndex[q]
  BY <1>1, TrafficTyped DEF Holding
<1>3. Running => Running'
  BY <1>1, <1>2 DEF Running, BelowMonoton
<1>4. \A d \in Deleters : Ranged(d) => Ranged(d)'
  BY <1>1, <1>2 DEF Ranged, BelowMonoton, deleters
<1>5. ~InService /\ (\A q \in Publishers : ~Using(q)) => \A q \in Publishers : ~Using(q)'
  BY <1>1, TrafficTyped DEF InService, Using
<1> QED
  BY <1>1, <1>3, <1>4, <1>5 DEF TrafficKeeps

LEMMA ClaimKeeps ==
  ASSUME TypeOK, NEW p \in Publishers, NextMonotonic(p)
  PROVE  TrafficKeeps
<1> DEFINE v == pVersion[p]
<1>0. /\ UNCHANGED <<row, jobs, pointers, messages, creators, deleters>> /\ v \in Versions
      /\ ppc[p] = "claim" /\ monoton[v] # Nil
  BY TrafficTyped DEF NextMonotonic
<1>1. CASE monoton[v] = MaxIndex
  <2>1. /\ monoton' = monoton /\ ppc' = [ppc EXCEPT ![p] = "idle"] /\ pVersion' = [pVersion EXCEPT ![p] = 0]
        /\ pIndex' = [pIndex EXCEPT ![p] = 0]
    BY <1>1 DEF NextMonotonic, PublisherEnds
  <2>2. \A q \in Publishers : /\ Holding(q)' => Holding(q) /\ pIndex'[q] = pIndex[q]
                              /\ Using(q)' => Using(q)
    BY <2>1, TrafficTyped DEF Holding, Using
  <2>3. Running => Running'
    BY <1>0, <2>1, <2>2 DEF Running, BelowMonoton
  <2>4. \A d \in Deleters : Ranged(d) => Ranged(d)'
    BY <1>0, <2>1, <2>2 DEF Ranged, BelowMonoton, deleters
  <2> QED
    BY <1>0, <2>1, <2>2, <2>3, <2>4 DEF TrafficKeeps
<1>2. CASE monoton[v] # MaxIndex
  <2>1. /\ monoton' = [monoton EXCEPT ![v] = monoton[v] + 1] /\ ppc' = [ppc EXCEPT ![p] = "put"]
        /\ pIndex' = [pIndex EXCEPT ![p] = monoton[v]] /\ pVersion' = pVersion
    BY <1>0, <1>2, TrafficTyped DEF NextMonotonic
  <2>2. \A q \in Publishers : q # p => (Holding(q)' <=> Holding(q)) /\ (Using(q)' <=> Using(q)) /\ pIndex'[q] = pIndex[q]
    BY <2>1, TrafficTyped DEF Holding, Using
  <2>3. CASE v # CallerVersion
    <3>1. ~Holding(p)' /\ ~Using(p)' /\ monoton'[CallerVersion] = monoton[CallerVersion]
      BY <2>1, <2>3, TrafficTyped DEF Holding, Using
    <3>2. Running => Running'
      BY <1>0, <2>2, <3>1 DEF Running, BelowMonoton
    <3>3. \A d \in Deleters : Ranged(d) => Ranged(d)'
      BY <1>0, <2>2, <3>1 DEF Ranged, BelowMonoton, deleters
    <3> QED
      BY <1>0, <2>2, <3>1, <3>2, <3>3 DEF TrafficKeeps
  <2>4. CASE v = CallerVersion
    <3> DEFINE m == monoton[CallerVersion]
    <3>1. /\ Using(p) /\ m \in Nat /\ monoton'[CallerVersion] = m + 1 /\ pIndex'[p] = m
      BY <1>0, <2>1, <2>4, TrafficTyped DEF Using
    <3>2. /\ \A i \in messages[CallerVersion] : i < m => i < m + 1
          /\ \A q \in Publishers : pIndex[q] < m => pIndex[q] < m + 1
      BY <3>1, TrafficTyped
    <3>3. BelowMonoton => BelowMonoton'
      <4>1. m + 1 # Nil
        BY <3>1, NilAssumption
      <4>2. ASSUME BelowMonoton, NEW q \in Publishers, Holding(q)' PROVE pIndex'[q] < m + 1
        BY <2>2, <3>1, <3>2, <4>2 DEF BelowMonoton
      <4> QED
        BY <1>0, <3>1, <3>2, <4>1, <4>2 DEF BelowMonoton
    <3>4. Running => Running'
      <4> SUFFICES ASSUME Running PROVE Running'
        OBVIOUS
      <4> DEFINE b == pointers[CallerVersion].repair
      <4>1. b \in Nat /\ b * BucketSize <= m /\ b * BucketSize \in Nat /\ pointers[CallerVersion] # Nil
        BY TrafficTyped, BucketSizeAssumption DEF Running
      <4>2. Bucket(m) >= b
        BY <3>1, <4>1, InBucketOrBeyond
      <4>3. b * BucketSize <= m + 1
        BY <3>1, <4>1
      <4>4. ASSUME NEW q \in Publishers, Holding(q)' PROVE Bucket(pIndex'[q]) >= b
        BY <2>2, <3>1, <4>2, <4>4 DEF Running
      <4> QED
        BY <1>0, <3>1, <3>3, <4>1, <4>3, <4>4 DEF Running
    <3>5. ASSUME NEW d \in Deleters, Ranged(d) PROVE Ranged(d)'
      <4>1. ASSUME NEW i \in Index \ dRange[d]
            PROVE  /\ i \notin messages[CallerVersion] /\ i < m + 1
                   /\ \A q \in Publishers : Holding(q)' => pIndex'[q] # i
        <5>1. i < m /\ i \in Nat /\ i \notin messages[CallerVersion]
          BY <3>5, TrafficTyped DEF Ranged
        <5>2. \A q \in Publishers : Holding(q)' => pIndex'[q] # i
          BY <2>2, <3>1, <3>5, <5>1 DEF Ranged
        <5> QED
          BY <3>1, <5>1, <5>2
      <4> QED
        BY <1>0, <3>1, <3>3, <3>5, <4>1 DEF Ranged, deleters
    <3>6. m + 1 # Nil
      BY <3>1, NilAssumption
    <3> QED
      BY <1>0, <3>1, <3>4, <3>5, <3>6 DEF TrafficKeeps
  <2> QED
    BY <2>3, <2>4
<1> QED
  BY <1>1, <1>2

LEMMA PutKeeps ==
  ASSUME TypeOK, NEW p \in Publishers, PutMessage(p)
  PROVE  TrafficKeeps
<1> DEFINE v == pVersion[p]
<1>1. /\ UNCHANGED <<row, jobs, monoton, pointers, creators, deleters>> /\ v \in Versions /\ ppc[p] = "put"
      /\ messages' = [messages EXCEPT ![v] = messages[v] \union {pIndex[p]}]
      /\ ppc' = [ppc EXCEPT ![p] = "idle"] /\ pVersion' = [pVersion EXCEPT ![p] = 0]
      /\ pIndex' = [pIndex EXCEPT ![p] = 0]
  BY TrafficTyped DEF PutMessage, PublisherEnds
<1>2. \A q \in Publishers : /\ Holding(q)' => Holding(q) /\ pIndex'[q] = pIndex[q]
                            /\ Using(q)' => Using(q)
  BY <1>1, TrafficTyped DEF Holding, Using
<1>3. \A i \in messages'[CallerVersion] : i \in messages[CallerVersion] \/ (Holding(p) /\ i = pIndex[p])
  BY <1>1, TrafficTyped DEF Holding
<1>4. BelowMonoton => BelowMonoton'
  BY <1>1, <1>2, <1>3 DEF BelowMonoton
<1>5. Running => Running'
  BY <1>1, <1>2, <1>3, <1>4 DEF Running
<1>6. \A d \in Deleters : Ranged(d) => Ranged(d)'
  BY <1>1, <1>2, <1>3, <1>4 DEF Ranged, deleters
<1>7. Holding(p) => Using(p)
  BY DEF Holding, Using
<1> QED
  BY <1>1, <1>2, <1>3, <1>5, <1>6, <1>7 DEF TrafficKeeps

LEMMA RepairKeeps ==
  ASSUME TypeOK, RequestsInTime, ConsumersInTime, NEW v \in Versions, RepairBucket(v)
  PROVE  TrafficKeeps
<1> DEFINE b == pointers[v].repair
           next == [pointers[v] EXCEPT !.repair = b + 1]
<1>1. /\ UNCHANGED <<row, jobs, monoton, creators, deleters, publishers>>
      /\ pointers[v] # Nil /\ monoton[v] # Nil /\ (b + 1) * BucketSize <= monoton[v]
      /\ \A p \in Publishers : ppc[p] = "put" => ~(pVersion[p] = v /\ Bucket(pIndex[p]) = b)
      /\ pointers' = [pointers EXCEPT ![v] = next]
      /\ messages' = [messages EXCEPT ![v] = {i \in messages[v] : Bucket(i) # b}]
  BY TrafficTyped DEF RepairBucket, Closed
<1>2. /\ pointers[v] \in Pointers /\ b \in Nat /\ next \in Pointers /\ next.repair = b + 1
      /\ next # Nil
  <2>1. pointers[v] \in Pointers
    BY <1>1, TrafficTyped
  <2>2. b \in Nat /\ next \in Pointers /\ next.repair = b + 1
    BY <2>1 DEF Pointers
  <2> QED
    BY <2>1, <2>2, NilAssumption DEF Pointers
<1> HIDE DEF b, next
<1>3. \A p \in Publishers : (Holding(p)' <=> Holding(p)) /\ (Using(p)' <=> Using(p)) /\ pIndex'[p] = pIndex[p]
  BY <1>1 DEF Holding, Using, publishers
<1>4. CASE v # CallerVersion
  <2>1. /\ messages'[CallerVersion] = messages[CallerVersion]
        /\ pointers'[CallerVersion] = pointers[CallerVersion]
    BY <1>1, <1>4, TrafficTyped
  <2>2. Running => Running'
    BY <1>1, <1>3, <2>1 DEF Running, BelowMonoton
  <2>3. \A d \in Deleters : Ranged(d) => Ranged(d)'
    BY <1>1, <1>3, <2>1 DEF Ranged, BelowMonoton, deleters
  <2> QED
    BY <1>1, <1>3, <2>1, <2>2, <2>3 DEF TrafficKeeps
<1>5. CASE v = CallerVersion
  <2>1. /\ messages'[CallerVersion] = {i \in messages[CallerVersion] : Bucket(i) # b}
        /\ pointers'[CallerVersion] = next
    BY <1>1, <1>5, TrafficTyped
  <2>2. BelowMonoton => BelowMonoton'
    BY <1>1, <1>3, <2>1 DEF BelowMonoton
  <2>3. Running => Running'
    <3> SUFFICES ASSUME Running PROVE Running'
      OBVIOUS
    <3>1. b = pointers[CallerVersion].repair
      BY <1>5 DEF b
    <3>2. ASSUME NEW i \in Nat, Bucket(i) >= b, Bucket(i) # b PROVE Bucket(i) >= b + 1
      BY <1>2, <3>2, BucketBounds
    <3>3. ASSUME NEW i \in messages'[CallerVersion] PROVE Bucket(i) >= b + 1
      <4>1. i \in messages[CallerVersion] /\ i \in Nat /\ Bucket(i) # b
        BY <2>1, <3>3, TrafficTyped
      <4> QED
        BY <3>1, <3>2, <4>1 DEF Running
    <3>4. ASSUME NEW p \in Publishers, Holding(p) PROVE Bucket(pIndex[p]) >= b + 1
      <4>1. pIndex[p] \in Nat /\ Bucket(pIndex[p]) # b
        BY <1>1, <1>5, <3>4, TrafficTyped DEF Holding
      <4> QED
        BY <3>1, <3>2, <3>4, <4>1 DEF Running
    <3> QED
      BY <1>1, <1>2, <1>3, <1>5, <2>1, <2>2, <3>3, <3>4 DEF Running
  <2>4. \A d \in Deleters : Ranged(d) => Ranged(d)'
    BY <1>1, <1>3, <2>1, <2>2 DEF Ranged, deleters
  <2>5. monoton[CallerVersion] \notin {Nil, 0}
    <3>1. 1 <= b + 1 /\ b + 1 \in Nat
      BY <1>2
    <3>2. 1 * BucketSize <= (b + 1) * BucketSize
      BY <3>1, ProductMonotone, BucketSizeAssumption
    <3>3. (b + 1) * BucketSize \in Nat
      BY <3>1, BucketSizeAssumption
    <3> QED
      BY <1>1, <1>5, <3>2, <3>3, BucketSizeAssumption
  <2> QED
    BY <1>1, <1>2, <1>3, <1>5, <2>1, <2>3, <2>4, <2>5 DEF TrafficKeeps
<1> QED
  BY <1>4, <1>5

LEMMA PassInvisKeeps ==
  ASSUME TypeOK, NEW v \in Versions, PassInvisBucket(v)
  PROVE  TrafficKeeps
<1> DEFINE b == IF pointers[v].invis < 0 THEN 0 ELSE Bucket(pointers[v].invis)
           next == [pointers[v] EXCEPT !.invis = (b + 1) * BucketSize]
<1>1. /\ UNCHANGED <<row, jobs, monoton, messages, creators, deleters, publishers>>
      /\ pointers[v] # Nil /\ monoton[v] # Nil /\ (b + 1) * BucketSize <= monoton[v]
      /\ pointers' = [pointers EXCEPT ![v] = next]
  BY TrafficTyped DEF PassInvisBucket, Closed
<1>2. pointers[v] \in Pointers
  BY <1>1, TrafficTyped
<1>3. b \in Nat
  BY <1>2, BucketIsNatural DEF Pointers
<1>4. (b + 1) * BucketSize \in Nat /\ 1 * BucketSize <= (b + 1) * BucketSize
  <2> HIDE DEF b
  <2>1. 1 <= b + 1 /\ b + 1 \in Nat
    BY <1>3
  <2> QED
    BY <2>1, ProductMonotone, BucketSizeAssumption
<1>5. next \in Pointers /\ next.repair = pointers[v].repair /\ next # Nil
  <2> DEFINE passed == (b + 1) * BucketSize
  <2>1. passed \in Nat
    BY <1>4
  <2> HIDE DEF b, passed
  <2>2. [pointers[v] EXCEPT !.invis = passed] \in Pointers
        /\ [pointers[v] EXCEPT !.invis = passed].repair = pointers[v].repair
    BY <1>2, <2>1 DEF Pointers
  <2>3. next \in Pointers /\ next.repair = pointers[v].repair
    BY <2>2 DEF passed
  <2> HIDE DEF next
  <2> QED
    BY <2>3, NilAssumption DEF Pointers
<1> HIDE DEF b, next
<1>6. \A p \in Publishers : (Holding(p)' <=> Holding(p)) /\ (Using(p)' <=> Using(p)) /\ pIndex'[p] = pIndex[p]
  BY <1>1 DEF Holding, Using, publishers
<1>7. v # CallerVersion => pointers'[CallerVersion] = pointers[CallerVersion]
  BY <1>1, TrafficTyped
<1>8. v = CallerVersion => pointers'[CallerVersion] = next
  BY <1>1, TrafficTyped
<1>9. BelowMonoton => BelowMonoton'
  BY <1>1, <1>6 DEF BelowMonoton
<1>10. Running => Running'
  BY <1>1, <1>5, <1>6, <1>7, <1>8, <1>9 DEF Running
<1>11. \A d \in Deleters : Ranged(d) => Ranged(d)'
  BY <1>1, <1>6, <1>9 DEF Ranged, deleters
<1>12. v = CallerVersion => monoton[CallerVersion] \notin {Nil, 0}
  BY <1>1, <1>4, BucketSizeAssumption
<1> QED
  BY <1>1, <1>5, <1>6, <1>7, <1>8, <1>10, <1>11, <1>12 DEF TrafficKeeps

\* What a deleter's statements leave alone of version 0
Untouched ==
  /\ monoton'[CallerVersion] = monoton[CallerVersion]
  /\ pointers'[CallerVersion] = pointers[CallerVersion]
  /\ messages'[CallerVersion] = messages[CallerVersion]

LEMMA DeleterTyped ==
  ASSUME SpareInv
  PROVE  /\ dpc \in [Deleters -> {"idle", "markPending", "insertJob", "markDeleting", "readRepair",
                                  "readInvis", "readMonoton", "deleteMessages", "deleteMonotons",
                                  "deletePointers", "markInactive", "deleteJob", "deleteRow", "end"}]
         /\ dVersion \in [Deleters -> Versions] /\ dTry \in [Deleters -> {"previous", "equal"}]
         /\ dJob \in [Deleters -> BOOLEAN] /\ dRange \in [Deleters -> SUBSET Index]
BY DEF SpareInv, TypeOK

\* A deleter moves the row from one status to the next, or leaves it as it is.
LEMMA TryAdvanceMoves ==
  ASSUME SpareInv, NEW d \in Deleters, NEW status \in {PendingDelete, Deleting, Inactive},
         NEW onSuccess, NEW onFailure, TryAdvance(d, status, onSuccess, onFailure)
  PROVE  \/ row' = row
         \/ /\ row # Nil /\ row' # Nil /\ row'.version = row.version
            /\ row.status \in {status - 1, status} /\ row'.status = status
<1> DEFINE from == IF dTry[d] = "previous" THEN status - 1 ELSE status
<1>1. CASE HasStatus(from)
  <2>1. row # Nil /\ row.status \in {status - 1, status} /\ row' = [row EXCEPT !.status = status]
    BY <1>1 DEF TryAdvance, HasStatus
  <2>2. row \in Rows
    BY <2>1, SpareRow
  <2>3. row' \in Rows /\ row'.version = row.version /\ row'.status = status
    BY <2>1, <2>2 DEF Rows, Provisioning, PendingDelete, Deleting, Inactive
  <2> QED
    BY <2>1, <2>3, RowIsNotNil
<1>2. CASE ~HasStatus(from)
  BY <1>2 DEF TryAdvance
<1> QED
  BY <1>1, <1>2

LEMMA DeleterProvisions ==
  ASSUME EmptyInv, NEW d \in Deleters, GetActiveQueue(d) \/ DeleterStep(d)
  PROVE  ProvisionInv'
<1> USE DEF EmptyInv
<1>1. UNCHANGED <<cpc, cVersion>>
  BY DEF GetActiveQueue, DeleterStep, MarkPendingDelete, InsertDeletionJob, MarkDeleting, ReadRepairPointer,
    ReadInvisPointer, ReadMonoton, DeleteMessages, DeleteMonotons, DeletePointers, MarkInactive,
    DeleteCompletionJob, DeleteIfInactive, Return, creators
<1>2. ASSUME UNCHANGED row, Untouched PROVE ProvisionInv'
  BY <1>1, <1>2 DEF ProvisionInv, Provisioner, HasStatus, Untouched
<1>3. ASSUME ~HasStatus(Provisioning), ~HasStatus(Provisioning)' PROVE ProvisionInv'
  <2>1. \A c \in Creators : ~Provisioner(c)
    BY <1>3 DEF ProvisionInv
  <2> QED
    BY <1>1, <1>3, <2>1 DEF ProvisionInv, Provisioner
<1>4. ASSUME NEW status \in {PendingDelete, Deleting, Inactive}, NEW onSuccess, NEW onFailure,
             TryAdvance(d, status, onSuccess, onFailure), UNCHANGED <<monoton, pointers, messages>>
      PROVE  ProvisionInv'
  <2>1. CASE row' = row
    BY <1>2, <1>4, <2>1 DEF Untouched
  <2>2. CASE row' # row
    <3>1. /\ row # Nil /\ row' # Nil /\ row.status \in {status - 1, status} /\ row'.status = status
      BY <1>4, <2>2, TryAdvanceMoves
    <3> QED
      BY <1>3, <3>1 DEF HasStatus, Provisioning, PendingDelete, Deleting, Inactive
  <2> QED
    BY <2>1, <2>2
<1>5. CASE GetActiveQueue(d) \/ InsertDeletionJob(d) \/ ReadRepairPointer(d) \/ ReadInvisPointer(d)
           \/ ReadMonoton(d) \/ DeleteMessages(d) \/ DeleteCompletionJob(d) \/ Return(d)
  <2>1. UNCHANGED <<row, monoton, pointers>>
    BY <1>5 DEF GetActiveQueue, InsertDeletionJob, ReadRepairPointer, ReadInvisPointer, ReadMonoton,
      DeleteMessages, DeleteCompletionJob, Return, tables
  <2> QED
    BY <1>1, <2>1 DEF ProvisionInv, Provisioner, HasStatus
<1>6. CASE MarkPendingDelete(d) \/ MarkDeleting(d) \/ MarkInactive(d)
  BY <1>4, <1>6 DEF MarkPendingDelete, MarkDeleting, MarkInactive
<1>7. CASE DeleteMonotons(d) \/ DeletePointers(d)
  <2>1. UNCHANGED <<row, messages>> /\ dpc[d] \in {"deleteMonotons", "deletePointers"}
    BY <1>7 DEF DeleteMonotons, DeletePointers
  <2>2. CASE dVersion[d] = CallerVersion
    BY <1>3, <2>1, <2>2, WorkIsOutOfService DEF AtWork, HasStatus
  <2>3. CASE dVersion[d] # CallerVersion
    BY <1>2, <1>7, <2>1, <2>3, SpareRow, DeleterTyped DEF DeleteMonotons, DeletePointers, Untouched
  <2> QED
    BY <2>2, <2>3
<1>8. CASE DeleteIfInactive(d)
  BY <1>2, <1>3, <1>8 DEF DeleteIfInactive, HasStatus, Provisioning, Inactive, Untouched
<1> QED
  BY <1>5, <1>6, <1>7, <1>8 DEF DeleterStep

\* The job of version 0 is there while its only deleter needs it, and no longer.
LEMMA DeleterJobs ==
  ASSUME \A d, e \in Deleters : d = e, EmptyInv, NEW d \in Deleters, GetActiveQueue(d) \/ DeleterStep(d)
  PROVE  JobInv'
<1> DEFINE working == {"markDeleting", "readRepair", "readInvis", "readMonoton", "deleteMessages",
                       "deleteMonotons", "deletePointers", "markInactive", "deleteJob"}
<1> USE DEF EmptyInv
<1>1. /\ CallerVersion \in jobs => dVersion[d] = CallerVersion /\ dpc[d] \in working
      /\ dpc[d] = "markDeleting" /\ dVersion[d] = CallerVersion => dJob[d]
  BY DEF JobInv
<1> SUFFICES /\ CallerVersion \in jobs' => dVersion'[d] = CallerVersion /\ dpc'[d] \in working
             /\ dpc'[d] = "markDeleting" /\ dVersion'[d] = CallerVersion => dJob'[d]
  BY DEF JobInv
<1>2. CASE GetActiveQueue(d)
  BY <1>1, <1>2, DeleterTyped DEF GetActiveQueue, tables
<1>3. CASE MarkPendingDelete(d)
  BY <1>1, <1>3, DeleterTyped DEF MarkPendingDelete, TryAdvance
<1>4. CASE InsertDeletionJob(d)
  BY <1>1, <1>4, DeleterTyped DEF InsertDeletionJob
<1>5. CASE MarkDeleting(d)
  <2>1. HasStatus(PendingDelete) /\ dTry[d] = "previous"
    BY <1>5 DEF MarkDeleting, SpareInv, OnItsWay
  <2>2. dpc'[d] = IF dJob[d] THEN "readRepair" ELSE "end"
    BY <1>5, <2>1, DeleterTyped DEF MarkDeleting, TryAdvance, PendingDelete, Deleting
  <2> QED
    BY <1>1, <1>5, <2>2 DEF MarkDeleting
<1>6. CASE ReadRepairPointer(d) \/ ReadInvisPointer(d) \/ ReadMonoton(d)
  BY <1>1, <1>6, DeleterTyped DEF ReadRepairPointer, ReadInvisPointer, ReadMonoton, tables
<1>7. CASE DeleteMessages(d) \/ DeleteMonotons(d) \/ DeletePointers(d) \/ DeleteCompletionJob(d)
  BY <1>1, <1>7, DeleterTyped DEF DeleteMessages, DeleteMonotons, DeletePointers, DeleteCompletionJob, DGoto
<1>8. CASE MarkInactive(d)
  BY <1>1, <1>8, DeleterTyped DEF MarkInactive, TryAdvance
<1>9. CASE DeleteIfInactive(d) \/ Return(d)
  BY <1>1, <1>9, DeleterTyped DEF DeleteIfInactive, Return, DeleterEnds, tables
<1> QED
  BY <1>2, <1>3, <1>4, <1>5, <1>6, <1>7, <1>8, <1>9 DEF DeleterStep

\* A deleter that is not at work on version 0 leaves it as empty as it was.
LEMMA RestingEmpties ==
  ASSUME \A d, e \in Deleters : d = e, EmptyInv, NEW d \in Deleters, ~AtWork(d), ~AtWork(d)',
         Untouched, UNCHANGED publishers, InService' <=> InService
  PROVE  WorkInv' /\ RestInv'
<1> USE DEF EmptyInv, Untouched
<1>1. \A e \in Deleters : ~AtWork(e) /\ ~AtWork(e)'
  OBVIOUS
<1>2. Running => Running'
  BY DEF Running, BelowMonoton, Holding, publishers
<1>3. Emptied => Emptied'
  BY DEF Emptied, Using, publishers
<1> QED
  BY <1>1, <1>2, <1>3 DEF WorkInv, RestInv

\* One that is at work, and stays at work, need only account for its next statement.
LEMMA WorkingEmpties ==
  ASSUME \A d, e \in Deleters : d = e, EmptyInv, NEW d \in Deleters, AtWork(d)', ~InService',
         /\ dpc'[d] = "readRepair" => Running'
         /\ dpc'[d] \in {"readInvis", "readMonoton"} => Ranged(d)'
         /\ dpc'[d] \in {"deleteMessages", "deleteMonotons", "deletePointers"} => \A p \in Publishers : ~Using(p)'
         /\ dpc'[d] = "deleteMessages" => messages'[CallerVersion] \subseteq dRange'[d]
         /\ dpc'[d] \in {"deleteMonotons", "deletePointers"} => messages'[CallerVersion] = {}
         /\ dpc'[d] = "deletePointers" => monoton'[CallerVersion] \in {Nil, 0}
  PROVE  WorkInv' /\ RestInv'
<1>1. WorkInv'
  BY DEF WorkInv
<1>2. RestInv'
  BY DEF RestInv
<1> QED
  BY <1>1, <1>2

\* Up to the mark on the status, the queue is in service.
LEMMA MarkingEmpties ==
  ASSUME \A d, e \in Deleters : d = e, EmptyInv, NEW d \in Deleters,
         GetActiveQueue(d) \/ MarkPendingDelete(d) \/ InsertDeletionJob(d) \/ MarkDeleting(d)
  PROVE  WorkInv' /\ RestInv'
<1> USE DEF EmptyInv
<1>1. CASE GetActiveQueue(d)
  <2>1. ~AtWork(d) /\ ~AtWork(d)' /\ UNCHANGED <<row, monoton, pointers, messages, publishers>>
    BY <1>1, DeleterTyped DEF GetActiveQueue, AtWork, tables
  <2> QED
    BY <2>1, RestingEmpties DEF Untouched, InService
<1>2. CASE MarkPendingDelete(d)
  <2>1. ~AtWork(d) /\ ~AtWork(d)' /\ UNCHANGED <<monoton, pointers, messages, publishers>>
    BY <1>2, DeleterTyped DEF MarkPendingDelete, TryAdvance, AtWork
  <2>2. \/ row' = row
        \/ row # Nil /\ row' # Nil /\ row'.version = row.version /\ row.status \in {1, 2} /\ row'.status = 2
    BY <1>2, TryAdvanceMoves DEF MarkPendingDelete, PendingDelete
  <2>3. InService' <=> InService
    BY <2>2 DEF InService, Active, PendingDelete
  <2> QED
    BY <2>1, <2>3, RestingEmpties DEF Untouched
<1>3. CASE InsertDeletionJob(d)
  <2>1. ~AtWork(d) /\ ~AtWork(d)' /\ UNCHANGED <<row, monoton, pointers, messages, publishers>>
    BY <1>3, DeleterTyped DEF InsertDeletionJob, AtWork
  <2> QED
    BY <2>1, RestingEmpties DEF Untouched, InService
<1>4. CASE MarkDeleting(d)
  <2>1. /\ HasStatus(PendingDelete) /\ row.version = dVersion[d] /\ dTry[d] = "previous"
        /\ dVersion[d] = CallerVersion => dJob[d]
    BY <1>4 DEF MarkDeleting, SpareInv, OnItsWay, JobInv
  <2>2. /\ dpc' = [dpc EXCEPT ![d] = IF dJob[d] THEN "readRepair" ELSE "end"] /\ dVersion' = dVersion
        /\ row' = [row EXCEPT !.status = Deleting] /\ UNCHANGED <<monoton, pointers, messages, publishers>>
        /\ dpc[d] = "markDeleting"
    BY <1>4, <2>1 DEF MarkDeleting, TryAdvance, PendingDelete, Deleting
  <2>3. row \in Rows /\ row'.version = row.version /\ row'.status = Deleting
    BY <2>1, <2>2, SpareRow DEF HasStatus, Rows
  <2>4. ~InService'
    BY <2>3 DEF InService, Active, PendingDelete, Deleting
  <2>5. CASE dVersion[d] = CallerVersion
    <3>1. AtWork(d)' /\ dpc'[d] = "readRepair"
      BY <2>1, <2>2, <2>5, DeleterTyped DEF AtWork
    <3>2. InService
      BY <2>1, <2>5 DEF InService, HasStatus
    <3>3. Running'
      BY <2>2, <3>2 DEF RestInv, Running, BelowMonoton, Holding, publishers
    <3> QED
      BY <2>4, <3>1, <3>3, WorkingEmpties
  <2>6. CASE dVersion[d] # CallerVersion
    <3>1. ~AtWork(d) /\ ~AtWork(d)'
      BY <2>2, <2>6 DEF AtWork
    <3>2. ~InService
      BY <2>1, <2>6 DEF InService
    <3> QED
      BY <2>2, <2>4, <3>1, <3>2, RestingEmpties DEF Untouched
  <2> QED
    BY <2>5, <2>6
<1> QED
  BY <1>1, <1>2, <1>3, <1>4

\* The three reads of getMinStartPointer and of the monoton
LEMMA RangingEmpties ==
  ASSUME \A d, e \in Deleters : d = e, EmptyInv, RequestsInTime, NEW d \in Deleters,
         ReadRepairPointer(d) \/ ReadInvisPointer(d) \/ ReadMonoton(d)
  PROVE  WorkInv' /\ RestInv'
<1> USE DEF EmptyInv
<1>1. UNCHANGED <<row, monoton, pointers, messages, publishers, dVersion>>
      /\ dpc[d] \in {"readRepair", "readInvis", "readMonoton"}
      /\ dpc'[d] \in {"readInvis", "readMonoton", "deleteMessages"}
  BY DeleterTyped DEF ReadRepairPointer, ReadInvisPointer, ReadMonoton, tables
<1>2. CASE dVersion[d] # CallerVersion
  <2>1. ~AtWork(d) /\ ~AtWork(d)'
    BY <1>1, <1>2 DEF AtWork
  <2> QED
    BY <1>1, <2>1, RestingEmpties DEF Untouched, InService
<1>3. CASE dVersion[d] = CallerVersion
  <2>1. AtWork(d) /\ AtWork(d)'
    BY <1>1, <1>3 DEF AtWork
  <2>2. ~InService'
    BY <1>1, <2>1, WorkIsOutOfService DEF InService
  <2>3. BelowMonoton => BelowMonoton'
    BY <1>1 DEF BelowMonoton, Holding, publishers
  <2>4. \A p \in Publishers : (Holding(p)' <=> Holding(p)) /\ (Using(p)' <=> Using(p)) /\ pIndex'[p] = pIndex[p]
    BY <1>1 DEF Holding, Using, publishers
  <2>5. TypeOK
    BY DEF SpareInv
  <2>6. CASE ReadRepairPointer(d)
    <3> DEFINE start == pointers[CallerVersion].repair * BucketSize
    <3>1. /\ dpc[d] = "readRepair" /\ dpc'[d] = "readInvis" /\ Running
          /\ pointers[CallerVersion] # Nil
      BY <2>1, <2>6, DeleterTyped DEF ReadRepairPointer, WorkInv, Running
    <3>2. dRange'[d] = Index \ (0 .. start - 1)
      BY <1>3, <2>6, <3>1, DeleterTyped DEF ReadRepairPointer
    <3>3. pointers[CallerVersion].repair \in Nat /\ start \in Nat /\ start <= monoton[CallerVersion]
      BY <2>5, <3>1, TrafficTyped, BucketSizeAssumption DEF Running
    <3>4. ASSUME NEW i \in Index \ dRange'[d]
          PROVE  /\ i \notin messages[CallerVersion] /\ i < monoton[CallerVersion]
                 /\ \A p \in Publishers : Holding(p) => pIndex[p] # i
      <4>1. i \in Nat /\ i < start
        BY <2>5, <3>2, <3>3, <3>4, TrafficTyped
      <4>2. ~(Bucket(i) >= pointers[CallerVersion].repair)
        BY <3>3, <4>1, InBucketOrBeyond
      <4>3. monoton[CallerVersion] \in Nat
        BY <2>5, <3>1, TrafficTyped DEF Running, BelowMonoton
      <4> QED
        BY <3>1, <3>3, <4>1, <4>2, <4>3 DEF Running
    <3>5. Ranged(d)'
      BY <1>1, <2>3, <2>4, <3>1, <3>4 DEF Ranged, Running
    <3> QED
      BY <2>1, <2>2, <3>1, <3>5, WorkingEmpties
  <2>7. CASE ReadInvisPointer(d)
    <3>1. Ranged(d) /\ dpc'[d] = "readMonoton" /\ dRange[d] \subseteq dRange'[d]
      BY <2>1, <2>7, DeleterTyped DEF ReadInvisPointer, WorkInv
    <3>2. Ranged(d)'
      BY <1>1, <2>3, <2>4, <3>1 DEF Ranged
    <3> QED
      BY <2>1, <2>2, <3>1, <3>2, WorkingEmpties
  <2>8. CASE ReadMonoton(d)
    <3>1. /\ Ranged(d) /\ dpc'[d] = "deleteMessages"
          /\ \A p \in Publishers : ~(Putting(p) /\ pVersion[p] = CallerVersion)
          /\ monoton[CallerVersion] # Nil
      BY <1>3, <2>1, <2>8, DeleterTyped DEF ReadMonoton, WorkInv, Ranged, BelowMonoton
    <3>2. dRange'[d] = {i \in dRange[d] : Bucket(i) <= Bucket(monoton[CallerVersion])}
      BY <1>3, <2>8, <3>1, DeleterTyped DEF ReadMonoton
    <3>3. \A p \in Publishers : ~Using(p)'
      BY <2>4, <3>1 DEF Using, Putting
    <3>4. ASSUME NEW i \in messages[CallerVersion] PROVE i \in dRange'[d]
      <4>1. i \in Index /\ i \in Nat /\ monoton[CallerVersion] \in Nat
        BY <2>5, <3>1, TrafficTyped
      <4>2. i \in dRange[d] /\ i < monoton[CallerVersion]
        BY <3>1, <4>1 DEF Ranged, BelowMonoton
      <4>3. Bucket(i) <= Bucket(monoton[CallerVersion])
        BY <4>1, <4>2, BucketMonotone
      <4> QED
        BY <3>2, <4>2, <4>3
    <3> QED
      BY <1>1, <2>1, <2>2, <3>1, <3>3, <3>4, WorkingEmpties
  <2> QED
    BY <2>6, <2>7, <2>8
<1> QED
  BY <1>2, <1>3

\* The three deletes
LEMMA DeletingEmpties ==
  ASSUME \A d, e \in Deleters : d = e, EmptyInv, NEW d \in Deleters,
         DeleteMessages(d) \/ DeleteMonotons(d) \/ DeletePointers(d)
  PROVE  WorkInv' /\ RestInv'
<1> USE DEF EmptyInv
<1>1. UNCHANGED <<row, publishers, dVersion, dRange>>
  BY DEF DeleteMessages, DeleteMonotons, DeletePointers, DGoto
<1>2. CASE dVersion[d] # CallerVersion
  <2>1. ~AtWork(d) /\ ~AtWork(d)'
    BY <1>1, <1>2 DEF AtWork
  <2>2. Untouched
    BY <1>2, SpareRow, DeleterTyped DEF DeleteMessages, DeleteMonotons, DeletePointers, Untouched
  <2> QED
    BY <1>1, <2>1, <2>2, RestingEmpties DEF InService
<1>3. CASE dVersion[d] = CallerVersion
  <2>1. AtWork(d)
    BY <1>3 DEF AtWork, DeleteMessages, DeleteMonotons, DeletePointers
  <2>2. ~InService'
    BY <1>1, <2>1, WorkIsOutOfService DEF InService
  <2>3. \A p \in Publishers : ~Using(p)'
    BY <1>1, <2>1 DEF WorkInv, Using, publishers, DeleteMessages, DeleteMonotons, DeletePointers
  <2>4. CASE DeleteMessages(d)
    <3>1. AtWork(d)' /\ dpc'[d] = "deleteMonotons"
      BY <1>1, <1>3, <2>4, DeleterTyped DEF AtWork, DeleteMessages, DGoto
    <3>2. messages'[CallerVersion] = {}
      BY <1>3, <2>1, <2>4, SpareRow DEF DeleteMessages, WorkInv
    <3> QED
      BY <2>2, <2>3, <3>1, <3>2, WorkingEmpties
  <2>5. CASE DeleteMonotons(d)
    <3>1. AtWork(d)' /\ dpc'[d] = "deletePointers" /\ UNCHANGED messages
      BY <1>1, <1>3, <2>5, DeleterTyped DEF AtWork, DeleteMonotons, DGoto
    <3>2. messages'[CallerVersion] = {} /\ monoton'[CallerVersion] = Nil
      BY <1>3, <2>1, <2>5, <3>1, SpareRow DEF DeleteMonotons, WorkInv
    <3> QED
      BY <2>2, <2>3, <3>1, <3>2, WorkingEmpties
  <2>6. CASE DeletePointers(d)
    <3>1. ~AtWork(d)' /\ UNCHANGED <<messages, monoton>>
      BY <1>1, <1>3, <2>6, DeleterTyped DEF AtWork, DeletePointers, DGoto
    <3>2. pointers'[CallerVersion] = Nil
      BY <1>3, <2>6, SpareRow DEF DeletePointers
    <3>3. messages'[CallerVersion] = {} /\ monoton'[CallerVersion] \in {Nil, 0}
      BY <2>1, <2>6, <3>1 DEF DeletePointers, WorkInv
    <3>4. Emptied'
      BY <2>3, <3>2, <3>3 DEF Emptied
    <3>5. WorkInv'
      BY <3>1 DEF WorkInv
    <3> QED
      BY <2>2, <3>4, <3>5 DEF RestInv
  <2> QED
    BY <2>4, <2>5, <2>6
<1> QED
  BY <1>2, <1>3

\* complete, and the end of the call
LEMMA CompletingEmpties ==
  ASSUME \A d, e \in Deleters : d = e, EmptyInv, NEW d \in Deleters,
         MarkInactive(d) \/ DeleteCompletionJob(d) \/ DeleteIfInactive(d) \/ Return(d)
  PROVE  WorkInv' /\ RestInv'
<1> USE DEF EmptyInv
<1>1. ~AtWork(d) /\ ~AtWork(d)' /\ UNCHANGED <<monoton, pointers, messages, publishers>>
  <2>1. CASE MarkInactive(d)
    BY <2>1, DeleterTyped DEF MarkInactive, TryAdvance, AtWork
  <2>2. CASE DeleteCompletionJob(d)
    BY <2>2, DeleterTyped DEF DeleteCompletionJob, DGoto, AtWork
  <2>3. CASE DeleteIfInactive(d) \/ Return(d)
    BY <2>3, DeleterTyped DEF DeleteIfInactive, Return, DeleterEnds, AtWork, tables
  <2> QED
    BY <2>1, <2>2, <2>3
<1>2. InService' <=> InService
  <2>1. CASE MarkInactive(d)
    <3>1. \/ row' = row
          \/ row # Nil /\ row' # Nil /\ row'.version = row.version /\ row.status \in {3, 4} /\ row'.status = 4
      BY <2>1, TryAdvanceMoves DEF MarkInactive, Inactive
    <3> QED
      BY <3>1 DEF InService, Active, PendingDelete
  <2>2. CASE DeleteIfInactive(d)
    BY <2>2 DEF DeleteIfInactive, HasStatus, InService, Active, PendingDelete, Inactive
  <2>3. CASE DeleteCompletionJob(d) \/ Return(d)
    BY <2>3 DEF DeleteCompletionJob, Return, InService, tables
  <2> QED
    BY <2>1, <2>2, <2>3
<1> QED
  BY <1>1, <1>2, RestingEmpties DEF Untouched

LEMMA EmptyNext ==
  ASSUME RequestsInTime, ConsumersInTime, \A d, e \in Deleters : d = e, Mortal \intersect Deleters = {},
         EmptyInv, [Next]_vars
  PROVE  EmptyInv'
<1> USE DEF EmptyInv
<1>1. SpareInv'
  BY SpareNext
<1>2. SUFFICES ProvisionInv' /\ JobInv' /\ WorkInv' /\ RestInv'
  BY <1>1
<1>3. ASSUME NEW c \in Creators, InsertQueue(c) \/ CreatorStep(c) \/ CrashCreator(c)
      PROVE  ProvisionInv' /\ JobInv' /\ WorkInv' /\ RestInv'
  <2>1. ProvisionInv' /\ JobInv'
    BY <1>3, CreatorProvisions, CreatorJobs
  <2>2. WorkInv' /\ RestInv'
    BY <1>3, CreatorEmpties, ActivateEmpties DEF CreatorStep
  <2> QED
    BY <2>1, <2>2
<1>4. ASSUME NEW d \in Deleters, GetActiveQueue(d) \/ DeleterStep(d)
      PROVE  ProvisionInv' /\ JobInv' /\ WorkInv' /\ RestInv'
  <2>1. ProvisionInv' /\ JobInv'
    BY <1>4, DeleterProvisions, DeleterJobs
  <2>2. WorkInv' /\ RestInv'
    BY <1>4, MarkingEmpties, RangingEmpties, DeletingEmpties, CompletingEmpties DEF DeleterStep
  <2> QED
    BY <2>1, <2>2
<1>5. ASSUME NEW d \in Deleters, CrashDeleter(d) PROVE FALSE
  BY <1>5 DEF CrashDeleter
<1>6. TypeOK
  BY DEF SpareInv
<1>7. ASSUME NEW p \in Publishers, LookupQueue(p) \/ PublisherStep(p) PROVE TrafficKeeps
  BY <1>6, <1>7, LookupKeeps, ClaimKeeps, PutKeeps DEF PublisherStep
<1>8. ASSUME NEW v \in Versions, RepairBucket(v) \/ PassInvisBucket(v) PROVE TrafficKeeps
  BY <1>6, <1>8, RepairKeeps, PassInvisKeeps
<1>9. ASSUME UNCHANGED vars PROVE TrafficKeeps
  BY <1>9 DEF vars, tables, creators, deleters, publishers, TrafficKeeps, Running, Ranged, BelowMonoton,
    Holding, Using
<1> QED
  BY <1>3, <1>4, <1>5, <1>7, <1>8, <1>9, TrafficEmpties DEF Next

\* Only the creator that provisioned it puts version 0 in use.
LEMMA OnlyActivated ==
  ASSUME SpareInv, [Next]_vars, IsActive(CallerVersion)', ~IsActive(CallerVersion)
  PROVE  \E c \in Creators : Activate(c)
<1> USE DEF IsActive, InUse, HasStatus
<1>1. row' # Nil /\ row'.status = Active /\ row'.version = CallerVersion
  OBVIOUS
<1>2. row' # row
  BY <1>1
<1>3. ASSUME NEW c \in Creators, InsertQueue(c) \/ CreatorStep(c) \/ CrashCreator(c) PROVE Activate(c)
  <2>1. ~InsertQueue(c)
    BY <1>1, <1>2 DEF InsertQueue, Provisioning, Active
  <2>2. ~UpdateDefinition(c)
    BY <1>1, <1>2 DEF UpdateDefinition, CallerVersion
  <2>3. ~(ReadCurrent(c) \/ EnsureMonoton(c) \/ EnsurePointers(c) \/ CrashCreator(c))
    BY <1>2 DEF ReadCurrent, EnsureMonoton, EnsurePointers, CrashCreator, tables
  <2> QED
    BY <1>3, <2>1, <2>2, <2>3 DEF CreatorStep
<1>4. ASSUME NEW d \in Deleters, GetActiveQueue(d) \/ DeleterStep(d) \/ CrashDeleter(d) PROVE FALSE
  <2>1. CASE MarkPendingDelete(d) \/ MarkDeleting(d) \/ MarkInactive(d)
    BY <1>1, <1>2, <2>1, TryAdvanceMoves
    DEF MarkPendingDelete, MarkDeleting, MarkInactive, Active, PendingDelete, Deleting, Inactive
  <2>2. CASE DeleteIfInactive(d)
    BY <1>1, <1>2, <2>2 DEF DeleteIfInactive
  <2>3. ASSUME UNCHANGED row PROVE FALSE
    BY <1>2, <2>3
  <2> QED
    BY <1>4, <2>1, <2>2, <2>3 DEF DeleterStep, GetActiveQueue, InsertDeletionJob, ReadRepairPointer,
      ReadInvisPointer, ReadMonoton, DeleteMessages, DeleteMonotons, DeletePointers, DeleteCompletionJob,
      Return, CrashDeleter, tables
<1>5. ASSUME NEW p \in Publishers, LookupQueue(p) \/ PublisherStep(p) PROVE FALSE
  BY <1>2, <1>5 DEF LookupQueue, PublisherStep, NextMonotonic, PutMessage, tables
<1>6. ASSUME NEW v \in Versions, RepairBucket(v) \/ PassInvisBucket(v) PROVE FALSE
  BY <1>2, <1>6 DEF RepairBucket, PassInvisBucket
<1>7. Next
  BY <1>2 DEF vars, tables
<1> QED
  BY <1>3, <1>4, <1>5, <1>6, <1>7 DEF Next

\* A queue created from nothing holds nothing of a queue deleted under its name, if
\* requests and consumers keep their time limits, and the queue has one deleter at a time
\* that finishes what it began (MessageDeletorJobProcessorImpl, "Deleted all messages!").
\* A deleter that dies leaves its job behind, which keeps the next one from deleting.
THEOREM NewQueuesAreEmptyAlways ==
  ASSUME RequestsInTime, ConsumersInTime, \A d, e \in Deleters : d = e, Mortal \intersect Deleters = {}
  PROVE  Spec => NewQueuesAreEmpty
<1>1. EmptyInv /\ [Next]_vars => EmptyInv'
  BY EmptyNext
<1>2. EmptyInv /\ [Next]_vars =>
        [IsActive(CallerVersion)' /\ ~IsActive(CallerVersion) =>
           /\ messages[CallerVersion]' = {} /\ monoton[CallerVersion]' = 0
           /\ pointers[CallerVersion]' = InitialPointers]_vars
  <2> SUFFICES ASSUME EmptyInv, [Next]_vars, IsActive(CallerVersion)', ~IsActive(CallerVersion)
               PROVE  /\ messages[CallerVersion]' = {} /\ monoton[CallerVersion]' = 0
                      /\ pointers[CallerVersion]' = InitialPointers
    OBVIOUS
  <2>1. PICK c \in Creators : Activate(c)
    BY OnlyActivated DEF EmptyInv
  <2> QED
    BY <2>1, ActivatedEmpty DEF CallerVersion
<1> QED
  BY <1>1, <1>2, EmptyInit, PTL DEF Spec, NewQueuesAreEmpty
=============================================================================
