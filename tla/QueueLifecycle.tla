--------------------------- MODULE QueueLifecycle ---------------------------
(***************************************************************************)
(* The life of one queue name: creation, deletion and creation again, by   *)
(* QueueRepositoryImpl, QueueDeleter and the deletion job, any number of   *)
(* requests at once.  Each action is one statement on the database.        *)
(*                                                                         *)
(* A definition row names the current version of the queue; each version   *)
(* has a monoton, pointers and messages of its own, under the queue id     *)
(* account:name_vN.  What publishers, readers and repair workers do to     *)
(* these tables (module BucketQueue) is reduced here to what a deletion    *)
(* job sees of it: indices are handed out, messages appear, and the repair *)
(* and invisibility pointers pass whole buckets.                           *)
(***************************************************************************)
EXTENDS Integers, FiniteSets

CONSTANTS
  Creators,         \* requests to create the queue
  Deleters,         \* requests to delete it; each runs its deletion job itself
  Publishers,       \* requests to put a message
  Mortal,           \* the creators and deleters that may die in mid-operation
  BucketSize,       \* QueueDefinition.bucketSize
  RequestsInTime,   \* timing: a put is over when its bucket's timeout passes, and when a
                    \* deletion that came after its look-up reads the monoton
  ConsumersInTime,  \* timing: messages are acknowledged before their bucket's timeout,
                    \* and buckets are deleted after finalization
  MaxIndex,         \* bound: each version hands out the indices 0 .. MaxIndex - 1
  Nil               \* "no row"

ASSUME BucketSizeAssumption == BucketSize \in Nat \ {0}
ASSUME MaxIndexAssumption == MaxIndex \in Nat \ {0}
ASSUME FlagsAssumption == {RequestsInTime, ConsumersInTime} \subseteq BOOLEAN
ASSUME NilAssumption ==
  Nil \notin [status : Nat, version : Nat] \union [repair : Nat, invis : Nat \union {-1}] \union Nat

VARIABLES
  (* the tables *)
  row,       \* queue: [status, version], or Nil
  jobs,      \* deletion_job: the versions that have one
  monoton,   \* version |-> next index, or Nil
  pointers,  \* version |-> [repair, invis], or Nil
  messages,  \* version |-> indices that hold a message
  (* requests *)
  cpc, cVersion,                     \* creators
  dpc, dVersion, dTry, dJob, dRange, \* deleters
  ppc, pVersion, pIndex              \* publishers

tables == <<row, jobs, monoton, pointers, messages>>
creators == <<cpc, cVersion>>
deleters == <<dpc, dVersion, dTry, dJob, dRange>>
publishers == <<ppc, pVersion, pIndex>>
vars == <<tables, creators, deleters, publishers>>

-----------------------------------------------------------------------------
(* QueueStatus: the ordinals *)
Provisioning == 0
Active == 1
PendingDelete == 2
Deleting == 3
Inactive == 4

\* A caller's definition is built without a version, so tryUpdateQueueDefinition
\* only ever replaces version 0, by version 1.
CallerVersion == 0
Versions == {CallerVersion, CallerVersion + 1}

Index == 0 .. MaxIndex - 1

Bucket(i) == i \div BucketSize

InitialPointers == [repair |-> 0, invis |-> -1]

HasStatus(status) == row # Nil /\ row.status = status

InUse == HasStatus(Active)

IsActive(v) == InUse /\ row.version = v

Init ==
  /\ row = Nil /\ jobs = {}
  /\ monoton = [v \in Versions |-> Nil]
  /\ pointers = [v \in Versions |-> Nil]
  /\ messages = [v \in Versions |-> {}]
  /\ cpc = [c \in Creators |-> "idle"] /\ cVersion = [c \in Creators |-> 0]
  /\ dpc = [d \in Deleters |-> "idle"] /\ dVersion = [d \in Deleters |-> 0]
  /\ dTry = [d \in Deleters |-> "previous"]
  /\ dJob = [d \in Deleters |-> FALSE]
  /\ dRange = [d \in Deleters |-> {}]
  /\ ppc = [p \in Publishers |-> "idle"] /\ pVersion = [p \in Publishers |-> 0]
  /\ pIndex = [p \in Publishers |-> 0]

\* The publisher has an index, or nothing keeps it from having one.
Putting(p) == ppc[p] = "put" \/ (ppc[p] = "claim" /\ monoton[pVersion[p]] # Nil)

-----------------------------------------------------------------------------
(* createQueue *)

CGoto(c, label) == cpc' = [cpc EXCEPT ![c] = label]

CreatorEnds(c) == CGoto(c, "idle") /\ cVersion' = [cVersion EXCEPT ![c] = 0]

\* insertQueueIfNotExist; the pointers it ensures are those of version 0.
InsertQueue(c) ==
  /\ cpc[c] = "idle"
  /\ IF row = Nil
       THEN /\ row' = [status |-> Provisioning, version |-> 0]
            /\ CGoto(c, "newMonoton")
       ELSE CGoto(c, "read") /\ UNCHANGED row
  /\ UNCHANGED <<jobs, monoton, pointers, messages, cVersion, deleters, publishers>>

\* getQueueUnsafe: the row may be gone again, may not be provisionable, or is
\* a definition on its way out, whose own pointers are then ensured.
ReadCurrent(c) ==
  /\ cpc[c] = "read"
  /\ IF row = Nil THEN CreatorEnds(c)    \* and the call starts over
     ELSE IF row.status < Deleting THEN CreatorEnds(c)
     ELSE CGoto(c, "monoton") /\ cVersion' = [cVersion EXCEPT ![c] = row.version]
  /\ UNCHANGED <<tables, deleters, publishers>>

EnsureMonoton(c) ==
  /\ cpc[c] \in {"newMonoton", "monoton"}
  /\ monoton' = [monoton EXCEPT ![cVersion[c]] = IF @ = Nil THEN 0 ELSE @]
  /\ CGoto(c, IF cpc[c] = "newMonoton" THEN "newPointers" ELSE "pointers")
  /\ UNCHANGED <<row, jobs, pointers, messages, cVersion, deleters, publishers>>

\* The inserts of the pointers; one that is missing reads as 0, and a creator
\* that dies among them never activates the queue.
EnsurePointers(c) ==
  /\ cpc[c] \in {"newPointers", "pointers"}
  /\ pointers' = [pointers EXCEPT ![cVersion[c]] = IF @ = Nil THEN InitialPointers ELSE @]
  /\ CGoto(c, IF cpc[c] = "newPointers" THEN "activate" ELSE "update")
  /\ UNCHANGED <<row, jobs, monoton, messages, cVersion, deleters, publishers>>

\* tryAdvanceQueueStatus(Active): nothing else moves a row that is provisioning.
Activate(c) ==
  /\ cpc[c] = "activate"
  /\ HasStatus(Provisioning)
  /\ row' = [row EXCEPT !.status = Active]
  /\ CreatorEnds(c)
  /\ UNCHANGED <<jobs, monoton, pointers, messages, deleters, publishers>>

\* Fault: the update is conditional on the version alone.
UpdateWhateverStatus(c) ==
  /\ cpc[c] = "update"
  /\ IF row # Nil /\ row.version = CallerVersion
       THEN row' = [status |-> Active, version |-> CallerVersion + 1]
       ELSE UNCHANGED row
  /\ CreatorEnds(c)
  /\ UNCHANGED <<jobs, monoton, pointers, messages, deleters, publishers>>

\* Fault: the new definition keeps the version, and with it the queue id.
UpdateKeepsVersion(c) ==
  /\ cpc[c] = "update"
  /\ IF row # Nil /\ row.version = CallerVersion /\ row.status >= Deleting
       THEN row' = [status |-> Active, version |-> CallerVersion]
       ELSE UNCHANGED row
  /\ CreatorEnds(c)
  /\ UNCHANGED <<jobs, monoton, pointers, messages, deleters, publishers>>

\* tryUpdateQueueDefinition, with the version of the caller's definition
UpdateDefinition(c) ==
  /\ cpc[c] = "update"
  /\ IF row # Nil /\ row.version = CallerVersion /\ row.status >= Deleting
       THEN row' = [status |-> Active, version |-> CallerVersion + 1]
       ELSE UNCHANGED row
  /\ CreatorEnds(c)
  /\ UNCHANGED <<jobs, monoton, pointers, messages, deleters, publishers>>

CrashCreator(c) ==
  /\ c \in Mortal /\ cpc[c] # "idle"
  /\ CreatorEnds(c)
  /\ UNCHANGED <<tables, deleters, publishers>>

-----------------------------------------------------------------------------
(* QueueDeleter.delete, and the deletion job it starts *)

DGoto(d, label) ==
  /\ dpc' = [dpc EXCEPT ![d] = label]
  /\ UNCHANGED <<dVersion, dTry, dJob, dRange>>

DeleterEnds(d) ==
  /\ dpc' = [dpc EXCEPT ![d] = "idle"]
  /\ dVersion' = [dVersion EXCEPT ![d] = 0]
  /\ dTry' = [dTry EXCEPT ![d] = "previous"]
  /\ dJob' = [dJob EXCEPT ![d] = FALSE]
  /\ dRange' = [dRange EXCEPT ![d] = {}]

\* tryAdvanceQueueStatus: two conditional updates by name, the first from the
\* status before, the second from the status itself.
TryAdvance(d, status, onSuccess, onFailure) ==
  LET from == IF dTry[d] = "previous" THEN status - 1 ELSE status
  IN IF HasStatus(from)
       THEN /\ row' = [row EXCEPT !.status = status]
            /\ dpc' = [dpc EXCEPT ![d] = onSuccess]
            /\ dTry' = [dTry EXCEPT ![d] = "previous"]
       ELSE /\ dpc' = [dpc EXCEPT ![d] = IF dTry[d] = "previous" THEN @ ELSE onFailure]
            /\ dTry' = [dTry EXCEPT ![d] = IF @ = "previous" THEN "equal" ELSE "previous"]
            /\ UNCHANGED row

GetActiveQueue(d) ==
  /\ dpc[d] = "idle" /\ InUse
  /\ dpc' = [dpc EXCEPT ![d] = "markPending"]
  /\ dVersion' = [dVersion EXCEPT ![d] = row.version]
  /\ UNCHANGED <<dTry, dJob, dRange, tables, creators, publishers>>

MarkPendingDelete(d) ==
  /\ dpc[d] = "markPending"
  /\ TryAdvance(d, PendingDelete, "insertJob", "end")
  /\ UNCHANGED <<jobs, monoton, pointers, messages, dVersion, dJob, dRange, creators, publishers>>

\* The job is that of the definition read at the start.
InsertDeletionJob(d) ==
  /\ dpc[d] = "insertJob"
  /\ dJob' = [dJob EXCEPT ![d] = dVersion[d] \notin jobs]
  /\ jobs' = jobs \union {dVersion[d]}
  /\ dpc' = [dpc EXCEPT ![d] = "markDeleting"]
  /\ UNCHANGED <<row, monoton, pointers, messages, dVersion, dTry, dRange, creators, publishers>>

MarkDeleting(d) ==
  /\ dpc[d] = "markDeleting"
  /\ TryAdvance(d, Deleting, IF dJob[d] THEN "readRepair" ELSE "end", "end")
  /\ UNCHANGED <<jobs, monoton, pointers, messages, dVersion, dJob, dRange, creators, publishers>>

\* getMinStartPointer, first half: the start of the repair pointer's bucket
ReadRepairPointer(d) ==
  LET p == pointers[dVersion[d]]
  IN /\ dpc[d] = "readRepair"
     /\ dRange' = [dRange EXCEPT ![d] = Index \ (0 .. (IF p = Nil THEN 0 ELSE p.repair * BucketSize) - 1)]
     /\ dpc' = [dpc EXCEPT ![d] = "readInvis"]
     /\ UNCHANGED <<dVersion, dTry, dJob, tables, creators, publishers>>

\* second half: or the bucket of the invisibility pointer, if that is lower
ReadInvisPointer(d) ==
  LET p == pointers[dVersion[d]]
      start == IF p = Nil \/ p.invis < 0 THEN 0 ELSE Bucket(p.invis) * BucketSize
  IN /\ dpc[d] = "readInvis"
     /\ dRange' = [dRange EXCEPT ![d] = @ \union {i \in Index : i >= start}]
     /\ dpc' = [dpc EXCEPT ![d] = "readMonoton"]
     /\ UNCHANGED <<dVersion, dTry, dJob, tables, creators, publishers>>

\* Fault: IntStream.range without its "+ 1", the last bucket is left out.
ReadMonotonExclusive(d) ==
  LET end == IF monoton[dVersion[d]] = Nil THEN 0 ELSE monoton[dVersion[d]]
  IN /\ dpc[d] = "readMonoton"
     /\ dRange' = [dRange EXCEPT ![d] = {i \in @ : Bucket(i) < Bucket(end)}]
     /\ dpc' = [dpc EXCEPT ![d] = "deleteMessages"]
     /\ UNCHANGED <<dVersion, dTry, dJob, tables, creators, publishers>>

\* The last bucket is that of the monoton.
ReadMonoton(d) ==
  LET end == IF monoton[dVersion[d]] = Nil THEN 0 ELSE monoton[dVersion[d]]
  IN /\ dpc[d] = "readMonoton"
     /\ RequestsInTime => \A p \in Publishers : ~(Putting(p) /\ pVersion[p] = dVersion[d])
     /\ dRange' = [dRange EXCEPT ![d] = {i \in @ : Bucket(i) <= Bucket(end)}]
     /\ dpc' = [dpc EXCEPT ![d] = "deleteMessages"]
     /\ UNCHANGED <<dVersion, dTry, dJob, tables, creators, publishers>>

\* One batch: fewer than a hundred buckets.
DeleteMessages(d) ==
  /\ dpc[d] = "deleteMessages"
  /\ messages' = [messages EXCEPT ![dVersion[d]] = @ \ dRange[d]]
  /\ DGoto(d, "deleteMonotons")
  /\ UNCHANGED <<row, jobs, monoton, pointers, creators, publishers>>

DeleteMonotons(d) ==
  /\ dpc[d] = "deleteMonotons"
  /\ monoton' = [monoton EXCEPT ![dVersion[d]] = Nil]
  /\ DGoto(d, "deletePointers")
  /\ UNCHANGED <<row, jobs, pointers, messages, creators, publishers>>

DeletePointers(d) ==
  /\ dpc[d] = "deletePointers"
  /\ pointers' = [pointers EXCEPT ![dVersion[d]] = Nil]
  /\ DGoto(d, "markInactive")
  /\ UNCHANGED <<row, jobs, monoton, messages, creators, publishers>>

\* complete: whether the status moved is not looked at.
MarkInactive(d) ==
  /\ dpc[d] = "markInactive"
  /\ TryAdvance(d, Inactive, "deleteJob", "deleteJob")
  /\ UNCHANGED <<jobs, monoton, pointers, messages, dVersion, dJob, dRange, creators, publishers>>

DeleteCompletionJob(d) ==
  /\ dpc[d] = "deleteJob"
  /\ jobs' = jobs \ {dVersion[d]}
  /\ DGoto(d, "deleteRow")
  /\ UNCHANGED <<row, monoton, pointers, messages, creators, publishers>>

\* Fault: the definition row is left in place.
RowKept(d) ==
  /\ dpc[d] = "deleteRow"
  /\ DeleterEnds(d)
  /\ UNCHANGED <<tables, creators, publishers>>

DeleteIfInactive(d) ==
  /\ dpc[d] = "deleteRow"
  /\ row' = IF HasStatus(Inactive) THEN Nil ELSE row
  /\ DeleterEnds(d)
  /\ UNCHANGED <<jobs, monoton, pointers, messages, creators, publishers>>

\* The call returns or throws.
Return(d) ==
  /\ dpc[d] = "end"
  /\ DeleterEnds(d)
  /\ UNCHANGED <<tables, creators, publishers>>

CrashDeleter(d) ==
  /\ d \in Mortal /\ dpc[d] # "idle"
  /\ DeleterEnds(d)
  /\ UNCHANGED <<tables, creators, publishers>>

-----------------------------------------------------------------------------
(* The traffic of the queue *)

PublisherEnds(p) ==
  /\ ppc' = [ppc EXCEPT ![p] = "idle"]
  /\ pVersion' = [pVersion EXCEPT ![p] = 0]
  /\ pIndex' = [pIndex EXCEPT ![p] = 0]

LookupQueue(p) ==
  /\ ppc[p] = "idle" /\ InUse
  /\ ppc' = [ppc EXCEPT ![p] = "claim"]
  /\ pVersion' = [pVersion EXCEPT ![p] = row.version]
  /\ UNCHANGED <<pIndex, tables, creators, deleters>>

\* Fault: the publisher takes the incremented value.
NextMonotonicAfter(p) ==
  LET v == pVersion[p]
  IN /\ ppc[p] = "claim" /\ monoton[v] # Nil /\ monoton[v] < MaxIndex
     /\ pIndex' = [pIndex EXCEPT ![p] = monoton[v] + 1]
     /\ monoton' = [monoton EXCEPT ![v] = @ + 1]
     /\ ppc' = [ppc EXCEPT ![p] = "put"]
     /\ UNCHANGED <<row, jobs, pointers, messages, pVersion, creators, deleters>>

\* Without a monoton row the publisher tries for ever.
NextMonotonic(p) ==
  LET v == pVersion[p]
  IN /\ ppc[p] = "claim" /\ monoton[v] # Nil
     /\ IF monoton[v] = MaxIndex
          THEN PublisherEnds(p) /\ UNCHANGED monoton
          ELSE /\ pIndex' = [pIndex EXCEPT ![p] = monoton[v]]
               /\ monoton' = [monoton EXCEPT ![v] = @ + 1]
               /\ ppc' = [ppc EXCEPT ![p] = "put"]
               /\ UNCHANGED pVersion
     /\ UNCHANGED <<row, jobs, pointers, messages, creators, deleters>>

PutMessage(p) ==
  /\ ppc[p] = "put"
  /\ messages' = [messages EXCEPT ![pVersion[p]] = @ \union {pIndex[p]}]
  /\ PublisherEnds(p)
  /\ UNCHANGED <<row, jobs, monoton, pointers, creators, deleters>>

\* A bucket is closed for good once all its indices have been handed out
\* (BucketQueue, ClosedBucketsStayClosed).
Closed(v, b) == monoton[v] # Nil /\ (b + 1) * BucketSize <= monoton[v]

\* A repair worker moves on, and deletes the bucket it leaves; or it leaves the
\* messages there, where the consumers or the configuration make it.
RepairBucket(v) ==
  LET b == pointers[v].repair
  IN /\ pointers[v] # Nil /\ Closed(v, b)
     /\ RequestsInTime => \A p \in Publishers : ppc[p] = "put" =>
          ~(pVersion[p] = v /\ Bucket(pIndex[p]) = b)
     /\ pointers' = [pointers EXCEPT ![v].repair = b + 1]
     /\ \/ messages' = [messages EXCEPT ![v] = {i \in @ : Bucket(i) # b}]
        \/ ~ConsumersInTime /\ UNCHANGED messages
     /\ UNCHANGED <<row, jobs, monoton, creators, deleters, publishers>>

\* A reader moves the invisibility pointer past a bucket it has done with.
PassInvisBucket(v) ==
  LET b == IF pointers[v].invis < 0 THEN 0 ELSE Bucket(pointers[v].invis)
  IN /\ pointers[v] # Nil /\ Closed(v, b)
     /\ pointers' = [pointers EXCEPT ![v].invis = (b + 1) * BucketSize]
     /\ UNCHANGED <<row, jobs, monoton, messages, creators, deleters, publishers>>

-----------------------------------------------------------------------------

CreatorStep(c) ==
  \/ ReadCurrent(c) \/ EnsureMonoton(c) \/ EnsurePointers(c)
  \/ Activate(c) \/ UpdateDefinition(c)

DeleterStep(d) ==
  \/ MarkPendingDelete(d) \/ InsertDeletionJob(d) \/ MarkDeleting(d)
  \/ ReadRepairPointer(d) \/ ReadInvisPointer(d) \/ ReadMonoton(d)
  \/ DeleteMessages(d) \/ DeleteMonotons(d) \/ DeletePointers(d)
  \/ MarkInactive(d) \/ DeleteCompletionJob(d) \/ DeleteIfInactive(d) \/ Return(d)

PublisherStep(p) == NextMonotonic(p) \/ PutMessage(p)

Next ==
  \/ \E c \in Creators : InsertQueue(c) \/ CreatorStep(c) \/ CrashCreator(c)
  \/ \E d \in Deleters : GetActiveQueue(d) \/ DeleterStep(d) \/ CrashDeleter(d)
  \/ \E p \in Publishers : LookupQueue(p) \/ PublisherStep(p)
  \/ \E v \in Versions : RepairBucket(v) \/ PassInvisBucket(v)

Spec == Init /\ [][Next]_vars

(* A request that was accepted runs on; nobody has to make one. *)
Fairness ==
  /\ \A d \in Deleters : WF_vars(DeleterStep(d))
  /\ \A p \in Publishers : WF_vars(PublisherStep(p))

FairSpec == Spec /\ Fairness

-----------------------------------------------------------------------------
(* Properties *)

\* Every column and every local keeps the range the code gives it.
TypeOK ==
  /\ row \in [status : Provisioning .. Inactive, version : Versions] \union {Nil}
  /\ jobs \subseteq Versions
  /\ monoton \in [Versions -> (0 .. MaxIndex) \union {Nil}]
  /\ pointers \in [Versions -> [repair : Nat, invis : Nat \union {-1}] \union {Nil}]
  /\ messages \in [Versions -> SUBSET Index]
  /\ cpc \in [Creators -> {"idle", "newMonoton", "newPointers", "activate", "read",
                           "monoton", "pointers", "update"}]
  /\ cVersion \in [Creators -> Versions]
  /\ dpc \in [Deleters -> {"idle", "markPending", "insertJob", "markDeleting", "readRepair",
                           "readInvis", "readMonoton", "deleteMessages", "deleteMonotons",
                           "deletePointers", "markInactive", "deleteJob", "deleteRow", "end"}]
  /\ dVersion \in [Deleters -> Versions]
  /\ dTry \in [Deleters -> {"previous", "equal"}]
  /\ dJob \in [Deleters -> BOOLEAN]
  /\ dRange \in [Deleters -> SUBSET Index]
  /\ ppc \in [Publishers -> {"idle", "claim", "put"}]
  /\ pVersion \in [Publishers -> Versions]
  /\ pIndex \in [Publishers -> Index]

Advances(old, new) ==
  \/ old = Nil /\ new = [status |-> Provisioning, version |-> 0]
  \/ /\ old # Nil /\ new # Nil
     /\ \/ new.version = old.version /\ new.status = old.status + 1
        \/ old.status >= Deleting /\ new.status = Active /\ new.version = old.version + 1
  \/ old # Nil /\ old.status = Inactive /\ new = Nil

\* However many requests race, the status takes one step at a time and never
\* back: a queue in use is never replaced by another creator's definition, and
\* only an inactive definition is removed (QueueStatus, tryAdvanceQueueStatus).
StatusMovesForward == [][row' # row => Advances(row, row')]_vars

\* A deletion job that is about to delete messages, the monoton or the pointers
\* of a queue id deletes nothing of a queue in use: "make sure the deleter when it
\* completed didn't just kill this active queue" (QueueDeleterTests).
DeletionSparesActive ==
  \A d \in Deleters :
    dpc[d] \in {"deleteMessages", "deleteMonotons", "deletePointers"} => ~IsActive(dVersion[d])

\* A queue created from nothing holds nothing of a queue that was deleted under
\* the same name, and the same queue id: no message, and no monoton or pointer
\* beyond its initial value (MessageDeletorJobProcessorImpl, "Deleted all messages!").
NewQueuesAreEmpty ==
  [][LET v == CallerVersion
     IN IsActive(v)' /\ ~IsActive(v) =>
          messages[v]' = {} /\ monoton[v]' = 0 /\ pointers[v]' = InitialPointers]_vars

\* "The queue is provisioned and ready for use" (QueueStatus.Active): its monoton
\* and its pointers exist, so that publishers get an index and readers move on.
ActiveIsProvisioned ==
  \A v \in Versions : IsActive(v) => monoton[v] # Nil /\ pointers[v] # Nil

\* A deletion that began ends: the definition is gone, or a new queue is in use.
DeletionEnds == (row # Nil /\ row.status > Active) ~> (row = Nil \/ InUse)
=============================================================================
