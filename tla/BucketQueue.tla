---------------------------- MODULE BucketQueue ----------------------------
(***************************************************************************)
(* One CassieQ queue: the tables of one queue id, the publishers, the      *)
(* readers that serve "get next message", the consumers that acknowledge,  *)
(* and the repair workers that close tombstoned buckets.                   *)
(*                                                                         *)
(* Messages live at monotonically increasing indices; the indices are cut  *)
(* into buckets (Cassandra partitions) of BucketSize.  Nothing spans two   *)
(* statements: every action below is one statement on the database (a read *)
(* or a compare-and-set), with the local decision the code takes on its    *)
(* answer.  Time is abstract: a row is visible or it is not, and Expire    *)
(* may end an invisibility at any moment.                                  *)
(***************************************************************************)
EXTENDS Integers, FiniteSets

CONSTANTS
  Readers,         \* threads serving ReaderImpl.nextMessage
  Repairers,       \* repair workers of this queue, on any node
  Mortal,          \* the readers and repair workers that may die in mid-operation
  BucketSize,      \* QueueDefinition.bucketSize
  MaxDelivery,     \* QueueDefinition.maxDeliveryCount
  StrictFifo,      \* QueueDefinition.strictFifo
  DeleteBuckets,   \* QueueDefinition.deleteBucketsAfterFinalization
  DelayedPuts,     \* may a put give an initial invisibility?
  PutsInTime,      \* timing: no put lands after its bucket's tombstone timeout
  ScansInTime,     \* timing: no invisibility scan outlasts that timeout
  MaxIndex,        \* bound: indices 0 .. MaxIndex - 1 are handed out
  Nil              \* "no row" and "no message"

ASSUME BucketSizeAssumption == BucketSize \in Nat \ {0}
ASSUME MaxDeliveryAssumption == MaxDelivery \in Nat
ASSUME MaxIndexAssumption == MaxIndex \in Nat
ASSUME FlagsAssumption ==
  {StrictFifo, DeleteBuckets, DelayedPuts, PutsInTime, ScansInTime} \subseteq BOOLEAN

VARIABLES
  (* the tables *)
  monoton,     \* monoton.value: the next index to hand out
  rows,        \* message: index |-> row, or Nil
  tombstones,  \* buckets that hold the Tombstone special row
  finalizers,  \* buckets that hold the Finalizer special row
  readerPtr,   \* pointer BUCKET_POINTER
  invisPtr,    \* pointer INVISIBILITY_POINTER
  repairPtr,   \* pointer REPAIR_BUCKET
  (* publishers and consumers *)
  claims,      \* indices a publisher has claimed and not yet put
  receipts,    \* pop receipts consumers hold
  (* readers *)
  rpc, rBucket, rPtr, rMsg, rDest, rThen,
  (* repair workers *)
  wpc, wBucket, wWatched, wTodo, wClaim,
  (* history *)
  published,   \* payloads whose put succeeded (a payload is named by its first index)
  done,        \* payloads a consumer acknowledged
  dlq          \* payloads put into the dead letter queue

tables == <<monoton, rows, tombstones, finalizers, readerPtr, invisPtr, repairPtr>>
clients == <<claims, receipts>>
readers == <<rpc, rBucket, rPtr, rMsg, rDest, rThen>>
repairers == <<wpc, wBucket, wWatched, wTodo, wClaim>>
history == <<published, done, dlq>>
vars == <<tables, clients, readers, repairers, history>>

-----------------------------------------------------------------------------
(* Indices, buckets and rows *)

Index == 0 .. MaxIndex - 1

Row == [payload : Index, acked : BOOLEAN, visible : BOOLEAN, version : Nat, count : Nat]

\* A message as a reader remembers it: the columns it read, and how it was found.
Snapshot == [index : Index, payload : Index, version : Nat, count : Nat,
             source : {"Reader", "InvisStrategy"}]

ASSUME NilAssumption == Nil \notin Row \union Snapshot

\* A message as a repair worker remembers it between collecting and republishing.
Unclaimed == [index : Index, payload : Index, version : Nat]

Receipt == [index : Index, version : Nat]

\* MonotonicIndex.toBucketPointer
Bucket(i) == i \div BucketSize

\* InvisibilityMessagePointer.toBucketPointer: the initial -1 is bucket 0
InvisBucket(p) == IF p <= 0 THEN 0 ELSE Bucket(p)

\* bucket.next().startOf(bucketSize)
StartOfNext(b) == (b + 1) * BucketSize

IndicesOf(b) == {i \in Index : Bucket(i) = b}

\* MessageRepository.getMessages: special rows filtered out
Messages(b) == {i \in IndicesOf(b) : rows[i] # Nil}

\* Fault: an off-by-one in the size comparison.
FullButOne(b) == \A k \in (b * BucketSize) .. (StartOfNext(b) - 2) : k \in Index /\ rows[k] # Nil

\* messages.size() == bucketSize, an index occurring at most once in a partition
Full(b) == \A k \in (b * BucketSize) .. (StartOfNext(b) - 1) : k \in Index /\ rows[k] # Nil

Unacked(i) == rows[i] # Nil /\ ~rows[i].acked

AllAcked(b) == \A i \in Messages(b) : rows[i].acked

Available(b) == {i \in Messages(b) : ~rows[i].acked /\ rows[i].visible}

Invisible(b) == {i \in Messages(b) : ~rows[i].acked /\ ~rows[i].visible}

NeverDelivered(b) == {i \in Messages(b) : rows[i].count = 0}

\* The partition is clustered by monoton: findFirst returns the lowest index.
First(S) == {i \in S : \A j \in S : i <= j}

NewRow(p, vis) ==
  [payload |-> p, acked |-> FALSE, visible |-> vis, version |-> 1, count |-> 0]

\* ackMessage's conditional update: only the version is compared.
AckApplies(i, v) == rows[i] # Nil /\ rows[i].version = v

Acked(row) == [row EXCEPT !.acked = TRUE, !.version = @ + 1]

\* Locals that are dead go back to their initial values.
Restart(r, label) ==
  /\ rpc' = [rpc EXCEPT ![r] = label]
  /\ rBucket' = [rBucket EXCEPT ![r] = 0]
  /\ rPtr' = [rPtr EXCEPT ![r] = -1]
  /\ rMsg' = [rMsg EXCEPT ![r] = Nil]
  /\ rDest' = [rDest EXCEPT ![r] = 0]
  /\ rThen' = [rThen EXCEPT ![r] = "idle"]

ReaderIdle(r) == Restart(r, "idle")

\* No message came from the invisibility strategy: on to ReaderImpl.getNext.
GetNext(r) == Restart(r, "readerBucket")

RepairerRestart(w, label) ==
  /\ wpc' = [wpc EXCEPT ![w] = label]
  /\ wBucket' = [wBucket EXCEPT ![w] = 0]
  /\ wWatched' = [wWatched EXCEPT ![w] = FALSE]
  /\ wTodo' = [wTodo EXCEPT ![w] = {}]
  /\ wClaim' = [wClaim EXCEPT ![w] = Nil]

RepairerIdle(w) == RepairerRestart(w, "idle")

\* A freshly created queue (QueueRepositoryImpl.insertQueuePointerIfNotExists).
Init ==
  /\ monoton = 0
  /\ rows = [i \in Index |-> Nil]
  /\ tombstones = {} /\ finalizers = {}
  /\ readerPtr = 0 /\ invisPtr = -1 /\ repairPtr = 0
  /\ claims = {} /\ receipts = {}
  /\ rpc = [r \in Readers |-> "idle"]
  /\ rBucket = [r \in Readers |-> 0]
  /\ rPtr = [r \in Readers |-> -1]
  /\ rMsg = [r \in Readers |-> Nil]
  /\ rDest = [r \in Readers |-> 0]
  /\ rThen = [r \in Readers |-> "idle"]
  /\ wpc = [w \in Repairers |-> "idle"]
  /\ wBucket = [w \in Repairers |-> 0]
  /\ wWatched = [w \in Repairers |-> FALSE]
  /\ wTodo = [w \in Repairers |-> {}]
  /\ wClaim = [w \in Repairers |-> Nil]
  /\ published = {} /\ done = {} /\ dlq = {}

-----------------------------------------------------------------------------
(* Publishers: DefaultMessagePublisher.put.  Any number of them run at once; *)
(* each is an index it has claimed.                                          *)

\* Fault: incrementMonotonicValue returns the new value, not the one it replaced.
NextMonotonicAfter ==
  /\ monoton < MaxIndex
  /\ claims' = claims \union {monoton + 1}
  /\ monoton' = monoton + 1
  /\ UNCHANGED <<rows, tombstones, finalizers, readerPtr, invisPtr, repairPtr,
                 receipts, readers, repairers, history>>

NextMonotonic ==
  /\ monoton < MaxIndex
  /\ claims' = claims \union {monoton}
  /\ monoton' = monoton + 1
  /\ UNCHANGED <<rows, tombstones, finalizers, readerPtr, invisPtr, repairPtr,
                 receipts, readers, repairers, history>>

PutMessage(i) ==
  /\ i \in claims
  /\ claims' = claims \ {i}
  /\ IF rows[i] = Nil
       THEN /\ \E vis \in {TRUE, ~DelayedPuts} : rows' = [rows EXCEPT ![i] = NewRow(i, vis)]
            /\ published' = published \union {i}
       ELSE UNCHANGED <<rows, published>>     \* ExistingMonotonFoundException
  /\ UNCHANGED <<monoton, tombstones, finalizers, readerPtr, invisPtr, repairPtr,
                 receipts, readers, repairers, done, dlq>>

\* The publisher dies between the two calls: the index stays a hole.
AbandonClaim(i) ==
  /\ i \in claims
  /\ claims' = claims \ {i}
  /\ UNCHANGED <<tables, receipts, readers, repairers, history>>

-----------------------------------------------------------------------------
(* Consumers, and the clock *)

\* ReaderImpl.ackMessage, with any receipt any number of times.  Versions only
\* grow, so the read that precedes the conditional update decides nothing the
\* update does not decide again; a receipt that is out of date changes nothing.
AckMessage(c) ==
  /\ c \in receipts
  /\ AckApplies(c.index, c.version)
  /\ rows' = [rows EXCEPT ![c.index] = Acked(@)]
  /\ done' = done \union {rows[c.index].payload}
  /\ UNCHANGED <<monoton, tombstones, finalizers, readerPtr, invisPtr, repairPtr,
                 clients, readers, repairers, published, dlq>>

\* next_visible_on passes.
Expire(i) ==
  /\ Unacked(i) /\ ~rows[i].visible
  /\ rows' = [rows EXCEPT ![i].visible = TRUE]
  /\ UNCHANGED <<monoton, tombstones, finalizers, readerPtr, invisPtr, repairPtr,
                 clients, readers, repairers, history>>

-----------------------------------------------------------------------------
(* Readers: ReaderImpl.nextMessage and PointerBasedInvisStrategy *)

Goto(r, label) == rpc' = [rpc EXCEPT ![r] = label]

Take(r, i, source) ==
  /\ Goto(r, "consume")
  /\ rMsg' = [rMsg EXCEPT ![r] = [index |-> i, payload |-> rows[i].payload,
                                  version |-> rows[i].version, count |-> rows[i].count,
                                  source |-> source]]
  /\ rBucket' = [rBucket EXCEPT ![r] = IF source = "Reader" THEN @ ELSE 0]
  /\ rPtr' = [rPtr EXCEPT ![r] = -1]
  /\ UNCHANGED <<rDest, rThen>>

\* trySetNewInvisPointer(rPtr, dest), then continue at label "then".
MoveInvisTo(r, dest, then) ==
  /\ Goto(r, "moveBack")
  /\ rDest' = [rDest EXCEPT ![r] = dest]
  /\ rThen' = [rThen EXCEPT ![r] = then]
  /\ UNCHANGED <<rBucket, rPtr, rMsg>>

\* tryAdvancePointerToNextBucket, against the reader bucket of the constructor
TryAdvanceToNextBucket(r, b) ==
  IF b = rBucket[r]
    THEN GetNext(r)
    ELSE MoveInvisTo(r, StartOfNext(b), "atPointer")

Decide(r, label) == Goto(r, label) /\ UNCHANGED <<rBucket, rPtr, rMsg, rDest, rThen>>

ReaderReads == UNCHANGED <<tables, clients, repairers, history>>

NextMessage(r) ==
  /\ rpc[r] = "idle"
  /\ Goto(r, "invisPointer")
  /\ rBucket' = [rBucket EXCEPT ![r] = readerPtr]
  /\ UNCHANGED <<rPtr, rMsg, rDest, rThen>>
  /\ ReaderReads

GetCurrentInvisPointer(r) ==
  /\ rpc[r] = "invisPointer"
  /\ Goto(r, "atPointer")
  /\ rPtr' = [rPtr EXCEPT ![r] = invisPtr]
  /\ UNCHANGED <<rBucket, rMsg, rDest, rThen>>
  /\ ReaderReads

ProcessCurrentInvisPointer(r) ==
  LET i == rPtr[r]
      live == i \in Index /\ Unacked(i)
  IN /\ rpc[r] = "atPointer"
     /\ \/ ~live /\ Decide(r, "scan")
        \/ live /\ ~rows[i].visible /\ GetNext(r)
        \/ live /\ rows[i].visible /\ Take(r, i, "InvisStrategy")
     /\ ReaderReads

ProcessBucket(r) ==
  LET b == InvisBucket(rPtr[r])
      empty == Messages(b) = {}
      revived == b < rBucket[r] /\ Available(b) # {}
      stopInvisible == ~revived /\ Invisible(b) # {}
      stopNotDelivered == ~revived /\ ~stopInvisible /\ NeverDelivered(b) # {}
      nothingFound == ~empty /\ ~revived /\ ~stopInvisible /\ ~stopNotDelivered
  IN /\ rpc[r] = "scan"
     /\ \/ empty /\ b >= rBucket[r] /\ GetNext(r)
        \/ empty /\ b < rBucket[r] /\ Decide(r, "finalized")
        \/ revived /\ \E i \in First(Available(b)) : Take(r, i, "InvisStrategy")
        \/ stopInvisible /\ \E i \in First(Invisible(b)) : MoveInvisTo(r, i, "readerBucket")
        \/ stopNotDelivered /\ \E i \in First(NeverDelivered(b)) : MoveInvisTo(r, i, "readerBucket")
        \/ nothingFound /\ AllAcked(b) /\ Full(b) /\ TryAdvanceToNextBucket(r, b)
        \/ nothingFound /\ AllAcked(b) /\ ~Full(b) /\ Decide(r, "finalized")
        \/ nothingFound /\ ~AllAcked(b) /\ GetNext(r)
     /\ ReaderReads

\* Fault: an empty bucket behind the reader is taken for a finalized one.
FinalizedAssumed(r) ==
  /\ rpc[r] = "finalized"
  /\ TryAdvanceToNextBucket(r, InvisBucket(rPtr[r]))
  /\ ReaderReads

\* Fault: the finalizer is never looked for.
FinalizedIgnored(r) ==
  /\ rpc[r] = "finalized"
  /\ GetNext(r)
  /\ ReaderReads

\* The second read of processBucket: the bucket was empty, or all acked and not full.
FinalizedExists(r) ==
  LET b == InvisBucket(rPtr[r])
  IN /\ rpc[r] = "finalized"
     /\ IF b \in finalizers THEN TryAdvanceToNextBucket(r, b) ELSE GetNext(r)
     /\ ReaderReads

\* The pointer is now at p: scan on from there, or be done with it.
Moved(r, p) ==
  LET again == rThen[r] = "atPointer"
  IN /\ Goto(r, rThen[r])
     /\ rBucket' = [rBucket EXCEPT ![r] = IF again THEN @ ELSE 0]
     /\ rPtr' = [rPtr EXCEPT ![r] = IF again THEN p ELSE -1]
     /\ rDest' = [rDest EXCEPT ![r] = 0]
     /\ rThen' = [rThen EXCEPT ![r] = "idle"]
     /\ UNCHANGED rMsg

OnlyInvisPointer ==
  UNCHANGED <<monoton, rows, tombstones, finalizers, readerPtr, repairPtr,
              clients, repairers, history>>

\* tryMoveInvisiblityPointerTo: backwards whatever the caller had read ...
MoveInvisBack(r) ==
  /\ rpc[r] = "moveBack"
  /\ IF invisPtr > rDest[r]
       THEN invisPtr' = rDest[r] /\ Moved(r, rDest[r])
       ELSE UNCHANGED invisPtr /\ Decide(r, "moveOn")
  /\ OnlyInvisPointer

\* ... forwards only from the value the caller had read ...
MoveInvisOn(r) ==
  /\ rpc[r] = "moveOn"
  /\ IF invisPtr = rPtr[r]
       THEN invisPtr' = rDest[r] /\ Moved(r, rDest[r])
       ELSE UNCHANGED invisPtr /\ Decide(r, "rereadInvis")
  /\ OnlyInvisPointer

\* ... else whatever the other process left there.
RereadInvisPointer(r) ==
  /\ rpc[r] = "rereadInvis"
  /\ Moved(r, invisPtr)
  /\ ReaderReads

\* Fault: a dead message is acknowledged before, and without, its dead letter.
DeadLetterSkipped(r) ==
  /\ rpc[r] = "consume" /\ rMsg[r].count >= MaxDelivery
  /\ Decide(r, "ackDead")
  /\ ReaderReads

\* DefaultMessageConsumer.messageConsumable, delivered too often: dead letter it ...
DeadLetter(r) ==
  /\ rpc[r] = "consume" /\ rMsg[r].count >= MaxDelivery
  /\ dlq' = dlq \union {rMsg[r].payload}
  /\ Decide(r, "ackDead")
  /\ UNCHANGED <<tables, clients, repairers, published, done>>

\* tryConsume returned nothing: read the bucket again, or go on to getNext.
Missed(r) ==
  IF rMsg[r].source = "Reader"
    THEN /\ Goto(r, "readBucket")
         /\ rMsg' = [rMsg EXCEPT ![r] = Nil]
         /\ UNCHANGED <<rBucket, rPtr, rDest, rThen>>
    ELSE GetNext(r)

OnlyRows ==
  UNCHANGED <<monoton, tombstones, finalizers, readerPtr, invisPtr, repairPtr,
              clients, repairers, history>>

\* ... and acknowledge it whether or not that succeeded.
AckDead(r) ==
  LET i == rMsg[r].index
  IN /\ rpc[r] = "ackDead"
     /\ IF AckApplies(i, rMsg[r].version)
          THEN rows' = [rows EXCEPT ![i] = Acked(@)]
          ELSE UNCHANGED rows
     /\ Missed(r)
     /\ OnlyRows

\* rawConsumeMessage: version, delivery count and invisibility move together.
RawConsume(r) ==
  LET m == rMsg[r]
      i == m.index
  IN /\ rpc[r] = "consume" /\ m.count < MaxDelivery
     /\ IF Unacked(i) /\ rows[i].version = m.version
          THEN /\ rows' = [rows EXCEPT ![i] = [@ EXCEPT !.version = m.version + 1,
                                                        !.count = m.count + 1,
                                                        !.visible = FALSE]]
               /\ Decide(r, IF m.source = "Reader" THEN "respond" ELSE "track")
          ELSE UNCHANGED rows /\ Missed(r)
     /\ OnlyRows

\* trackConsumedMessage: point the invisibility pointer at what was just consumed.
TrackConsumed(r) ==
  /\ rpc[r] = "track"
  /\ rPtr' = [rPtr EXCEPT ![r] = invisPtr]
  /\ rDest' = [rDest EXCEPT ![r] = rMsg[r].index]
  /\ rThen' = [rThen EXCEPT ![r] = "respond"]
  /\ Goto(r, "moveBack")
  /\ UNCHANGED <<rBucket, rMsg>>
  /\ ReaderReads

\* The consumer gets the message and its pop receipt.
Respond(r) ==
  /\ rpc[r] = "respond"
  /\ receipts' = receipts \union {[index |-> rMsg[r].index, version |-> rMsg[r].version + 1]}
  /\ ReaderIdle(r)
  /\ UNCHANGED <<tables, claims, repairers, history>>

GetReaderCurrentBucket(r) ==
  /\ rpc[r] = "readerBucket"
  /\ rBucket' = [rBucket EXCEPT ![r] = readerPtr]
  /\ Goto(r, "readBucket")
  /\ UNCHANGED <<rPtr, rMsg, rDest, rThen>>
  /\ ReaderReads

\* getAndMark: read the bucket, pick a message or find all of it complete.
GetAndMark(r) ==
  LET b == rBucket[r]
      available == Available(b)
  IN /\ rpc[r] = "readBucket"
     /\ \/ \E i \in IF StrictFifo THEN First(available) ELSE available : Take(r, i, "Reader")
        \/ available = {} /\ Full(b) /\ Decide(r, "tombstone")
        \/ available = {} /\ ~Full(b) /\ Decide(r, "monoton")
     /\ ReaderReads

MonotonPastBucket(r) ==
  /\ rpc[r] = "monoton"
  /\ IF Bucket(monoton) > rBucket[r] THEN Decide(r, "tombstone") ELSE ReaderIdle(r)
  /\ ReaderReads

Tombstone(r) ==
  /\ rpc[r] = "tombstone"
  /\ tombstones' = tombstones \union {rBucket[r]}
  /\ Decide(r, "advance")
  /\ UNCHANGED <<monoton, rows, finalizers, readerPtr, invisPtr, repairPtr,
                 clients, repairers, history>>

AdvanceMessageBucketPointer(r) ==
  /\ rpc[r] = "advance"
  /\ IF readerPtr = rBucket[r]
       THEN /\ readerPtr' = rBucket[r] + 1
            /\ rBucket' = [rBucket EXCEPT ![r] = rBucket[r] + 1]
            /\ Goto(r, "readBucket")
       ELSE Goto(r, "readerBucket") /\ UNCHANGED <<readerPtr, rBucket>>
  /\ UNCHANGED <<monoton, rows, tombstones, finalizers, invisPtr, repairPtr,
                 rPtr, rMsg, rDest, rThen, clients, repairers, history>>

\* The request is dropped or its node dies, anywhere; others take its place.
CrashReader(r) ==
  /\ r \in Mortal /\ rpc[r] \notin {"idle", "down"}
  /\ Restart(r, "down")
  /\ ReaderReads

ReplaceReader(r) ==
  /\ rpc[r] = "down"
  /\ ReaderIdle(r)
  /\ ReaderReads

-----------------------------------------------------------------------------
(* Repair workers: RepairWorkerImpl.process.  A stop() is seen at two points *)
(* only, where it ends the pass as CrashRepairer does; a worker that was     *)
(* stopped elsewhere runs on beside its successor.                           *)

WGoto(w, label) == wpc' = [wpc EXCEPT ![w] = label]

WDecide(w, label) == WGoto(w, label) /\ UNCHANGED <<wBucket, wWatched, wTodo, wClaim>>

RepairerReads == UNCHANGED <<tables, clients, readers, history>>

Process(w) ==
  /\ wpc[w] = "idle"
  /\ wBucket' = [wBucket EXCEPT ![w] = repairPtr]
  /\ WGoto(w, "tombstone")
  /\ UNCHANGED <<wWatched, wTodo, wClaim>>
  /\ RepairerReads

\* Fault: the bucket of the repair pointer is taken to be tombstoned.
TombstoneAssumed(w) ==
  /\ wpc[w] = "tombstone"
  /\ WDecide(w, "inspect")
  /\ RepairerReads

TombstoneExists(w) ==
  /\ wpc[w] = "tombstone"
  /\ IF wBucket[w] \in tombstones THEN WDecide(w, "inspect") ELSE RepairerIdle(w)
  /\ RepairerReads

\* deleteMessagesInBucket's first step depends on the queue's configuration.
Disposal == IF DeleteBuckets THEN "delete" ELSE "finalize"

\* findFirstBucketToMonitor: a full and acknowledged bucket is closed at once.
InspectBucket(w) ==
  LET b == wBucket[w]
      closed == Full(b) /\ AllAcked(b)
  IN /\ wpc[w] = "inspect"
     /\ WGoto(w, IF closed THEN Disposal ELSE "wait")
     /\ wWatched' = [wWatched EXCEPT ![w] = ~closed]
     /\ UNCHANGED <<wBucket, wTodo, wClaim>>
     /\ RepairerReads

\* Indices claimed, by a publisher or by a repair worker that republishes, and not yet put.
Outstanding == claims \union {wClaim[v] : v \in {u \in Repairers : wpc[u] = "put"}}

\* Fault: no wait after the tombstone.
WaitSkipped(w) ==
  /\ wpc[w] = "wait"
  /\ WDecide(w, "collect")
  /\ RepairerReads

\* waitForTimeout.  The wait is long enough exactly when the timing constants hold.
WaitForTimeout(w) ==
  /\ wpc[w] = "wait"
  /\ PutsInTime => \A i \in Outstanding : Bucket(i) # wBucket[w]
  /\ ScansInTime => \A r \in Readers :
       rpc[r] = "finalized" => InvisBucket(rPtr[r]) # wBucket[w]
  /\ WDecide(w, "collect")
  /\ RepairerReads

\* What the next step is while messages to republish remain.
Republishing(todo) == IF todo = {} THEN "limit" ELSE "claim"

CollectUnclaimed(w) ==
  LET b == wBucket[w]
      todo == {[index |-> i, payload |-> rows[i].payload, version |-> rows[i].version] :
                 i \in Available(b) \intersect NeverDelivered(b)}
  IN /\ wpc[w] = "collect"
     /\ wTodo' = [wTodo EXCEPT ![w] = todo]
     /\ WGoto(w, Republishing(todo))
     /\ UNCHANGED <<wBucket, wWatched, wClaim>>
     /\ RepairerReads

\* republishMessage: claim an index ...
RepublishClaim(w) ==
  /\ wpc[w] = "claim"
  /\ monoton < MaxIndex
  /\ monoton' = monoton + 1
  /\ wClaim' = [wClaim EXCEPT ![w] = monoton]
  /\ WGoto(w, "put")
  /\ UNCHANGED <<rows, tombstones, finalizers, readerPtr, invisPtr, repairPtr,
                 wBucket, wWatched, wTodo, clients, readers, history>>

\* The messages are republished in the order of their indices.
NextTodo(w) == {m \in wTodo[w] : \A n \in wTodo[w] : m.index <= n.index}

\* ... put the copy there, visible at once ...
RepublishPut(w) ==
  /\ wpc[w] = "put"
  /\ \E m \in NextTodo(w) :
       IF rows[wClaim[w]] = Nil
         THEN /\ rows' = [rows EXCEPT ![wClaim[w]] = NewRow(m.payload, TRUE)]
              /\ WDecide(w, "ackOriginal")
         ELSE RepairerIdle(w) /\ UNCHANGED rows
  /\ UNCHANGED <<monoton, tombstones, finalizers, readerPtr, invisPtr, repairPtr,
                 clients, readers, history>>

\* ... and acknowledge the original, if it is still the one that was read.
RepublishAck(w) ==
  /\ wpc[w] = "ackOriginal"
  /\ \E m \in NextTodo(w) :
       /\ IF AckApplies(m.index, m.version)
            THEN rows' = [rows EXCEPT ![m.index] = Acked(@)]
            ELSE UNCHANGED rows
       /\ wTodo' = [wTodo EXCEPT ![w] = @ \ {m}]
       /\ WGoto(w, Republishing(wTodo[w] \ {m}))
  /\ wClaim' = [wClaim EXCEPT ![w] = Nil]
  /\ UNCHANGED <<monoton, tombstones, finalizers, readerPtr, invisPtr, repairPtr,
                 wBucket, wWatched, clients, readers, history>>

\* Where advance leads with the bucket it returns: a watched bucket is read
\* once more, a full one makes way for the next.
Advanced(w, b) ==
  IF wWatched[w]
    THEN WDecide(w, "recheck")
    ELSE /\ WGoto(w, "tombstone")
         /\ wBucket' = [wBucket EXCEPT ![w] = b]
         /\ UNCHANGED <<wWatched, wTodo, wClaim>>

\* advance: never past the bucket of the monoton
LimitToMonoton(w) ==
  /\ wpc[w] = "limit"
  /\ IF wBucket[w] + 1 > Bucket(monoton)
       THEN Advanced(w, Bucket(monoton))
       ELSE WDecide(w, "advance")
  /\ RepairerReads

AdvanceRepairBucketPointer(w) ==
  /\ wpc[w] = "advance"
  /\ IF repairPtr = wBucket[w]
       THEN repairPtr' = wBucket[w] + 1 /\ Advanced(w, wBucket[w] + 1)
       ELSE WDecide(w, "rereadRepair") /\ UNCHANGED repairPtr
  /\ UNCHANGED <<monoton, rows, tombstones, finalizers, readerPtr, invisPtr,
                 clients, readers, history>>

RereadRepairPointer(w) ==
  /\ wpc[w] = "rereadRepair"
  /\ Advanced(w, repairPtr)
  /\ RepairerReads

\* Fault: the bucket is not read again after its messages were republished.
RecheckSkipped(w) ==
  /\ wpc[w] = "recheck"
  /\ WDecide(w, Disposal)
  /\ RepairerReads

\* watchBucket: all is acknowledged now, or messages are left dangling.
RecheckBucket(w) ==
  /\ wpc[w] = "recheck"
  /\ WDecide(w, IF AllAcked(wBucket[w]) THEN Disposal ELSE "markFinalized")
  /\ RepairerReads

\* deleteAllMessages drops the whole partition, special rows included.
DeleteAllMessages(w) ==
  LET b == wBucket[w]
  IN /\ wpc[w] = "delete"
     /\ rows' = [i \in Index |-> IF Bucket(i) = b THEN Nil ELSE rows[i]]
     /\ tombstones' = tombstones \ {b}
     /\ finalizers' = finalizers \ {b}
     /\ WDecide(w, "finalize")
     /\ UNCHANGED <<monoton, readerPtr, invisPtr, repairPtr, clients, readers, history>>

\* deleteMessagesInBucket's last step
Finalize(w) ==
  /\ wpc[w] = "finalize"
  /\ finalizers' = finalizers \union {wBucket[w]}
  /\ WDecide(w, IF wWatched[w] THEN "markFinalized" ELSE "limit")
  /\ UNCHANGED <<monoton, rows, tombstones, readerPtr, invisPtr, repairPtr,
                 clients, readers, history>>

\* watchBucket's last step
MarkAsFinalized(w) ==
  /\ wpc[w] = "markFinalized"
  /\ finalizers' = finalizers \union {wBucket[w]}
  /\ RepairerIdle(w)
  /\ UNCHANGED <<monoton, rows, tombstones, readerPtr, invisPtr, repairPtr,
                 clients, readers, history>>

CrashRepairer(w) ==
  /\ w \in Mortal /\ wpc[w] \notin {"idle", "down"}
  /\ RepairerRestart(w, "down")
  /\ RepairerReads

ReplaceRepairer(w) ==
  /\ wpc[w] = "down"
  /\ RepairerIdle(w)
  /\ RepairerReads

-----------------------------------------------------------------------------

ClientStep ==
  \/ NextMonotonic
  \/ \E i \in Index : PutMessage(i) \/ AbandonClaim(i) \/ Expire(i)
  \/ \E c \in receipts : AckMessage(c)

ReaderStep(r) ==
  \/ NextMessage(r) \/ GetCurrentInvisPointer(r) \/ ProcessCurrentInvisPointer(r)
  \/ ProcessBucket(r) \/ FinalizedExists(r)
  \/ MoveInvisBack(r) \/ MoveInvisOn(r) \/ RereadInvisPointer(r)
  \/ DeadLetter(r) \/ AckDead(r) \/ RawConsume(r) \/ TrackConsumed(r) \/ Respond(r)
  \/ GetReaderCurrentBucket(r) \/ GetAndMark(r) \/ MonotonPastBucket(r)
  \/ Tombstone(r) \/ AdvanceMessageBucketPointer(r)

RepairStep(w) ==
  \/ Process(w) \/ TombstoneExists(w) \/ InspectBucket(w) \/ WaitForTimeout(w)
  \/ CollectUnclaimed(w) \/ RepublishClaim(w) \/ RepublishPut(w) \/ RepublishAck(w)
  \/ LimitToMonoton(w) \/ AdvanceRepairBucketPointer(w) \/ RereadRepairPointer(w)
  \/ RecheckBucket(w) \/ DeleteAllMessages(w) \/ Finalize(w) \/ MarkAsFinalized(w)

Next ==
  \/ ClientStep
  \/ \E r \in Readers : ReaderStep(r) \/ CrashReader(r) \/ ReplaceReader(r)
  \/ \E w \in Repairers : RepairStep(w) \/ CrashRepairer(w) \/ ReplaceRepairer(w)

Spec == Init /\ [][Next]_vars

(* Readers are polled and repair workers are scheduled with a fixed delay for *)
(* ever; a publisher that has an index puts or dies; time passes.  Consumers  *)
(* owe nothing: a message nobody acknowledges is delivered again.  A repair   *)
(* worker's wait ends though readers keep scanning its bucket (SF).           *)
Fairness ==
  /\ \A r \in Readers : WF_vars(ReaderStep(r))
  /\ \A w \in Repairers : WF_vars(RepairStep(w)) /\ SF_vars(WaitForTimeout(w))
  /\ \A i \in Index : WF_vars(PutMessage(i) \/ AbandonClaim(i)) /\ WF_vars(Expire(i))

FairSpec == Spec /\ Fairness

-----------------------------------------------------------------------------
(* Properties *)

ReaderLabels ==
  {"idle", "invisPointer", "atPointer", "scan", "finalized", "moveBack", "moveOn",
   "rereadInvis", "consume", "ackDead", "track", "respond", "readerBucket",
   "readBucket", "monoton", "tombstone", "advance", "down"}

RepairerLabels ==
  {"idle", "tombstone", "inspect", "wait", "collect", "claim", "put", "ackOriginal",
   "limit", "advance", "rereadRepair", "recheck", "delete", "finalize",
   "markFinalized", "down"}

TablesOK ==
  /\ monoton \in 0 .. MaxIndex
  /\ rows \in [Index -> Row \union {Nil}]
  /\ tombstones \subseteq Nat /\ finalizers \subseteq Nat
  /\ readerPtr \in Nat /\ repairPtr \in Nat /\ invisPtr \in Nat \union {-1}

ClientsOK == claims \subseteq Index /\ receipts \subseteq Receipt

ReadersOK ==
  /\ rpc \in [Readers -> ReaderLabels]
  /\ rBucket \in [Readers -> Nat]
  /\ rPtr \in [Readers -> Nat \union {-1}]
  /\ rMsg \in [Readers -> Snapshot \union {Nil}]
  /\ rDest \in [Readers -> Nat]
  /\ rThen \in [Readers -> {"idle", "atPointer", "readerBucket", "respond"}]

RepairersOK ==
  /\ wpc \in [Repairers -> RepairerLabels]
  /\ wBucket \in [Repairers -> Nat]
  /\ wWatched \in [Repairers -> BOOLEAN]
  /\ wTodo \in [Repairers -> SUBSET Unclaimed]
  /\ wClaim \in [Repairers -> Index \union {Nil}]

HistoryOK == published \subseteq Index /\ done \subseteq Index /\ dlq \subseteq Index

\* Every table column and every local of a worker keeps the range the code
\* gives it; bucket and message pointers never go below their initial values.
TypeOK == TablesOK /\ ClientsOK /\ ReadersOK /\ RepairersOK /\ HistoryOK

\* No index of the bucket can be handed out any more.
Closed(b) == StartOfNext(b) <= monoton

\* A bucket is tombstoned, finalized, or left behind by the reader or the repair
\* pointer only when all of its indices have been handed out: a publisher that
\* claims an index afterwards never lands in it (ReaderImpl.getAndMark decides
\* on a count it read before, and on a monoton it read after, the messages).
ClosedBucketsStayClosed ==
  /\ \A b \in tombstones \union finalizers : Closed(b)
  /\ readerPtr * BucketSize <= monoton
  /\ repairPtr * BucketSize <= monoton

\* The repair pointer runs at most one bucket ahead of the reader, however many
\* workers and readers race on the two pointers and the special rows.
RepairFollowsReader ==
  /\ repairPtr <= readerPtr + 1
  /\ \A b \in tombstones : b <= readerPtr

\* At least once: a payload whose put succeeded was acknowledged by a consumer,
\* went to the dead letter queue, or still has a row nobody acknowledged, through
\* republishing, bucket deletion and the crash of any worker between two steps.
NothingLost ==
  \A p \in published \ (done \union dlq) :
    \E i \in Index : Unacked(i) /\ rows[i].payload = p

\* The same as a contract on steps: what publishers and consumers see of the
\* buckets, the pointers and the workers is the at-least-once queue.
Contract == INSTANCE AtLeastOnce
  WITH Payloads <- Index, stored <- {rows[i].payload : i \in {j \in Index : Unacked(j)}}

ImplementsAtLeastOnce == Contract!Spec

\* A row nobody acknowledged is where a reader still looks: in or beyond the
\* reader's bucket, or in or beyond the bucket of the invisibility pointer.
UnackedWithinReach ==
  \A i \in Index : Unacked(i) =>
    Bucket(i) >= readerPtr \/ Bucket(i) >= InvisBucket(invisPtr)

\* A bucket is deleted only when every row in it is acknowledged, although the
\* deletion is a later statement than the read that found it so.
OnlyAckedDeleted ==
  [][\A i \in Index : Unacked(i) => rows'[i] # Nil]_vars

NobodyDown ==
  (\A r \in Readers : rpc[r] # "down") /\ (\A w \in Repairers : wpc[w] # "down")

\* A worker waits for an index the bound MaxIndex does not let it have.
AtBound == monoton = MaxIndex /\ \E w \in Repairers : wpc[w] = "claim"

\* Once workers stop dying, every message that was put is acknowledged by a
\* consumer or dead lettered: invisible, revived, skipped and republished ones
\* are all found again (PointerBasedInvisStrategy and RepairWorkerImpl together).
EventuallySettled ==
  (<>[]NobodyDown) =>
    \A p \in Index : (p \in published) ~> (p \in done \union dlq \/ AtBound)
=============================================================================
