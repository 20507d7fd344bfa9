------------------------- MODULE BucketQueueProofs -------------------------
(***************************************************************************)
(* Theorems about BucketQueue, for any number of readers, repair workers   *)
(* and publishers, any bucket size, any delivery limit, with or without    *)
(* crashes, and under no timing assumption at all.                         *)
(***************************************************************************)
EXTENDS BucketQueue, TLAPS

-----------------------------------------------------------------------------
(* Indices and buckets *)

\* Integer division puts an index inside the bounds of its bucket
\* (MonotonicIndex.toBucketPointer).
LEMMA BucketBounds ==
  ASSUME NEW m \in Nat
  PROVE  /\ Bucket(m) \in Nat
         /\ Bucket(m) * BucketSize <= m
         /\ m < (Bucket(m) + 1) * BucketSize
BY BucketSizeAssumption DEF Bucket

\* Multiplying by a natural number keeps the order.
LEMMA ProductMonotone ==
  ASSUME NEW a \in Nat, NEW b \in Nat, NEW n \in Nat, a <= b
  PROVE  a * n <= b * n
OBVIOUS

\* When the monoton is past a bucket every index of the bucket is handed out
\* (ReaderImpl.monotonPastBucket).
LEMMA PastBucketIsClosed ==
  ASSUME NEW m \in Nat, NEW b \in Nat, Bucket(m) > b
  PROVE  StartOfNext(b) <= m
<1>1. Bucket(m) \in Nat /\ Bucket(m) * BucketSize <= m
  BY BucketBounds
<1>2. (b + 1) * BucketSize <= Bucket(m) * BucketSize
  BY <1>1, ProductMonotone, BucketSizeAssumption
<1> QED
  BY <1>1, <1>2, BucketSizeAssumption DEF StartOfNext

\* Rows, and indices about to become rows, are below the monoton.
RowsAreHandedOut ==
  \A i \in Index : rows[i] # Nil => i < monoton

\* A bucket whose every index has a row is closed (ReaderImpl.getAndMark's
\* other reason to tombstone it).
LEMMA FullBucketIsClosed ==
  ASSUME NEW b \in Nat, Full(b), RowsAreHandedOut, monoton \in Nat
  PROVE  Closed(b)
<1> DEFINE k == StartOfNext(b) - 1
<1>1. k \in (b * BucketSize) .. (StartOfNext(b) - 1)
  BY BucketSizeAssumption DEF StartOfNext
<1>2. k \in Index /\ rows[k] # Nil
  BY <1>1 DEF Full
<1>3. k < monoton
  BY <1>2 DEF RowsAreHandedOut
<1> QED
  BY <1>3, BucketSizeAssumption DEF Closed, StartOfNext

-----------------------------------------------------------------------------
(* Type correctness *)

\* The labels at which a reader holds a message.
Holding == {"consume", "ackDead", "track", "respond"}

\* The labels of tryMoveInvisiblityPointerTo.
Moving == {"moveBack", "moveOn", "rereadInvis"}

\* The locals of the readers are well typed, and a reader at a label that uses
\* its message has one.
ReadersTyped ==
  /\ ReadersOK
  /\ \A r \in Readers :
       rpc[r] \in Holding \/ (rpc[r] \in Moving /\ rThen[r] = "respond")
         => rMsg[r] \in Snapshot

\* The same for the repair workers and the index they republish at.
RepairersTyped ==
  /\ RepairersOK
  /\ \A w \in Repairers : wpc[w] = "put" => wClaim[w] \in Index

TypeInv == TablesOK /\ ClientsOK /\ ReadersTyped /\ RepairersTyped /\ HistoryOK

\* The empty queue is well typed.
LEMMA InitTyped == Init => TypeInv
BY MaxIndexAssumption
DEF Init, TypeInv, TablesOK, ClientsOK, ReadersOK, RepairersOK, HistoryOK,
    ReadersTyped, RepairersTyped, Holding, Moving, ReaderLabels, RepairerLabels

\* Each part of the type invariant depends on its own variables only.
LEMMA UnchangedTyped ==
  /\ TablesOK /\ UNCHANGED tables => TablesOK'
  /\ ClientsOK /\ UNCHANGED clients => ClientsOK'
  /\ ReadersTyped /\ UNCHANGED readers => ReadersTyped'
  /\ RepairersTyped /\ UNCHANGED repairers => RepairersTyped'
  /\ HistoryOK /\ UNCHANGED history => HistoryOK'
<1>1. TablesOK /\ UNCHANGED tables => TablesOK'
  BY DEF TablesOK, tables
<1>2. ClientsOK /\ UNCHANGED clients => ClientsOK'
  BY DEF ClientsOK, clients
<1>3. ReadersTyped /\ UNCHANGED readers => ReadersTyped'
  BY DEF ReadersTyped, ReadersOK, readers
<1>4. RepairersTyped /\ UNCHANGED repairers => RepairersTyped'
  BY DEF RepairersTyped, RepairersOK, repairers
<1>5. HistoryOK /\ UNCHANGED history => HistoryOK'
  BY DEF HistoryOK, history
<1> QED
  BY <1>1, <1>2, <1>3, <1>4, <1>5

\* A put row, an acknowledged row and a consumed row are rows.
LEMMA RowsTyped ==
  /\ \A p \in Index, vis \in BOOLEAN : NewRow(p, vis) \in Row
  /\ \A row \in Row : Acked(row) \in Row
  /\ \A row \in Row : [row EXCEPT !.visible = TRUE] \in Row
  /\ \A row \in Row, v \in Nat, c \in Nat :
       [row EXCEPT !.version = v, !.count = c, !.visible = FALSE] \in Row
<1>1. \A p \in Index, vis \in BOOLEAN : NewRow(p, vis) \in Row
  BY DEF NewRow, Row
<1>2. \A row \in Row : Acked(row) \in Row
  <2>1. ASSUME NEW row \in Row PROVE Acked(row) \in Row
    <3>1. row.version + 1 \in Nat
      BY DEF Row
    <3> QED
      BY <3>1 DEF Acked, Row
  <2> QED
    BY <2>1
<1>3. \A row \in Row : [row EXCEPT !.visible = TRUE] \in Row
  BY DEF Row
<1>4. \A row \in Row, v \in Nat, c \in Nat :
        [row EXCEPT !.version = v, !.count = c, !.visible = FALSE] \in Row
  BY DEF Row
<1> QED
  BY <1>1, <1>2, <1>3, <1>4

\* A publisher, a consumer or the clock keeps the types.
LEMMA ClientStepTyped == TypeInv /\ ClientStep => TypeInv'
<1> SUFFICES ASSUME TypeInv, ClientStep PROVE TypeInv'
  OBVIOUS
<1> USE DEF TypeInv
<1>0. TablesOK /\ ClientsOK /\ HistoryOK
  OBVIOUS
<1>1. CASE NextMonotonic
  <2>1. TablesOK' /\ ClientsOK'
    BY <1>0, <1>1, MaxIndexAssumption DEF NextMonotonic, TablesOK, ClientsOK, Index
  <2> QED
    BY <2>1, <1>1, UnchangedTyped DEF NextMonotonic
<1>2. ASSUME NEW i \in Index, PutMessage(i) PROVE TypeInv'
  <2>1. TablesOK'
    BY <1>0, <1>2, RowsTyped DEF PutMessage, TablesOK
  <2>2. ClientsOK' /\ HistoryOK'
    BY <1>0, <1>2 DEF PutMessage, ClientsOK, HistoryOK
  <2> QED
    BY <2>1, <2>2, <1>2, UnchangedTyped DEF PutMessage
<1>3. ASSUME NEW i \in Index, AbandonClaim(i) PROVE TypeInv'
  <2>1. ClientsOK'
    BY <1>0, <1>3 DEF AbandonClaim, ClientsOK
  <2> QED
    BY <2>1, <1>3, UnchangedTyped DEF AbandonClaim
<1>4. ASSUME NEW i \in Index, Expire(i) PROVE TypeInv'
  <2>1. rows[i] \in Row
    BY <1>0, <1>4 DEF Expire, Unacked, TablesOK
  <2>2. TablesOK'
    BY <1>0, <1>4, <2>1, RowsTyped DEF Expire, TablesOK
  <2> QED
    BY <2>2, <1>4, UnchangedTyped DEF Expire
<1>5. ASSUME NEW c \in receipts, AckMessage(c) PROVE TypeInv'
  <2>1. c.index \in Index /\ rows[c.index] \in Row
    BY <1>0, <1>5 DEF AckMessage, AckApplies, TablesOK, ClientsOK, Receipt
  <2>2. TablesOK'
    BY <1>0, <1>5, <2>1, RowsTyped DEF AckMessage, TablesOK
  <2>3. HistoryOK'
    BY <1>0, <1>5, <2>1 DEF AckMessage, HistoryOK, Row
  <2> QED
    BY <2>2, <2>3, <1>5, UnchangedTyped DEF AckMessage
<1> QED
  BY <1>1, <1>2, <1>3, <1>4, <1>5 DEF ClientStep

\* Starting over at a label that needs no message.
LEMMA RestartTyped ==
  ASSUME ReadersTyped, NEW r \in Readers, NEW L \in ReaderLabels \ Holding, Restart(r, L)
  PROVE  ReadersTyped'
BY DEF ReadersTyped, ReadersOK, Restart

\* Going on to another label with the same locals.
LEMMA DecideTyped ==
  ASSUME ReadersTyped, NEW r \in Readers, NEW L \in ReaderLabels, Decide(r, L),
         L \in Holding \/ (L \in Moving /\ rThen[r] = "respond") => rMsg[r] \in Snapshot
  PROVE  ReadersTyped'
BY DEF ReadersTyped, ReadersOK, Decide, Goto

\* Setting out to move the invisibility pointer.
LEMMA MoveInvisTyped ==
  ASSUME ReadersTyped, NEW r \in Readers, NEW dest \in Nat,
         NEW then \in {"atPointer", "readerBucket"}, MoveInvisTo(r, dest, then)
  PROVE  ReadersTyped'
BY DEF ReadersTyped, ReadersOK, MoveInvisTo, Goto, ReaderLabels, Holding

\* Arriving where the invisibility pointer was moved to.
LEMMA MovedTyped ==
  ASSUME ReadersTyped, NEW r \in Readers, NEW p \in Nat \union {-1}, Moved(r, p),
         rpc[r] \in Moving
  PROVE  ReadersTyped'
<1>1. rThen[r] \in {"idle", "atPointer", "readerBucket", "respond"}
  BY DEF ReadersTyped, ReadersOK
<1>2. rThen[r] = "respond" => rMsg[r] \in Snapshot
  BY DEF ReadersTyped
<1>3. ReadersOK'
  BY <1>1 DEF ReadersTyped, ReadersOK, Moved, Goto, ReaderLabels
<1>4. ASSUME NEW q \in Readers,
             rpc'[q] \in Holding \/ (rpc'[q] \in Moving /\ rThen'[q] = "respond")
      PROVE  rMsg'[q] \in Snapshot
  <2>1. CASE q = r
    BY <1>1, <1>2, <1>4, <2>1
    DEF ReadersTyped, ReadersOK, Moved, Goto, Holding, Moving
  <2>2. CASE q # r
    BY <1>4, <2>2 DEF ReadersTyped, ReadersOK, Moved, Goto
  <2> QED
    BY <2>1, <2>2
<1> QED
  BY <1>3, <1>4 DEF ReadersTyped

\* Taking a message that was read.
LEMMA TakeTyped ==
  ASSUME ReadersTyped, NEW r \in Readers, NEW i \in Index, rows[i] \in Row,
         NEW source \in {"Reader", "InvisStrategy"}, Take(r, i, source)
  PROVE  ReadersTyped'
<1>1. rMsg'[r] \in Snapshot
  BY DEF ReadersTyped, ReadersOK, Take, Row, Snapshot
<1> QED
  BY <1>1 DEF ReadersTyped, ReadersOK, Take, Goto, ReaderLabels

\* Advancing the invisibility pointer to the next bucket, or giving up.
LEMMA TryAdvanceTyped ==
  ASSUME ReadersTyped, NEW r \in Readers, NEW b \in Nat, TryAdvanceToNextBucket(r, b)
  PROVE  ReadersTyped'
<1>1. StartOfNext(b) \in Nat
  BY BucketSizeAssumption DEF StartOfNext
<1> QED
  BY <1>1, RestartTyped, MoveInvisTyped
  DEF TryAdvanceToNextBucket, GetNext, ReaderLabels, Holding

\* The messages of a bucket are rows at indices.
LEMMA MessagesTyped ==
  ASSUME TablesOK, NEW b
  PROVE  \A i \in Messages(b) : i \in Index /\ rows[i] \in Row
BY DEF TablesOK, Messages, IndicesOf

\* The reads of the invisibility strategy keep the types.
LEMMA ScanStepTyped ==
  ASSUME TablesOK, ReadersTyped, NEW r \in Readers,
         \/ NextMessage(r) \/ GetCurrentInvisPointer(r) \/ ProcessCurrentInvisPointer(r)
         \/ ProcessBucket(r) \/ FinalizedExists(r) \/ RereadInvisPointer(r)
  PROVE  ReadersTyped'
<1> USE DEF ReaderLabels, Holding, Moving
<1>1. CASE NextMessage(r)
  BY <1>1 DEF NextMessage, Goto, TablesOK, ReadersTyped, ReadersOK
<1>2. CASE GetCurrentInvisPointer(r)
  BY <1>2 DEF GetCurrentInvisPointer, Goto, TablesOK, ReadersTyped, ReadersOK
<1>3. CASE ProcessCurrentInvisPointer(r)
  <2>1. CASE Decide(r, "scan")
    BY <2>1, DecideTyped
  <2>2. CASE GetNext(r)
    BY <2>2, RestartTyped DEF GetNext
  <2>3. CASE rPtr[r] \in Index /\ Unacked(rPtr[r]) /\ Take(r, rPtr[r], "InvisStrategy")
    <3>1. rows[rPtr[r]] \in Row
      BY <2>3 DEF TablesOK, Unacked
    <3> QED
      BY <2>3, <3>1, TakeTyped
  <2> QED
    BY <1>3, <2>1, <2>2, <2>3 DEF ProcessCurrentInvisPointer
<1>4. InvisBucket(rPtr[r]) \in Nat
  <2>1. rPtr[r] \in Nat \union {-1}
    BY DEF ReadersTyped, ReadersOK
  <2>2. rPtr[r] <= 0 \/ rPtr[r] \in Nat
    BY <2>1
  <2> QED
    BY <2>2, BucketBounds DEF InvisBucket
<1>5. CASE ProcessBucket(r)
  <2> DEFINE b == InvisBucket(rPtr[r])
  <2>1. CASE GetNext(r)
    BY <2>1, RestartTyped DEF GetNext
  <2>2. CASE Decide(r, "finalized")
    BY <2>2, DecideTyped
  <2>3. CASE \E i \in First(Available(b)) : Take(r, i, "InvisStrategy")
    <3>1. PICK i \in Messages(b) : Take(r, i, "InvisStrategy")
      BY <2>3 DEF First, Available
    <3> QED
      BY <3>1, MessagesTyped, TakeTyped
  <2>4. CASE \/ \E i \in First(Invisible(b)) : MoveInvisTo(r, i, "readerBucket")
             \/ \E i \in First(NeverDelivered(b)) : MoveInvisTo(r, i, "readerBucket")
    <3>1. PICK i \in Index : MoveInvisTo(r, i, "readerBucket")
      BY <2>4, MessagesTyped DEF First, Invisible, NeverDelivered
    <3>2. i \in Nat
      BY MaxIndexAssumption DEF Index
    <3> QED
      BY <3>1, <3>2, MoveInvisTyped
  <2>5. CASE TryAdvanceToNextBucket(r, b)
    BY <2>5, <1>4, TryAdvanceTyped
  <2> QED
    BY <1>5, <2>1, <2>2, <2>3, <2>4, <2>5 DEF ProcessBucket
<1>6. CASE FinalizedExists(r)
  BY <1>6, <1>4, TryAdvanceTyped, RestartTyped DEF FinalizedExists, GetNext
<1>7. CASE RereadInvisPointer(r)
  BY <1>7, MovedTyped DEF RereadInvisPointer, TablesOK
<1> QED
  BY <1>1, <1>2, <1>3, <1>5, <1>6, <1>7

\* Moving the invisibility pointer keeps the types.
LEMMA MoveStepTyped ==
  ASSUME TablesOK, ReadersTyped, NEW r \in Readers, MoveInvisBack(r) \/ MoveInvisOn(r)
  PROVE  TablesOK' /\ ReadersTyped'
<1>1. rDest[r] \in Nat
  BY DEF ReadersTyped, ReadersOK
<1>2. TablesOK'
  BY <1>1 DEF MoveInvisBack, MoveInvisOn, OnlyInvisPointer, TablesOK
<1>3. ReadersTyped'
  BY <1>1, MovedTyped, DecideTyped
  DEF MoveInvisBack, MoveInvisOn, ReadersTyped, ReaderLabels, Holding, Moving
<1> QED
  BY <1>2, <1>3

\* Consuming a message, or giving up on it, keeps the types.
LEMMA ConsumeStepTyped ==
  ASSUME TypeInv, NEW r \in Readers,
         DeadLetter(r) \/ AckDead(r) \/ RawConsume(r) \/ TrackConsumed(r) \/ Respond(r)
  PROVE  TypeInv'
<1> USE DEF TypeInv
<1>0. TablesOK /\ ClientsOK /\ ReadersTyped /\ HistoryOK
  OBVIOUS
<1>1. rMsg[r] \in Snapshot /\ rMsg[r].index \in Index /\ rMsg[r].payload \in Index
      /\ rMsg[r].version \in Nat /\ rMsg[r].count \in Nat
  BY <1>0 DEF ReadersTyped, DeadLetter, AckDead, RawConsume, TrackConsumed, Respond,
              Holding, Snapshot
<1>2. ASSUME Missed(r) PROVE ReadersTyped'
  <2>1. CASE GetNext(r)
    BY <2>1, RestartTyped DEF GetNext, ReaderLabels, Holding
  <2>2. CASE ~GetNext(r)
    BY <1>0, <1>2, <2>2 DEF Missed, Moving, Goto, ReadersTyped, ReadersOK, ReaderLabels, Holding
  <2> QED
    BY <2>1, <2>2
<1>3. CASE DeadLetter(r)
  <2>1. HistoryOK' /\ ReadersTyped'
    BY <1>0, <1>1, <1>3, DecideTyped DEF DeadLetter, HistoryOK, ReaderLabels, Moving
  <2> QED
    BY <2>1, <1>3, UnchangedTyped DEF DeadLetter
<1>4. CASE AckDead(r)
  <2>1. TablesOK'
    BY <1>0, <1>1, <1>4, RowsTyped DEF AckDead, AckApplies, OnlyRows, TablesOK
  <2> QED
    BY <2>1, <1>2, <1>4, UnchangedTyped DEF AckDead, OnlyRows
<1>5. CASE RawConsume(r)
  <2> DEFINE i == rMsg[r].index
  <2>1. TablesOK'
    <3>1. CASE Unacked(i) /\ rows[i].version = rMsg[r].version
      <4>1. rows[i] \in Row /\ rMsg[r].version + 1 \in Nat /\ rMsg[r].count + 1 \in Nat
        BY <1>0, <1>1, <3>1 DEF Unacked, TablesOK
      <4>2. [rows[i] EXCEPT !.version = rMsg[r].version + 1, !.count = rMsg[r].count + 1,
                            !.visible = FALSE] \in Row
        BY <4>1, RowsTyped
      <4> QED
        BY <1>0, <1>1, <1>5, <3>1, <4>2 DEF RawConsume, OnlyRows, TablesOK
    <3>2. CASE ~(Unacked(i) /\ rows[i].version = rMsg[r].version)
      BY <1>0, <1>5, <3>2 DEF RawConsume, OnlyRows, TablesOK
    <3> QED
      BY <3>1, <3>2
  <2>2. ReadersTyped'
    BY <1>0, <1>1, <1>2, <1>5, DecideTyped DEF RawConsume, ReaderLabels, Moving
  <2> QED
    BY <2>1, <2>2, <1>5, UnchangedTyped DEF RawConsume, OnlyRows
<1>6. CASE TrackConsumed(r)
  <2>1. rMsg[r].index \in Nat
    BY <1>1, MaxIndexAssumption DEF Index
  <2>2. ReadersTyped'
    BY <1>0, <1>1, <2>1, <1>6
    DEF TrackConsumed, Goto, TablesOK, ReadersTyped, ReadersOK, ReaderLabels
  <2> QED
    BY <2>2, <1>6, UnchangedTyped DEF TrackConsumed, ReaderReads
<1>7. CASE Respond(r)
  <2>1. ClientsOK'
    BY <1>0, <1>1, <1>7 DEF Respond, ClientsOK, Receipt
  <2>2. ReadersTyped'
    BY <1>7, RestartTyped DEF Respond, ReaderIdle, ReaderLabels, Holding
  <2> QED
    BY <2>1, <2>2, <1>7, UnchangedTyped DEF Respond
<1> QED
  BY <1>3, <1>4, <1>5, <1>6, <1>7

\* The reader's own bucket: reading, tombstoning and leaving it keep the types.
LEMMA BucketStepTyped ==
  ASSUME TypeInv, NEW r \in Readers,
         \/ GetReaderCurrentBucket(r) \/ GetAndMark(r) \/ MonotonPastBucket(r)
         \/ Tombstone(r) \/ AdvanceMessageBucketPointer(r)
         \/ CrashReader(r) \/ ReplaceReader(r)
  PROVE  TypeInv'
<1> USE DEF TypeInv, ReaderLabels, Holding, Moving
<1>0. TablesOK /\ ReadersTyped /\ rBucket[r] \in Nat
  BY DEF ReadersTyped, ReadersOK
<1>1. CASE GetReaderCurrentBucket(r)
  <2>1. ReadersTyped'
    BY <1>0, <1>1 DEF GetReaderCurrentBucket, Goto, TablesOK, ReadersTyped, ReadersOK
  <2> QED
    BY <2>1, <1>1, UnchangedTyped DEF GetReaderCurrentBucket, ReaderReads
<1>2. CASE GetAndMark(r)
  <2>1. ASSUME NEW i \in Available(rBucket[r]), Take(r, i, "Reader") PROVE ReadersTyped'
    BY <1>0, <2>1, MessagesTyped, TakeTyped DEF Available
  <2>2. ReadersTyped'
    BY <1>0, <1>2, <2>1, DecideTyped DEF GetAndMark, First
  <2> QED
    BY <2>2, <1>2, UnchangedTyped DEF GetAndMark, ReaderReads
<1>3. CASE MonotonPastBucket(r)
  <2>1. ReadersTyped'
    BY <1>0, <1>3, DecideTyped, RestartTyped DEF MonotonPastBucket, ReaderIdle
  <2> QED
    BY <2>1, <1>3, UnchangedTyped DEF MonotonPastBucket, ReaderReads
<1>4. CASE Tombstone(r)
  <2>1. TablesOK'
    BY <1>0, <1>4 DEF Tombstone, TablesOK
  <2>2. ReadersTyped'
    BY <1>0, <1>4, DecideTyped DEF Tombstone
  <2> QED
    BY <2>1, <2>2, <1>4, UnchangedTyped DEF Tombstone
<1>5. CASE AdvanceMessageBucketPointer(r)
  <2>1. TablesOK'
    BY <1>0, <1>5 DEF AdvanceMessageBucketPointer, TablesOK
  <2>2. ReadersTyped'
    BY <1>0, <1>5 DEF AdvanceMessageBucketPointer, Goto, ReadersTyped, ReadersOK
  <2> QED
    BY <2>1, <2>2, <1>5, UnchangedTyped DEF AdvanceMessageBucketPointer
<1>6. CASE CrashReader(r) \/ ReplaceReader(r)
  <2>1. ReadersTyped'
    BY <1>0, <1>6, RestartTyped DEF CrashReader, ReplaceReader, ReaderIdle
  <2> QED
    BY <2>1, <1>6, UnchangedTyped DEF CrashReader, ReplaceReader, ReaderReads
<1> QED
  BY <1>1, <1>2, <1>3, <1>4, <1>5, <1>6

\* Starting over, and going on with the same locals, for a repair worker.
LEMMA RepairerMovesTyped ==
  ASSUME RepairersTyped, NEW w \in Repairers, NEW L \in RepairerLabels \ {"put"}
  PROVE  /\ RepairerRestart(w, L) => RepairersTyped'
         /\ WDecide(w, L) => RepairersTyped'
         /\ \A b \in Nat : /\ WGoto(w, L)
                           /\ wBucket' = [wBucket EXCEPT ![w] = b]
                           /\ UNCHANGED <<wWatched, wTodo, wClaim>>
                           => RepairersTyped'
<1>1. RepairerRestart(w, L) => RepairersTyped'
  BY DEF RepairersTyped, RepairersOK, RepairerRestart
<1>2. WDecide(w, L) => RepairersTyped'
  BY DEF RepairersTyped, RepairersOK, WDecide, WGoto
<1>3. ASSUME NEW b \in Nat, WGoto(w, L), wBucket' = [wBucket EXCEPT ![w] = b],
             UNCHANGED <<wWatched, wTodo, wClaim>>
      PROVE  RepairersTyped'
  BY <1>3 DEF RepairersTyped, RepairersOK, WGoto
<1> QED
  BY <1>1, <1>2, <1>3

\* Leaving advance with a bucket keeps the types.
LEMMA AdvancedTyped ==
  ASSUME RepairersTyped, NEW w \in Repairers, NEW b \in Nat, Advanced(w, b)
  PROVE  RepairersTyped'
BY RepairerMovesTyped DEF Advanced, RepairerLabels

\* Finding a bucket to work on keeps the types.
LEMMA FindStepTyped ==
  ASSUME TypeInv, NEW w \in Repairers,
         \/ Process(w) \/ TombstoneExists(w) \/ InspectBucket(w) \/ WaitForTimeout(w)
         \/ CollectUnclaimed(w) \/ CrashRepairer(w) \/ ReplaceRepairer(w)
  PROVE  TypeInv'
<1> USE DEF TypeInv, RepairerLabels
<1>0. TablesOK /\ RepairersTyped
  OBVIOUS
<1>1. RepairersTyped'
  <2>1. CASE Process(w)
    BY <1>0, <2>1, RepairerMovesTyped DEF Process, TablesOK
  <2>2. CASE TombstoneExists(w)
    BY <1>0, <2>2, RepairerMovesTyped DEF TombstoneExists, RepairerIdle
  <2>3. CASE InspectBucket(w)
    BY <1>0, <2>3 DEF InspectBucket, WGoto, Disposal, RepairersTyped, RepairersOK
  <2>4. CASE WaitForTimeout(w)
    BY <1>0, <2>4, RepairerMovesTyped DEF WaitForTimeout
  <2>5. CASE CollectUnclaimed(w)
    <3> DEFINE todo == {[index |-> i, payload |-> rows[i].payload, version |-> rows[i].version] :
                          i \in Available(wBucket[w]) \intersect NeverDelivered(wBucket[w])}
    <3>1. todo \in SUBSET Unclaimed
      BY <1>0, MessagesTyped DEF Available, Unclaimed, Row
    <3>2. wTodo' = [wTodo EXCEPT ![w] = todo] /\ WGoto(w, Republishing(todo))
          /\ UNCHANGED <<wBucket, wWatched, wClaim>>
      BY <2>5 DEF CollectUnclaimed
    <3>3. Republishing(todo) \in {"limit", "claim"}
      BY DEF Republishing
    <3> QED
      BY <1>0, <3>1, <3>2, <3>3 DEF WGoto, RepairersTyped, RepairersOK
  <2>6. CASE CrashRepairer(w) \/ ReplaceRepairer(w)
    BY <1>0, <2>6, RepairerMovesTyped DEF CrashRepairer, ReplaceRepairer, RepairerIdle
  <2> QED
    BY <2>1, <2>2, <2>3, <2>4, <2>5, <2>6
<1>2. UNCHANGED tables /\ UNCHANGED clients /\ UNCHANGED readers /\ UNCHANGED history
  BY DEF Process, TombstoneExists, InspectBucket, WaitForTimeout, CollectUnclaimed,
         CrashRepairer, ReplaceRepairer, RepairerReads
<1> QED
  BY <1>1, <1>2, UnchangedTyped

\* Republishing keeps the types.
LEMMA RepublishStepTyped ==
  ASSUME TypeInv, NEW w \in Repairers,
         RepublishClaim(w) \/ RepublishPut(w) \/ RepublishAck(w)
  PROVE  TypeInv'
<1> USE DEF TypeInv, RepairerLabels
<1>0. TablesOK /\ RepairersTyped
  OBVIOUS
<1>1. \A m \in NextTodo(w) : m.index \in Index /\ m.payload \in Index
  BY <1>0 DEF NextTodo, RepairersTyped, RepairersOK, Unclaimed
<1>2. CASE RepublishClaim(w)
  <2>1. TablesOK' /\ monoton \in Index
    BY <1>0, <1>2, MaxIndexAssumption DEF RepublishClaim, TablesOK, Index
  <2>2. RepairersTyped'
    BY <1>0, <1>2, <2>1 DEF RepublishClaim, WGoto, RepairersTyped, RepairersOK
  <2> QED
    BY <2>1, <2>2, <1>2, UnchangedTyped DEF RepublishClaim
<1>3. CASE RepublishPut(w)
  <2>1. wClaim[w] \in Index
    BY <1>0, <1>3 DEF RepublishPut, RepairersTyped
  <2>2. PICK m \in NextTodo(w) :
          IF rows[wClaim[w]] = Nil
            THEN /\ rows' = [rows EXCEPT ![wClaim[w]] = NewRow(m.payload, TRUE)]
                 /\ WDecide(w, "ackOriginal")
            ELSE RepairerIdle(w) /\ UNCHANGED rows
    BY <1>3 DEF RepublishPut
  <2>3. TablesOK'
    BY <1>0, <1>1, <1>3, <2>1, <2>2, RowsTyped DEF RepublishPut, TablesOK
  <2>4. RepairersTyped'
    BY <1>0, <2>2, RepairerMovesTyped DEF RepairerIdle
  <2> QED
    BY <2>3, <2>4, <1>3, UnchangedTyped DEF RepublishPut
<1>4. CASE RepublishAck(w)
  <2>1. PICK m \in NextTodo(w) :
          /\ IF AckApplies(m.index, m.version)
               THEN rows' = [rows EXCEPT ![m.index] = Acked(@)]
               ELSE UNCHANGED rows
          /\ wTodo' = [wTodo EXCEPT ![w] = @ \ {m}]
          /\ WGoto(w, Republishing(wTodo[w] \ {m}))
    BY <1>4 DEF RepublishAck
  <2>2. TablesOK'
    <3>1. CASE AckApplies(m.index, m.version)
      <4>1. m.index \in Index /\ Acked(rows[m.index]) \in Row
        BY <1>0, <1>1, <3>1, RowsTyped DEF AckApplies, TablesOK
      <4>2. rows' = [rows EXCEPT ![m.index] = Acked(rows[m.index])]
        BY <2>1, <3>1
      <4> QED
        BY <1>0, <1>4, <4>1, <4>2 DEF RepublishAck, TablesOK
    <3>2. CASE ~AckApplies(m.index, m.version)
      BY <1>0, <1>4, <2>1, <3>2 DEF RepublishAck, TablesOK
    <3> QED
      BY <3>1, <3>2
  <2>3. Republishing(wTodo[w] \ {m}) \in {"limit", "claim"}
    BY DEF Republishing
  <2>4. RepairersTyped'
    BY <1>0, <1>4, <2>1, <2>3 DEF RepublishAck, WGoto, RepairersTyped, RepairersOK
  <2> QED
    BY <2>2, <2>4, <1>4, UnchangedTyped DEF RepublishAck
<1> QED
  BY <1>2, <1>3, <1>4

\* Advancing, deleting and finalizing keep the types.
LEMMA CloseStepTyped ==
  ASSUME TypeInv, NEW w \in Repairers,
         \/ LimitToMonoton(w) \/ AdvanceRepairBucketPointer(w) \/ RereadRepairPointer(w)
         \/ RecheckBucket(w) \/ DeleteAllMessages(w) \/ Finalize(w) \/ MarkAsFinalized(w)
  PROVE  TypeInv'
<1> USE DEF TypeInv, RepairerLabels
<1>0. TablesOK /\ RepairersTyped /\ wBucket[w] \in Nat
  BY DEF RepairersTyped, RepairersOK
<1>1. CASE LimitToMonoton(w)
  <2>1. Bucket(monoton) \in Nat
    BY <1>0, BucketBounds, MaxIndexAssumption DEF TablesOK
  <2>2. RepairersTyped'
    BY <1>0, <1>1, <2>1, AdvancedTyped, RepairerMovesTyped DEF LimitToMonoton
  <2> QED
    BY <2>2, <1>1, UnchangedTyped DEF LimitToMonoton, RepairerReads
<1>2. CASE AdvanceRepairBucketPointer(w)
  <2>1. TablesOK'
    BY <1>0, <1>2 DEF AdvanceRepairBucketPointer, TablesOK
  <2>2. RepairersTyped'
    BY <1>0, <1>2, AdvancedTyped, RepairerMovesTyped DEF AdvanceRepairBucketPointer
  <2> QED
    BY <2>1, <2>2, <1>2, UnchangedTyped DEF AdvanceRepairBucketPointer
<1>3. CASE RereadRepairPointer(w)
  <2>1. RepairersTyped'
    BY <1>0, <1>3, AdvancedTyped DEF RereadRepairPointer, TablesOK
  <2> QED
    BY <2>1, <1>3, UnchangedTyped DEF RereadRepairPointer, RepairerReads
<1>4. CASE RecheckBucket(w)
  <2>1. RepairersTyped'
    BY <1>0, <1>4, RepairerMovesTyped DEF RecheckBucket, Disposal
  <2> QED
    BY <2>1, <1>4, UnchangedTyped DEF RecheckBucket, RepairerReads
<1>5. CASE DeleteAllMessages(w)
  <2>1. TablesOK'
    BY <1>0, <1>5 DEF DeleteAllMessages, TablesOK
  <2>2. RepairersTyped'
    BY <1>0, <1>5, RepairerMovesTyped DEF DeleteAllMessages
  <2> QED
    BY <2>1, <2>2, <1>5, UnchangedTyped DEF DeleteAllMessages
<1>6. CASE Finalize(w) \/ MarkAsFinalized(w)
  <2>1. TablesOK'
    BY <1>0, <1>6 DEF Finalize, MarkAsFinalized, TablesOK
  <2>2. RepairersTyped'
    BY <1>0, <1>6, RepairerMovesTyped DEF Finalize, MarkAsFinalized, RepairerIdle
  <2> QED
    BY <2>1, <2>2, <1>6, UnchangedTyped DEF Finalize, MarkAsFinalized
<1> QED
  BY <1>1, <1>2, <1>3, <1>4, <1>5, <1>6

\* Every step keeps the types.
LEMMA NextTyped == TypeInv /\ [Next]_vars => TypeInv'
<1> SUFFICES ASSUME TypeInv, [Next]_vars PROVE TypeInv'
  OBVIOUS
<1>1. CASE ClientStep
  BY <1>1, ClientStepTyped
<1>2. ASSUME NEW r \in Readers, ReaderStep(r) \/ CrashReader(r) \/ ReplaceReader(r)
      PROVE  TypeInv'
  <2>1. CASE \/ NextMessage(r) \/ GetCurrentInvisPointer(r) \/ ProcessCurrentInvisPointer(r)
             \/ ProcessBucket(r) \/ FinalizedExists(r) \/ RereadInvisPointer(r)
    <3>1. ReadersTyped'
      BY <2>1, ScanStepTyped DEF TypeInv
    <3>2. UNCHANGED tables /\ UNCHANGED clients /\ UNCHANGED repairers /\ UNCHANGED history
      BY <2>1 DEF NextMessage, GetCurrentInvisPointer, ProcessCurrentInvisPointer,
                  ProcessBucket, FinalizedExists, RereadInvisPointer, ReaderReads
    <3> QED
      BY <3>1, <3>2, UnchangedTyped DEF TypeInv
  <2>2. CASE MoveInvisBack(r) \/ MoveInvisOn(r)
    BY <2>2, MoveStepTyped, UnchangedTyped
    DEF TypeInv, MoveInvisBack, MoveInvisOn, OnlyInvisPointer
  <2> QED
    BY <1>2, <2>1, <2>2, ConsumeStepTyped, BucketStepTyped DEF ReaderStep
<1>3. ASSUME NEW w \in Repairers, RepairStep(w) \/ CrashRepairer(w) \/ ReplaceRepairer(w)
      PROVE  TypeInv'
  BY <1>3, FindStepTyped, RepublishStepTyped, CloseStepTyped DEF RepairStep
<1>4. CASE UNCHANGED vars
  BY <1>4, UnchangedTyped DEF TypeInv, vars
<1> QED
  BY <1>1, <1>2, <1>3, <1>4 DEF Next

\* The tables and every worker's locals keep their ranges for any number of
\* publishers, readers and repair workers, crashes included.
THEOREM TypeCorrect == Spec => []TypeOK
<1>1. TypeInv => TypeOK
  BY DEF TypeInv, TypeOK, ReadersTyped, RepairersTyped
<1> QED
  BY InitTyped, NextTyped, <1>1, PTL DEF Spec

-----------------------------------------------------------------------------
(* Closed buckets.  ClosedBucketsStayClosed and RepairFollowsReader are not  *)
(* inductive: what a reader is about to tombstone or leave, and what a       *)
(* repair worker is about to finalize or leave, must be closed already.      *)

\* Every index with a row, or about to get one, is below the monoton.
HandedOut ==
  /\ RowsAreHandedOut
  /\ \A i \in claims : i < monoton
  /\ \A w \in Repairers : wpc[w] = "put" => wClaim[w] < monoton

\* A reader's bucket is one the reader pointer has reached, and closed by the
\* time the reader tombstones it.
ReadersBehind ==
  \A r \in Readers :
    /\ rBucket[r] <= readerPtr
    /\ rpc[r] \in {"tombstone", "advance"} => Closed(rBucket[r])

\* A repair worker that has seen a tombstone works on a closed bucket.
RepairersBehind ==
  \A w \in Repairers :
    wpc[w] \notin {"idle", "tombstone", "down"} =>
      Closed(wBucket[w]) /\ wBucket[w] <= readerPtr

CloseInv ==
  /\ HandedOut /\ ReadersBehind /\ RepairersBehind
  /\ ClosedBucketsStayClosed /\ RepairFollowsReader

\* The empty queue satisfies the invariant.
LEMMA InitClosed == Init => CloseInv
BY BucketSizeAssumption
DEF Init, CloseInv, HandedOut, RowsAreHandedOut, ReadersBehind, RepairersBehind,
    ClosedBucketsStayClosed, RepairFollowsReader

\* The monoton and the reader pointer never go back.
Forward == monoton' \in Nat /\ monoton <= monoton' /\ readerPtr' \in Nat /\ readerPtr <= readerPtr'

\* A closed bucket stays closed.
LEMMA ClosedKept ==
  ASSUME TypeInv, Forward, NEW b \in Nat, Closed(b)
  PROVE  StartOfNext(b) <= monoton'
BY BucketSizeAssumption DEF TypeInv, TablesOK, Forward, Closed, StartOfNext

\* What keeps each part of the invariant while the monoton and the reader
\* pointer only grow.
LEMMA CloseFrame ==
  ASSUME TypeInv, CloseInv, Forward
  PROVE  /\ UNCHANGED <<rows, claims, wpc, wClaim>> => HandedOut'
         /\ UNCHANGED <<rpc, rBucket>> => ReadersBehind'
         /\ UNCHANGED <<wpc, wBucket>> => RepairersBehind'
         /\ UNCHANGED <<tombstones, finalizers, readerPtr, repairPtr>> =>
              ClosedBucketsStayClosed' /\ RepairFollowsReader'
<1> USE DEF TypeInv, CloseInv
<1>0. /\ monoton \in Nat /\ readerPtr \in Nat /\ repairPtr \in Nat
      /\ monoton' \in Nat /\ monoton <= monoton' /\ readerPtr' \in Nat /\ readerPtr <= readerPtr'
  BY MaxIndexAssumption DEF TablesOK, Forward
<1>1. ASSUME UNCHANGED <<rows, claims, wpc, wClaim>> PROVE HandedOut'
  <2>1. Index \subseteq Nat
    BY MaxIndexAssumption DEF Index
  <2>2. \A i \in Index : rows'[i] # Nil => i < monoton'
    BY <1>0, <1>1, <2>1 DEF HandedOut, RowsAreHandedOut
  <2>3. \A i \in claims' : i < monoton'
    BY <1>0, <1>1, <2>1 DEF HandedOut, ClientsOK
  <2>4. ASSUME NEW w \in Repairers, wpc'[w] = "put" PROVE wClaim'[w] < monoton'
    <3>1. wClaim[w] \in Nat /\ wClaim[w] < monoton
      BY <1>1, <2>1, <2>4 DEF HandedOut, RepairersTyped
    <3> QED
      BY <1>0, <1>1, <3>1
  <2> QED
    BY <2>2, <2>3, <2>4 DEF HandedOut, RowsAreHandedOut
<1>2. ASSUME UNCHANGED <<rpc, rBucket>> PROVE ReadersBehind'
  <2>1. ASSUME NEW r \in Readers
        PROVE  /\ rBucket'[r] <= readerPtr'
               /\ rpc[r] \in {"tombstone", "advance"} => StartOfNext(rBucket[r]) <= monoton'
    BY <1>0, <1>2, ClosedKept DEF ReadersBehind, ReadersTyped, ReadersOK
  <2> QED
    BY <1>2, <2>1 DEF ReadersBehind, Closed
<1>3. ASSUME UNCHANGED <<wpc, wBucket>> PROVE RepairersBehind'
  <2>1. ASSUME NEW w \in Repairers, wpc[w] \notin {"idle", "tombstone", "down"}
        PROVE  StartOfNext(wBucket[w]) <= monoton' /\ wBucket[w] <= readerPtr'
    BY <1>0, <2>1, ClosedKept DEF RepairersBehind, RepairersTyped, RepairersOK
  <2> QED
    BY <1>3, <2>1 DEF RepairersBehind, Closed
<1>4. ASSUME UNCHANGED <<tombstones, finalizers, readerPtr, repairPtr>>
      PROVE  ClosedBucketsStayClosed' /\ RepairFollowsReader'
  <2>1. \A b \in tombstones \union finalizers : StartOfNext(b) <= monoton'
    BY <1>4, ClosedKept DEF ClosedBucketsStayClosed, TablesOK
  <2>2. readerPtr * BucketSize <= monoton' /\ repairPtr * BucketSize <= monoton'
    BY <1>0, BucketSizeAssumption DEF ClosedBucketsStayClosed
  <2> QED
    BY <1>4, <2>1, <2>2 DEF ClosedBucketsStayClosed, RepairFollowsReader, Closed
<1> QED
  BY <1>1, <1>2, <1>3, <1>4

\* A publisher, a consumer or the clock keeps closed buckets closed.
LEMMA ClientStepClosed == TypeInv /\ CloseInv /\ ClientStep => CloseInv'
<1> SUFFICES ASSUME TypeInv, CloseInv, ClientStep PROVE CloseInv'
  OBVIOUS
<1>0. /\ monoton \in Nat /\ readerPtr \in Nat /\ Index \subseteq Nat /\ claims \subseteq Index
      /\ HandedOut
  BY MaxIndexAssumption DEF TypeInv, TablesOK, ClientsOK, Index, CloseInv
<1>1. Forward
  <2>1. (monoton' = monoton \/ monoton' = monoton + 1) /\ readerPtr' = readerPtr
    BY DEF ClientStep, NextMonotonic, PutMessage, AbandonClaim, AckMessage, Expire, tables
  <2> QED
    BY <1>0, <2>1 DEF Forward
<1>2. UNCHANGED <<rpc, rBucket, wpc, wBucket, wClaim,
                  tombstones, finalizers, readerPtr, repairPtr>>
  BY DEF ClientStep, NextMonotonic, PutMessage, AbandonClaim, AckMessage, Expire,
         tables, readers, repairers
<1>3. HandedOut'
  <2>1. CASE NextMonotonic
    <3>1. monoton' = monoton + 1 /\ rows' = rows /\ claims' = claims \union {monoton}
      BY <2>1 DEF NextMonotonic
    <3>2. \A w \in Repairers : wpc[w] = "put" => wClaim[w] \in Nat
      BY <1>0 DEF TypeInv, RepairersTyped
    <3>3. \A i \in claims' : i < monoton'
      BY <1>0, <3>1 DEF HandedOut
    <3>4. \A i \in Index : rows'[i] # Nil => i < monoton'
      BY <1>0, <3>1 DEF HandedOut, RowsAreHandedOut
    <3>5. \A w \in Repairers : wpc'[w] = "put" => wClaim'[w] < monoton'
      BY <1>0, <1>2, <3>1, <3>2 DEF HandedOut
    <3> QED
      BY <3>3, <3>4, <3>5 DEF HandedOut, RowsAreHandedOut
  <2>2. ASSUME NEW i \in Index, PutMessage(i) PROVE HandedOut'
    <3>1. claims' \subseteq claims /\ i < monoton /\ monoton' = monoton
      BY <1>0, <2>2 DEF PutMessage, HandedOut
    <3>2. \A j \in Index : rows'[j] # Nil => rows[j] # Nil \/ j = i
      BY <2>2 DEF PutMessage, TypeInv, TablesOK
    <3> QED
      BY <1>0, <1>2, <3>1, <3>2 DEF HandedOut, RowsAreHandedOut
  <2>3. ASSUME NEW i \in Index, AbandonClaim(i) PROVE HandedOut'
    BY <1>0, <1>2, <2>3 DEF AbandonClaim, tables, HandedOut, RowsAreHandedOut
  <2>4. ASSUME NEW i \in Index, Expire(i) PROVE HandedOut'
    <3>1. \A j \in Index : rows'[j] # Nil => rows[j] # Nil
      BY <2>4 DEF Expire, Unacked, TypeInv, TablesOK
    <3> QED
      BY <1>0, <1>2, <2>4, <3>1 DEF Expire, clients, HandedOut, RowsAreHandedOut
  <2>5. ASSUME NEW c \in receipts, AckMessage(c) PROVE HandedOut'
    <3>1. \A j \in Index : rows'[j] # Nil => rows[j] # Nil
      BY <2>5 DEF AckMessage, AckApplies, TypeInv, TablesOK
    <3> QED
      BY <1>0, <1>2, <2>5, <3>1 DEF AckMessage, clients, HandedOut, RowsAreHandedOut
  <2> QED
    BY <2>1, <2>2, <2>3, <2>4, <2>5 DEF ClientStep
<1> QED
  BY <1>1, <1>2, <1>3, CloseFrame DEF CloseInv

\* A reader at label L with bucket b, its other locals aside.
At(r, L, b) ==
  rpc' = [rpc EXCEPT ![r] = L] /\ rBucket' = [rBucket EXCEPT ![r] = b]

\* A reader whose bucket the reader pointer has reached, and whose label
\* promises nothing of it that is not so.
LEMMA AtBehind ==
  ASSUME TypeInv, CloseInv, Forward, NEW r \in Readers, NEW L, NEW b \in Nat, At(r, L, b),
         b <= readerPtr', L \in {"tombstone", "advance"} => StartOfNext(b) <= monoton'
  PROVE  ReadersBehind'
<1>1. ASSUME NEW q \in Readers
      PROVE  /\ rBucket'[q] <= readerPtr'
             /\ rpc'[q] \in {"tombstone", "advance"} => StartOfNext(rBucket'[q]) <= monoton'
  <2>1. CASE q = r
    BY <2>1 DEF At, TypeInv, ReadersTyped, ReadersOK
  <2>2. CASE q # r
    <3>1. rpc'[q] = rpc[q] /\ rBucket'[q] = rBucket[q] /\ rBucket[q] \in Nat
      BY <2>2 DEF At, TypeInv, ReadersTyped, ReadersOK
    <3>2. rBucket[q] <= readerPtr'
      BY <3>1 DEF CloseInv, ReadersBehind, Forward, TypeInv, TablesOK
    <3>3. rpc[q] \in {"tombstone", "advance"} => StartOfNext(rBucket[q]) <= monoton'
      BY <3>1, ClosedKept DEF CloseInv, ReadersBehind
    <3> QED
      BY <3>1, <3>2, <3>3
  <2> QED
    BY <2>1, <2>2
<1> QED
  BY <1>1 DEF ReadersBehind, Closed

\* The reader steps that stay clear of tombstones: the label they lead to
\* promises nothing, and the bucket is dropped, kept or read afresh.
QuietStep(r) ==
  \/ NextMessage(r) \/ GetCurrentInvisPointer(r) \/ ProcessCurrentInvisPointer(r)
  \/ ProcessBucket(r) \/ FinalizedExists(r)
  \/ MoveInvisBack(r) \/ MoveInvisOn(r) \/ RereadInvisPointer(r)
  \/ DeadLetter(r) \/ AckDead(r) \/ RawConsume(r) \/ TrackConsumed(r) \/ Respond(r)
  \/ GetReaderCurrentBucket(r) \/ CrashReader(r) \/ ReplaceReader(r)

Quiet(r) ==
  \E L \in ReaderLabels \ {"tombstone", "advance"}, b \in {0, rBucket[r], readerPtr} : At(r, L, b)

\* Each of the ways a quiet step ends.
LEMMA QuietEnds ==
  ASSUME TypeInv, NEW r \in Readers
  PROVE  /\ \A L \in ReaderLabels \ {"tombstone", "advance"} :
              Restart(r, L) \/ Decide(r, L) => Quiet(r)
         /\ GetNext(r) \/ ReaderIdle(r) => Quiet(r)
         /\ \A i, source : Take(r, i, source) => Quiet(r)
         /\ \A dest, then : MoveInvisTo(r, dest, then) => Quiet(r)
         /\ \A b : TryAdvanceToNextBucket(r, b) => Quiet(r)
         /\ \A p : Moved(r, p) => Quiet(r)
         /\ Missed(r) => Quiet(r)
<1> USE DEF ReaderLabels
<1>0. /\ rpc \in [Readers -> ReaderLabels] /\ rBucket \in [Readers -> Nat]
      /\ rThen[r] \in {"idle", "atPointer", "readerBucket", "respond"}
      /\ rBucket = [rBucket EXCEPT ![r] = rBucket[r]]
  BY DEF TypeInv, ReadersTyped, ReadersOK
<1>1. \A L \in ReaderLabels \ {"tombstone", "advance"} :
        Restart(r, L) \/ Decide(r, L) => Quiet(r)
  BY <1>0 DEF Restart, Decide, Goto, Quiet, At
<1>2. GetNext(r) \/ ReaderIdle(r) => Quiet(r)
  BY <1>1 DEF GetNext, ReaderIdle
<1>3. \A i, source : Take(r, i, source) => Quiet(r)
  BY <1>0 DEF Take, Goto, Quiet, At
<1>4. \A dest, then : MoveInvisTo(r, dest, then) => Quiet(r)
  BY <1>0 DEF MoveInvisTo, Goto, Quiet, At
<1>5. \A b : TryAdvanceToNextBucket(r, b) => Quiet(r)
  BY <1>2, <1>4 DEF TryAdvanceToNextBucket
<1>6. \A p : Moved(r, p) => Quiet(r)
  BY <1>0 DEF Moved, Goto, Quiet, At
<1>7. Missed(r) => Quiet(r)
  <2>1. CASE GetNext(r)
    BY <2>1, <1>2
  <2>2. CASE ~GetNext(r)
    BY <1>0, <2>2 DEF Missed, Goto, Quiet, At
  <2> QED
    BY <2>1, <2>2
<1> QED
  BY <1>1, <1>2, <1>3, <1>4, <1>5, <1>6, <1>7

LEMMA QuietSteps ==
  ASSUME TypeInv, NEW r \in Readers, QuietStep(r)
  PROVE  Quiet(r)
<1> USE DEF ReaderLabels
<1>1. CASE NextMessage(r) \/ GetCurrentInvisPointer(r) \/ TrackConsumed(r) \/ GetReaderCurrentBucket(r)
  <2>1. rBucket = [rBucket EXCEPT ![r] = rBucket[r]]
    BY DEF TypeInv, ReadersTyped, ReadersOK
  <2> QED
    BY <1>1, <2>1
    DEF NextMessage, GetCurrentInvisPointer, TrackConsumed, GetReaderCurrentBucket,
        Goto, Quiet, At
<1>2. CASE ProcessCurrentInvisPointer(r) \/ ProcessBucket(r) \/ FinalizedExists(r)
  BY <1>2, QuietEnds DEF ProcessCurrentInvisPointer, ProcessBucket, FinalizedExists
<1>3. CASE MoveInvisBack(r) \/ MoveInvisOn(r) \/ RereadInvisPointer(r)
  BY <1>3, QuietEnds DEF MoveInvisBack, MoveInvisOn, RereadInvisPointer
<1>4. CASE DeadLetter(r) \/ AckDead(r) \/ RawConsume(r) \/ Respond(r)
  BY <1>4, QuietEnds DEF DeadLetter, AckDead, RawConsume, Respond
<1>5. CASE CrashReader(r) \/ ReplaceReader(r)
  BY <1>5, QuietEnds DEF CrashReader, ReplaceReader
<1> QED
  BY <1>1, <1>2, <1>3, <1>4, <1>5 DEF QuietStep

\* A step that neither creates a row nor touches the special rows, the monoton
\* and the pointers that count, but moves one reader, keeps closed buckets closed.
LEMMA ReaderMoveClosed ==
  ASSUME TypeInv, CloseInv, NEW r \in Readers, NEW L, NEW b \in Nat, At(r, L, b),
         b <= readerPtr, L \in {"tombstone", "advance"} => Closed(b),
         UNCHANGED <<monoton, readerPtr, tombstones, finalizers, repairPtr, claims, repairers>>,
         \A i \in Index : rows'[i] # Nil => rows[i] # Nil
  PROVE  CloseInv'
<1>1. Forward
  BY MaxIndexAssumption DEF Forward, TypeInv, TablesOK
<1>2. ReadersBehind'
  BY <1>1, AtBehind DEF Closed
<1>3. HandedOut'
  BY DEF CloseInv, HandedOut, RowsAreHandedOut, repairers
<1>4. RepairersBehind' /\ ClosedBucketsStayClosed' /\ RepairFollowsReader'
  BY <1>1, CloseFrame DEF repairers
<1> QED
  BY <1>2, <1>3, <1>4 DEF CloseInv

\* A quiet step keeps closed buckets closed.
LEMMA QuietStepClosed ==
  ASSUME TypeInv, CloseInv, NEW r \in Readers, QuietStep(r)
  PROVE  CloseInv'
<1>1. UNCHANGED <<monoton, readerPtr, tombstones, finalizers, repairPtr, claims, repairers>>
  BY DEF QuietStep, NextMessage, GetCurrentInvisPointer, ProcessCurrentInvisPointer,
    ProcessBucket, FinalizedExists, MoveInvisBack, MoveInvisOn, RereadInvisPointer,
    DeadLetter, AckDead, RawConsume, TrackConsumed, Respond, GetReaderCurrentBucket,
    CrashReader, ReplaceReader, ReaderReads, OnlyInvisPointer, OnlyRows, tables, clients
<1>2. \A i \in Index : rows'[i] # Nil => rows[i] # Nil
  <2>1. CASE AckDead(r) \/ RawConsume(r)
    BY <2>1 DEF AckDead, RawConsume, AckApplies, Unacked, TypeInv, TablesOK
  <2>2. CASE ~AckDead(r) /\ ~RawConsume(r)
    BY <2>2 DEF QuietStep, NextMessage, GetCurrentInvisPointer, ProcessCurrentInvisPointer,
      ProcessBucket, FinalizedExists, MoveInvisBack, MoveInvisOn, RereadInvisPointer,
      DeadLetter, TrackConsumed, Respond, GetReaderCurrentBucket,
      CrashReader, ReplaceReader, ReaderReads, OnlyInvisPointer, tables
  <2> QED
    BY <2>1, <2>2
<1>3. PICK L \in ReaderLabels \ {"tombstone", "advance"}, b \in {0, rBucket[r], readerPtr} :
        At(r, L, b)
  BY QuietSteps DEF Quiet
<1>4. b \in Nat /\ b <= readerPtr
  BY <1>3 DEF TypeInv, TablesOK, ReadersTyped, ReadersOK, CloseInv, ReadersBehind
<1> QED
  BY <1>1, <1>2, <1>3, <1>4, ReaderMoveClosed

\* Tombstoning the reader's bucket and leaving it keep closed buckets closed:
\* the bucket was full, or the monoton, read later, was past it.
LEMMA TombstoneStepClosed ==
  ASSUME TypeInv, CloseInv, NEW r \in Readers,
         \/ GetAndMark(r) \/ MonotonPastBucket(r) \/ Tombstone(r)
         \/ AdvanceMessageBucketPointer(r)
  PROVE  CloseInv'
<1> DEFINE b == rBucket[r]
<1>0. /\ monoton \in Nat /\ readerPtr \in Nat /\ b \in Nat /\ b <= readerPtr
      /\ rpc[r] \in {"tombstone", "advance"} => Closed(b)
      /\ rBucket = [rBucket EXCEPT ![r] = b]
  BY MaxIndexAssumption
  DEF TypeInv, TablesOK, ReadersTyped, ReadersOK, CloseInv, ReadersBehind
<1>1. CASE GetAndMark(r)
  <2>1. PICK L \in {"consume", "tombstone", "monoton"} :
          At(r, L, b) /\ (L = "tombstone" => Full(b))
    BY <1>0, <1>1 DEF GetAndMark, Take, Decide, Goto, At
  <2>2. L \in {"tombstone", "advance"} => Closed(b)
    BY <1>0, <2>1, FullBucketIsClosed DEF CloseInv, HandedOut
  <2> QED
    BY <1>0, <1>1, <2>1, <2>2, ReaderMoveClosed DEF GetAndMark, ReaderReads, tables, clients
<1>2. CASE MonotonPastBucket(r)
  <2>1. CASE Bucket(monoton) > b
    <3>1. At(r, "tombstone", b)
      BY <1>0, <1>2, <2>1 DEF MonotonPastBucket, Decide, Goto, At
    <3>2. Closed(b)
      BY <1>0, <2>1, PastBucketIsClosed DEF Closed
    <3> QED
      BY <1>0, <1>2, <3>1, <3>2, ReaderMoveClosed
      DEF MonotonPastBucket, ReaderReads, tables, clients
  <2>2. CASE ~(Bucket(monoton) > b)
    <3>1. At(r, "idle", 0)
      BY <1>2, <2>2 DEF MonotonPastBucket, ReaderIdle, Restart, At
    <3> QED
      BY <1>0, <1>2, <3>1, ReaderMoveClosed DEF MonotonPastBucket, ReaderReads, tables, clients
  <2> QED
    BY <2>1, <2>2
<1>3. CASE Tombstone(r)
  <2>1. Closed(b) /\ tombstones' = tombstones \union {b} /\ At(r, "advance", b)
    BY <1>0, <1>3 DEF Tombstone, Decide, Goto, At
  <2>2. Forward
    BY <1>0, <1>3 DEF Tombstone, Forward
  <2>3. ReadersBehind'
    BY <1>0, <1>3, <2>1, <2>2, AtBehind DEF Tombstone, Closed
  <2>4. HandedOut' /\ RepairersBehind'
    BY <1>3, <2>2, CloseFrame DEF Tombstone, clients, repairers
  <2>5. ClosedBucketsStayClosed' /\ RepairFollowsReader'
    BY <1>0, <1>3, <2>1
    DEF Tombstone, CloseInv, ClosedBucketsStayClosed, RepairFollowsReader, Closed
  <2> QED
    BY <2>3, <2>4, <2>5 DEF CloseInv
<1>4. CASE AdvanceMessageBucketPointer(r)
  <2>1. CASE readerPtr = b
    <3>1. Closed(b) /\ readerPtr' = b + 1 /\ At(r, "readBucket", b + 1)
      BY <1>0, <1>4, <2>1 DEF AdvanceMessageBucketPointer, Goto, At
    <3>2. Forward
      BY <1>0, <1>4, <2>1, <3>1 DEF AdvanceMessageBucketPointer, Forward
    <3>3. ReadersBehind'
      BY <1>0, <3>1, <3>2, AtBehind
    <3>4. HandedOut' /\ RepairersBehind'
      BY <1>4, <3>2, CloseFrame DEF AdvanceMessageBucketPointer, clients, repairers
    <3>5. ClosedBucketsStayClosed' /\ RepairFollowsReader'
      <4>1. UNCHANGED <<monoton, tombstones, finalizers, repairPtr>>
        BY <1>4 DEF AdvanceMessageBucketPointer
      <4>2. (b + 1) * BucketSize <= monoton
        BY <3>1 DEF Closed, StartOfNext
      <4>3. repairPtr <= readerPtr' + 1 /\ \A d \in tombstones : d <= readerPtr'
        BY <1>0, <2>1, <3>1 DEF CloseInv, RepairFollowsReader, TypeInv, TablesOK
      <4> QED
        BY <3>1, <4>1, <4>2, <4>3
        DEF CloseInv, ClosedBucketsStayClosed, RepairFollowsReader, Closed
    <3> QED
      BY <3>3, <3>4, <3>5 DEF CloseInv
  <2>2. CASE readerPtr # b
    <3>1. At(r, "readerBucket", b)
      BY <1>0, <1>4, <2>2 DEF AdvanceMessageBucketPointer, Goto, At
    <3> QED
      BY <1>0, <1>4, <2>2, <3>1, ReaderMoveClosed DEF AdvanceMessageBucketPointer, clients
  <2> QED
    BY <2>1, <2>2
<1> QED
  BY <1>1, <1>2, <1>3, <1>4

\* A repair worker at label L with bucket b, its other locals aside.
WAt(w, L, b) ==
  wpc' = [wpc EXCEPT ![w] = L] /\ wBucket' = [wBucket EXCEPT ![w] = b]

\* The labels at which a repair worker has not seen a tombstone.
Seeking == {"idle", "tombstone", "down"}

\* A repair worker that goes on with the closed bucket it had, or has seen the
\* tombstone of its bucket, or seeks one.
LEMMA WAtBehind ==
  ASSUME TypeInv, CloseInv, Forward, NEW w \in Repairers, NEW L, NEW b \in Nat, WAt(w, L, b),
         L \notin Seeking => Closed(b) /\ b <= readerPtr
  PROVE  RepairersBehind'
<1>1. ASSUME NEW v \in Repairers, wpc'[v] \notin Seeking
      PROVE  StartOfNext(wBucket'[v]) <= monoton' /\ wBucket'[v] <= readerPtr'
  <2>1. CASE v = w
    <3>1. wpc'[v] = L /\ wBucket'[v] = b
      BY <2>1 DEF WAt, TypeInv, RepairersTyped, RepairersOK
    <3>2. Closed(b) /\ b <= readerPtr
      BY <1>1, <3>1
    <3> QED
      BY <3>1, <3>2, ClosedKept DEF Forward, TypeInv, TablesOK
  <2>2. CASE v # w
    <3>1. wpc'[v] = wpc[v] /\ wBucket'[v] = wBucket[v] /\ wBucket[v] \in Nat
      BY <2>2 DEF WAt, TypeInv, RepairersTyped, RepairersOK
    <3>2. Closed(wBucket[v]) /\ wBucket[v] <= readerPtr
      BY <1>1, <3>1 DEF CloseInv, RepairersBehind, Seeking
    <3> QED
      BY <3>1, <3>2, ClosedKept DEF Forward, TypeInv, TablesOK
  <2> QED
    BY <2>1, <2>2
<1> QED
  BY <1>1 DEF RepairersBehind, Seeking, Closed

\* The same for the whole invariant, when the step creates no row and moves
\* neither the monoton nor the reader pointer.
LEMMA RepairerMoveClosed ==
  ASSUME TypeInv, CloseInv, NEW w \in Repairers, NEW L, NEW b \in Nat, WAt(w, L, b),
         L # "put", L \notin Seeking => Closed(b) /\ b <= readerPtr,
         UNCHANGED <<monoton, readerPtr, claims, rpc, rBucket>>,
         \A v \in Repairers : v # w => wClaim'[v] = wClaim[v],
         \A i \in Index : rows'[i] # Nil => rows[i] # Nil
  PROVE  Forward /\ HandedOut' /\ ReadersBehind' /\ RepairersBehind'
<1>1. Forward
  BY MaxIndexAssumption DEF Forward, TypeInv, TablesOK
<1>2. ReadersBehind' /\ RepairersBehind'
  BY <1>1, CloseFrame, WAtBehind
<1>3. ASSUME NEW v \in Repairers, wpc'[v] = "put" PROVE wClaim'[v] < monoton'
  BY <1>3 DEF WAt, CloseInv, HandedOut, TypeInv, RepairersTyped, RepairersOK
<1>4. HandedOut'
  BY <1>3 DEF CloseInv, HandedOut, RowsAreHandedOut
<1> QED
  BY <1>1, <1>2, <1>4

\* Where a repair worker's bucket stands.
LEMMA WorkersBucket ==
  ASSUME TypeInv, CloseInv, NEW w \in Repairers
  PROVE  /\ wBucket[w] \in Nat /\ wBucket = [wBucket EXCEPT ![w] = wBucket[w]]
         /\ wClaim \in [Repairers -> Index \union {Nil}]
         /\ wpc[w] \notin Seeking => Closed(wBucket[w]) /\ wBucket[w] <= readerPtr
BY DEF TypeInv, RepairersTyped, RepairersOK, CloseInv, RepairersBehind, Seeking

\* Finding a tombstoned bucket, waiting and collecting keep closed buckets closed.
LEMMA FindStepClosed ==
  ASSUME TypeInv, CloseInv, NEW w \in Repairers,
         \/ Process(w) \/ TombstoneExists(w) \/ InspectBucket(w) \/ WaitForTimeout(w)
         \/ CollectUnclaimed(w) \/ RecheckBucket(w) \/ CrashRepairer(w) \/ ReplaceRepairer(w)
  PROVE  CloseInv'
<1>1. UNCHANGED tables /\ UNCHANGED clients /\ UNCHANGED readers
  BY DEF Process, TombstoneExists, InspectBucket, WaitForTimeout, CollectUnclaimed,
         RecheckBucket, CrashRepairer, ReplaceRepairer, RepairerReads
<1>2. \A v \in Repairers : v # w => wClaim'[v] = wClaim[v]
  BY WorkersBucket
  DEF Process, TombstoneExists, InspectBucket, WaitForTimeout, CollectUnclaimed,
      RecheckBucket, CrashRepairer, ReplaceRepairer, RepairerIdle, RepairerRestart, WDecide
<1>3. \E L \in RepairerLabels \ {"put"}, b \in Nat :
        WAt(w, L, b) /\ (L \notin Seeking => Closed(b) /\ b <= readerPtr)
  <2>1. CASE Process(w)
    BY <2>1 DEF Process, WGoto, WAt, Seeking, RepairerLabels, TypeInv, TablesOK
  <2>2. CASE TombstoneExists(w)
    BY <2>2, WorkersBucket
    DEF TombstoneExists, RepairerIdle, RepairerRestart, WDecide, WGoto, WAt, Seeking,
        RepairerLabels, CloseInv, ClosedBucketsStayClosed, RepairFollowsReader
  <2>3. CASE InspectBucket(w) \/ WaitForTimeout(w) \/ CollectUnclaimed(w) \/ RecheckBucket(w)
    <3>1. wpc[w] \notin Seeking
      BY <2>3 DEF InspectBucket, WaitForTimeout, CollectUnclaimed, RecheckBucket, Seeking
    <3> QED
      BY <2>3, <3>1, WorkersBucket
      DEF InspectBucket, WaitForTimeout, CollectUnclaimed, RecheckBucket, Disposal,
          Republishing, WDecide, WGoto, WAt, RepairerLabels
  <2>4. CASE CrashRepairer(w) \/ ReplaceRepairer(w)
    BY <2>4
    DEF CrashRepairer, ReplaceRepairer, RepairerIdle, RepairerRestart, WAt, Seeking,
        RepairerLabels
  <2> QED
    BY <2>1, <2>2, <2>3, <2>4
<1>4. Forward /\ HandedOut' /\ ReadersBehind' /\ RepairersBehind'
  BY <1>1, <1>2, <1>3, RepairerMoveClosed DEF tables, clients, readers
<1>5. ClosedBucketsStayClosed' /\ RepairFollowsReader'
  BY <1>1, <1>4, CloseFrame DEF tables
<1> QED
  BY <1>4, <1>5 DEF CloseInv

\* Republishing keeps closed buckets closed: the copy goes to an index claimed
\* from the monoton like any other.
LEMMA RepublishStepClosed ==
  ASSUME TypeInv, CloseInv, NEW w \in Repairers,
         RepublishClaim(w) \/ RepublishPut(w) \/ RepublishAck(w)
  PROVE  CloseInv'
<1>0. /\ monoton \in Nat /\ readerPtr \in Nat /\ Index \subseteq Nat /\ claims \subseteq Index
      /\ wpc \in [Repairers -> RepairerLabels]
  BY MaxIndexAssumption
  DEF TypeInv, TablesOK, ClientsOK, Index, RepairersTyped, RepairersOK
<1>1. /\ wpc[w] \notin Seeking /\ Closed(wBucket[w]) /\ wBucket[w] <= readerPtr
      /\ UNCHANGED <<tombstones, finalizers, readerPtr, repairPtr, claims, readers>>
  BY WorkersBucket DEF RepublishClaim, RepublishPut, RepublishAck, Seeking, clients
<1>2. Forward
  <2>1. monoton' = monoton \/ monoton' = monoton + 1
    BY DEF RepublishClaim, RepublishPut, RepublishAck
  <2> QED
    BY <1>0, <1>1, <2>1 DEF Forward
<1>3. ClosedBucketsStayClosed' /\ RepairFollowsReader' /\ ReadersBehind'
  BY <1>1, <1>2, CloseFrame DEF readers
<1>4. CASE RepublishClaim(w)
  <2>1. WAt(w, "put", wBucket[w]) /\ wClaim' = [wClaim EXCEPT ![w] = monoton]
        /\ monoton' = monoton + 1 /\ rows' = rows
    BY <1>4, WorkersBucket DEF RepublishClaim, WGoto, WAt
  <2>2. RepairersBehind'
    BY <1>1, <1>2, <2>1, WorkersBucket, WAtBehind
  <2>3. ASSUME NEW v \in Repairers, wpc'[v] = "put" PROVE wClaim'[v] < monoton'
    <3>1. CASE v = w
      BY <1>0, <2>1, <3>1, WorkersBucket
    <3>2. CASE v # w
      <4>1. wpc[v] = "put" /\ wClaim'[v] = wClaim[v]
        BY <1>0, <2>1, <2>3, <3>2, WorkersBucket DEF WAt
      <4>2. wClaim[v] < monoton /\ wClaim[v] \in Nat
        BY <1>0, <4>1 DEF CloseInv, HandedOut, TypeInv, RepairersTyped
      <4> QED
        BY <1>0, <2>1, <4>1, <4>2
    <3> QED
      BY <3>1, <3>2
  <2>4. RowsAreHandedOut' /\ \A i \in claims' : i < monoton'
    BY <1>0, <1>1, <2>1 DEF CloseInv, HandedOut, RowsAreHandedOut
  <2> QED
    BY <1>3, <2>2, <2>3, <2>4 DEF CloseInv, HandedOut
<1>5. CASE RepublishPut(w)
  <2>1. wClaim[w] < monoton /\ monoton' = monoton
    BY <1>5 DEF RepublishPut, CloseInv, HandedOut
  <2>2. \A i \in Index : rows'[i] # Nil => rows[i] # Nil \/ i = wClaim[w]
    BY <1>5 DEF RepublishPut, TypeInv, TablesOK
  <2>3. WAt(w, "ackOriginal", wBucket[w]) \/ WAt(w, "idle", 0)
    BY <1>5, WorkersBucket
    DEF RepublishPut, RepairerIdle, RepairerRestart, WDecide, WGoto, WAt
  <2>4. RepairersBehind'
    BY <1>1, <1>2, <2>3, WorkersBucket, WAtBehind DEF Seeking
  <2>5. \A v \in Repairers : v # w => wClaim'[v] = wClaim[v]
    BY <1>5, WorkersBucket DEF RepublishPut, RepairerIdle, RepairerRestart, WDecide
  <2>6. \A v \in Repairers : wpc'[v] = "put" => v # w /\ wpc[v] = "put"
    BY <1>0, <2>3 DEF WAt
  <2>7. HandedOut'
    BY <1>1, <2>1, <2>2, <2>5, <2>6 DEF CloseInv, HandedOut, RowsAreHandedOut
  <2> QED
    BY <1>3, <2>4, <2>7 DEF CloseInv
<1>6. CASE RepublishAck(w)
  <2>1. PICK L \in {"limit", "claim"} : WAt(w, L, wBucket[w])
    BY <1>6, WorkersBucket DEF RepublishAck, Republishing, WGoto, WAt
  <2>2. \A i \in Index : rows'[i] # Nil => rows[i] # Nil
    BY <1>6 DEF RepublishAck, AckApplies, TypeInv, TablesOK
  <2>3. monoton' = monoton /\ \A v \in Repairers : v # w => wClaim'[v] = wClaim[v]
    BY <1>6, WorkersBucket DEF RepublishAck
  <2> QED
    BY <1>1, <1>3, <2>1, <2>2, <2>3, WorkersBucket, RepairerMoveClosed DEF CloseInv, readers
<1> QED
  BY <1>4, <1>5, <1>6

\* Where advance leads: on to the bucket it returns, or back to the watched one.
LEMMA AdvancedEnds ==
  ASSUME TypeInv, CloseInv, NEW w \in Repairers, wpc[w] \notin Seeking,
         NEW b \in Nat, Advanced(w, b)
  PROVE  /\ \E L \in {"recheck", "tombstone"}, d \in Nat :
              WAt(w, L, d) /\ (L \notin Seeking => Closed(d) /\ d <= readerPtr)
         /\ UNCHANGED wClaim
BY WorkersBucket DEF Advanced, WDecide, WGoto, WAt, Seeking

\* Leaving, deleting and finalizing a bucket keep closed buckets closed.
LEMMA CloseStepClosed ==
  ASSUME TypeInv, CloseInv, NEW w \in Repairers,
         \/ LimitToMonoton(w) \/ AdvanceRepairBucketPointer(w) \/ RereadRepairPointer(w)
         \/ DeleteAllMessages(w) \/ Finalize(w) \/ MarkAsFinalized(w)
  PROVE  CloseInv'
<1> DEFINE b == wBucket[w]
<1>0. /\ monoton \in Nat /\ readerPtr \in Nat /\ repairPtr \in Nat /\ b \in Nat
      /\ wpc[w] \notin Seeking /\ Closed(b) /\ b <= readerPtr
  BY WorkersBucket, MaxIndexAssumption
  DEF TypeInv, TablesOK, Seeking, LimitToMonoton, AdvanceRepairBucketPointer,
      RereadRepairPointer, DeleteAllMessages, Finalize, MarkAsFinalized
<1>1. UNCHANGED <<monoton, readerPtr, claims, rpc, rBucket>>
  BY DEF LimitToMonoton, AdvanceRepairBucketPointer, RereadRepairPointer, DeleteAllMessages,
         Finalize, MarkAsFinalized, RepairerReads, tables, clients, readers
<1>2. \A i \in Index : rows'[i] # Nil => rows[i] # Nil
  BY DEF LimitToMonoton, AdvanceRepairBucketPointer, RereadRepairPointer, DeleteAllMessages,
         Finalize, MarkAsFinalized, RepairerReads, tables
<1>3. /\ \E L \in RepairerLabels \ {"put"}, d \in Nat :
           WAt(w, L, d) /\ (L \notin Seeking => Closed(d) /\ d <= readerPtr)
      /\ \A v \in Repairers : v # w => wClaim'[v] = wClaim[v]
  <2>1. CASE LimitToMonoton(w)
    <3>1. Bucket(monoton) \in Nat
      BY <1>0, BucketBounds
    <3>2. CASE Advanced(w, Bucket(monoton))
      BY <1>0, <3>1, <3>2, AdvancedEnds DEF RepairerLabels
    <3>3. CASE WDecide(w, "advance")
      BY <1>0, <3>3, WorkersBucket DEF WDecide, WGoto, WAt, RepairerLabels
    <3> QED
      BY <2>1, <3>2, <3>3 DEF LimitToMonoton
  <2>2. CASE AdvanceRepairBucketPointer(w)
    <3>1. CASE Advanced(w, b + 1)
      BY <1>0, <3>1, AdvancedEnds DEF RepairerLabels
    <3>2. CASE WDecide(w, "rereadRepair")
      BY <1>0, <3>2, WorkersBucket DEF WDecide, WGoto, WAt, RepairerLabels
    <3> QED
      BY <2>2, <3>1, <3>2 DEF AdvanceRepairBucketPointer
  <2>3. CASE RereadRepairPointer(w)
    BY <1>0, <2>3, AdvancedEnds DEF RereadRepairPointer, RepairerLabels
  <2>4. CASE DeleteAllMessages(w) \/ Finalize(w)
    BY <1>0, <2>4, WorkersBucket
    DEF DeleteAllMessages, Finalize, WDecide, WGoto, WAt, RepairerLabels
  <2>5. CASE MarkAsFinalized(w)
    BY <2>5, WorkersBucket
    DEF MarkAsFinalized, RepairerIdle, RepairerRestart, WAt, Seeking, RepairerLabels
  <2> QED
    BY <2>1, <2>2, <2>3, <2>4, <2>5
<1>4. HandedOut' /\ ReadersBehind' /\ RepairersBehind'
  BY <1>1, <1>2, <1>3, RepairerMoveClosed
<1>5. /\ tombstones' \subseteq tombstones /\ finalizers' \subseteq finalizers \union {b}
      /\ repairPtr' = repairPtr \/ repairPtr' = b + 1
  BY DEF LimitToMonoton, AdvanceRepairBucketPointer, RereadRepairPointer, DeleteAllMessages,
         Finalize, MarkAsFinalized, RepairerReads, tables
<1>6. \A d \in tombstones' \union finalizers' : Closed(d)'
  <2>1. \A d \in tombstones' \union finalizers' : Closed(d)
    BY <1>0, <1>5 DEF CloseInv, ClosedBucketsStayClosed
  <2> QED
    BY <1>1, <2>1 DEF Closed
<1>7. readerPtr' * BucketSize <= monoton' /\ repairPtr' * BucketSize <= monoton'
  BY <1>0, <1>1, <1>5 DEF CloseInv, ClosedBucketsStayClosed, Closed, StartOfNext
<1>8. RepairFollowsReader'
  BY <1>0, <1>1, <1>5 DEF CloseInv, RepairFollowsReader
<1> QED
  BY <1>4, <1>6, <1>7, <1>8 DEF CloseInv, ClosedBucketsStayClosed

\* Every step keeps closed buckets closed.
LEMMA NextClosed == TypeInv /\ CloseInv /\ [Next]_vars => CloseInv'
<1> SUFFICES ASSUME TypeInv, CloseInv, [Next]_vars PROVE CloseInv'
  OBVIOUS
<1>1. CASE ClientStep
  BY <1>1, ClientStepClosed
<1>2. ASSUME NEW r \in Readers, ReaderStep(r) \/ CrashReader(r) \/ ReplaceReader(r)
      PROVE  CloseInv'
  BY <1>2, QuietStepClosed, TombstoneStepClosed DEF ReaderStep, QuietStep
<1>3. ASSUME NEW w \in Repairers, RepairStep(w) \/ CrashRepairer(w) \/ ReplaceRepairer(w)
      PROVE  CloseInv'
  BY <1>3, FindStepClosed, RepublishStepClosed, CloseStepClosed DEF RepairStep
<1>4. CASE UNCHANGED vars
  <2>1. Forward
    BY <1>4, MaxIndexAssumption
    DEF Forward, vars, tables, TypeInv, TablesOK
  <2> QED
    BY <1>4, <2>1, CloseFrame DEF vars, tables, clients, readers, repairers, CloseInv
<1> QED
  BY <1>1, <1>2, <1>3, <1>4 DEF Next

\* No bucket is ever tombstoned, finalized or left behind by the reader or the
\* repair pointer while an index of it could still be handed out, whatever the
\* timing, the crashes and the number of readers and repair workers.
THEOREM ClosedBucketsStayClosedAlways == Spec => []ClosedBucketsStayClosed
<1>1. CloseInv => ClosedBucketsStayClosed
  BY DEF CloseInv
<1> QED
  BY InitTyped, NextTyped, InitClosed, NextClosed, <1>1, PTL DEF Spec

\* The repair pointer never runs more than one bucket ahead of the reader, and
\* no bucket ahead of the reader is tombstoned.
THEOREM RepairFollowsReaderAlways == Spec => []RepairFollowsReader
<1>1. CloseInv => RepairFollowsReader
  BY DEF CloseInv
<1> QED
  BY InitTyped, NextTyped, InitClosed, NextClosed, <1>1, PTL DEF Spec
=============================================================================
