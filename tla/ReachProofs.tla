---------------------------- MODULE ReachProofs ----------------------------
(***************************************************************************)
(* The invisibility pointer of a BucketQueue never skips a message: every  *)
(* bucket behind it is complete and acknowledged, for any number of        *)
(* readers, repair workers and publishers, with or without crashes.  It is *)
(* so when no put lands after the tombstone timeout of its bucket          *)
(* (PutsInTime), and no scan of the pointer outlasts it (ScansInTime).     *)
(***************************************************************************)
EXTENDS AtLeastOnceProofs

-----------------------------------------------------------------------------
(* The invariant.  UnackedWithinReach is not inductive: a reader sets the    *)
(* pointer to a place it decided on in earlier statements, from a pointer it *)
(* read before those; what it remembers must be within reach all the while.  *)

\* All that was put into the bucket is acknowledged, and nothing will be put any more.
Settled(b) == Complete(b) /\ AllAcked(b)

\* A pointer at p has only settled buckets behind it.
Behind(p) == \A b \in Nat : b < InvisBucket(p) => Settled(b)

\* The repair worker is done waiting for late puts into its bucket, or had not to.
PastWait(w) == wpc[w] \notin {"idle", "tombstone", "inspect", "wait", "down"}

\* No repair worker is done waiting for the bucket, and none has finalized it.
Unwaited(b) == b \notin finalizers /\ \A w \in Repairers : wBucket[w] = b => ~PastWait(w)

FinalizedComplete ==
  /\ \A b \in finalizers : Complete(b)
  /\ \A w \in Repairers, b \in Nat : PastWait(w) /\ wBucket[w] = b => Complete(b)

\* The reader remembers only places the pointer may move to.
Remembers(r) ==
  /\ Behind(rPtr[r]) /\ Behind(rDest[r])
  /\ \A i \in Index :
       rMsg[r] # Nil /\ rMsg[r].source = "InvisStrategy" /\ rMsg[r].index = i => Behind(i)
  /\ rpc[r] = "track" => rMsg[r].source = "InvisStrategy"

\* Between its two reads of a bucket a reader may take a finalizer for an answer:
\* no finalizer appears there that was not due before the first of them.
ScanSure(r) ==
  rpc[r] = "finalized" =>
    \A b \in Nat : b = InvisBucket(rPtr[r]) => Settled(b) \/ Unwaited(b)

ReachInv ==
  /\ FinalizedComplete /\ Behind(invisPtr)
  /\ \A r \in Readers : Remembers(r) /\ ScanSure(r)

\* The empty queue has no bucket behind its pointer.
LEMMA Origin == Behind(-1) /\ Behind(0)
BY DEF Behind, InvisBucket

LEMMA InitReaches == Init => ReachInv
BY Origin DEF Init, ReachInv, FinalizedComplete, PastWait, Remembers, ScanSure

-----------------------------------------------------------------------------
(* Buckets and pointers *)

LEMMA InvisBucketTyped ==
  ASSUME NEW p \in Nat \union {-1}
  PROVE  InvisBucket(p) \in Nat
BY BucketBounds DEF InvisBucket

\* What is settled stays settled, and what is behind a place stays behind it.
LEMMA SettledStays ==
  ASSUME TypeInv, Evolves, NEW b \in Nat, Settled(b)
  PROVE  Settled(b)'
BY CompleteStays DEF Settled

LEMMA BehindStays ==
  ASSUME TypeInv, Evolves, NEW p, Behind(p)
  PROVE  Behind(p)'
BY SettledStays DEF Behind

\* A message of the bucket under a pointer is as far as the pointer.
LEMMA BehindInBucket ==
  ASSUME NEW p \in Nat \union {-1}, Behind(p), NEW i \in Nat, Bucket(i) = InvisBucket(p)
  PROVE  Behind(i)
<1>1. InvisBucket(i) = 0 \/ InvisBucket(i) = InvisBucket(p)
  BY DEF InvisBucket
<1> QED
  BY <1>1 DEF Behind

\* The pointer may go on to the next bucket when its own is settled.
LEMMA BehindNextBucket ==
  ASSUME NEW p \in Nat \union {-1}, Behind(p), NEW b \in Nat, b = InvisBucket(p), Settled(b)
  PROVE  StartOfNext(b) \in Nat /\ Behind(StartOfNext(b))
<1> DEFINE m == StartOfNext(b)
<1>1. m \in Nat /\ m = (b + 1) * BucketSize /\ BucketSize \in Nat \ {0}
  BY BucketSizeAssumption DEF StartOfNext
<1>2. Bucket(m) \in Nat /\ Bucket(m) * BucketSize <= m
  BY <1>1, BucketBounds
<1> HIDE DEF m
<1>3. Bucket(m) <= b + 1
  <2> SUFFICES ASSUME b + 2 <= Bucket(m) PROVE FALSE
    BY <1>2
  <2>1. (b + 2) * BucketSize <= Bucket(m) * BucketSize
    BY <1>1, <1>2, ProductMonotone
  <2>2. (b + 2) * BucketSize = (b + 1) * BucketSize + BucketSize
    BY <1>1
  <2>3. (b + 2) * BucketSize \in Nat /\ Bucket(m) * BucketSize \in Nat /\ (b + 1) * BucketSize \in Nat
    BY <1>1, <1>2
  <2> QED
    BY <1>1, <1>2, <2>1, <2>2, <2>3
<1>4. InvisBucket(m) \in Nat /\ InvisBucket(m) <= b + 1
  BY <1>1, <1>2, <1>3 DEF InvisBucket
<1>5. Behind(m)
  BY <1>4 DEF Behind
<1> QED
  BY <1>1, <1>5 DEF m

\* A bucket with an acknowledged row at every index is settled.
LEMMA FullIsSettled ==
  ASSUME TypeInv, CloseInv, KeepInv, NEW b \in Nat, Full(b), AllAcked(b)
  PROVE  Settled(b)
<1>1. Closed(b)
  BY FullBucketIsClosed, Numbers DEF TypeInv, TablesOK, CloseInv, HandedOut
<1> QED
  BY <1>1, FullIsComplete DEF Settled

-----------------------------------------------------------------------------
(* Finalizers and the wait of the repair workers *)

\* Only a repair worker that is past the wait finalizes its bucket.
LEMMA FinalizersComeLate ==
  ASSUME TypeInv, [Next]_vars, NEW b \in finalizers', b \notin finalizers
  PROVE  \E w \in Repairers : wBucket[w] = b /\ PastWait(w)
<1>1. CASE ClientStep
  BY <1>1 DEF ClientStep, NextMonotonic, PutMessage, AbandonClaim, Expire, AckMessage, tables
<1>2. ASSUME NEW r \in Readers, ReaderStep(r) \/ CrashReader(r) \/ ReplaceReader(r)
      PROVE  finalizers' = finalizers
  BY <1>2 DEF ReaderStep, NextMessage, GetCurrentInvisPointer, ProcessCurrentInvisPointer,
    ProcessBucket, FinalizedExists, MoveInvisBack, MoveInvisOn, RereadInvisPointer,
    DeadLetter, AckDead, RawConsume, TrackConsumed, Respond, GetReaderCurrentBucket,
    GetAndMark, MonotonPastBucket, Tombstone, AdvanceMessageBucketPointer,
    CrashReader, ReplaceReader, ReaderReads, OnlyInvisPointer, OnlyRows, tables
<1>3. ASSUME NEW w \in Repairers, RepairStep(w) \/ CrashRepairer(w) \/ ReplaceRepairer(w)
      PROVE  wBucket[w] = b /\ PastWait(w)
  <2>1. CASE Finalize(w) \/ MarkAsFinalized(w)
    BY <2>1 DEF Finalize, MarkAsFinalized, PastWait
  <2>2. CASE DeleteAllMessages(w)
    BY <2>2 DEF DeleteAllMessages
  <2>3. CASE ~(Finalize(w) \/ MarkAsFinalized(w) \/ DeleteAllMessages(w))
    BY <1>3, <2>3 DEF RepairStep, Process, TombstoneExists, InspectBucket, WaitForTimeout,
      CollectUnclaimed, RepublishClaim, RepublishPut, RepublishAck, LimitToMonoton,
      AdvanceRepairBucketPointer, RereadRepairPointer, RecheckBucket,
      CrashRepairer, ReplaceRepairer, RepairerReads, tables
  <2> QED
    BY <2>1, <2>2, <2>3
<1>4. CASE UNCHANGED vars
  BY <1>4 DEF vars, tables
<1> QED
  BY <1>1, <1>2, <1>3, <1>4 DEF Next

\* A worker comes past the wait for a bucket by waiting, or without it when the
\* bucket is full and acknowledged (findFirstBucketToMonitor).
Admitted(w, b) ==
  \/ PastWait(w) /\ wBucket[w] = b
  \/ Full(b) /\ AllAcked(b)
  \/ WaitForTimeout(w) /\ wBucket[w] = b /\ Waited(w)'

LEMMA RepairerAdmitted ==
  ASSUME TypeInv, NEW w \in Repairers, RepairStep(w) \/ CrashRepairer(w) \/ ReplaceRepairer(w),
         PastWait(w)', NEW b \in Nat, wBucket'[w] = b
  PROVE  Admitted(w, b)
<1> USE DEF TypeInv, RepairersTyped, RepairersOK, WDecide, WGoto, PastWait
<1>1. CASE Process(w) \/ TombstoneExists(w) \/ CrashRepairer(w) \/ ReplaceRepairer(w) \/ MarkAsFinalized(w)
  BY <1>1 DEF Process, TombstoneExists, CrashRepairer, ReplaceRepairer, MarkAsFinalized,
    RepairerIdle, RepairerRestart
<1>2. CASE InspectBucket(w)
  BY <1>2 DEF InspectBucket, Admitted
<1>3. CASE WaitForTimeout(w)
  BY <1>3 DEF WaitForTimeout, Admitted, Waited
<1>4. CASE CollectUnclaimed(w) \/ RepublishClaim(w) \/ RepublishPut(w) \/ RepublishAck(w)
  BY <1>4 DEF CollectUnclaimed, RepublishClaim, RepublishPut, RepublishAck, RepairerIdle,
    RepairerRestart, Admitted
<1>5. CASE LimitToMonoton(w) \/ AdvanceRepairBucketPointer(w) \/ RereadRepairPointer(w)
  BY <1>5 DEF LimitToMonoton, AdvanceRepairBucketPointer, RereadRepairPointer, Advanced, Admitted
<1>6. CASE RecheckBucket(w) \/ DeleteAllMessages(w) \/ Finalize(w)
  BY <1>6 DEF RecheckBucket, DeleteAllMessages, Finalize, Admitted
<1> QED
  BY <1>1, <1>2, <1>3, <1>4, <1>5, <1>6 DEF RepairStep

LEMMA NextAdmits ==
  ASSUME TypeInv, [Next]_vars, NEW v \in Repairers, PastWait(v)', NEW b \in Nat, wBucket'[v] = b
  PROVE  Admitted(v, b)
<1>1. Same(v) => Admitted(v, b)
  BY DEF Same, Admitted, PastWait
<1>2. ASSUME NEW w \in Repairers, RepairStep(w) \/ CrashRepairer(w) \/ ReplaceRepairer(w)
      PROVE  Admitted(v, b)
  BY <1>1, <1>2, RepairerAdmitted, RepairStepsAlone
<1>3. CASE \A w \in Repairers : ~(RepairStep(w) \/ CrashRepairer(w) \/ ReplaceRepairer(w))
  BY <1>1, <1>3, OthersLeaveRepairers DEF repairers, Same
<1> QED
  BY <1>2, <1>3

\* A bucket is finalized only when nothing will be put into it any more.
LEMMA FinalizedStaysComplete ==
  ASSUME TypeInv, TypeInv', CloseInv, KeepInv, KeepInv', FinalizedComplete, [Next]_vars, Evolves
  PROVE  FinalizedComplete'
<1>1. ASSUME NEW b \in finalizers' PROVE Complete(b)'
  <2>1. b \in Nat
    BY DEF TypeInv, TablesOK
  <2>2. Complete(b)
    BY <2>1, FinalizersComeLate DEF FinalizedComplete
  <2> QED
    BY <2>1, <2>2, CompleteStays
<1>2. ASSUME NEW w \in Repairers, NEW b \in Nat, PastWait(w)', wBucket'[w] = b PROVE Complete(b)'
  <2>1. Admitted(w, b)
    BY <1>2, NextAdmits
  <2>2. CASE PastWait(w) /\ wBucket[w] = b
    BY <2>2, CompleteStays DEF FinalizedComplete
  <2>3. CASE Full(b) /\ AllAcked(b)
    BY <2>3, FullIsSettled, CompleteStays DEF Settled
  <2>4. CASE Waited(w)'
    BY <1>2, <2>4 DEF KeepInv, DeletersSure, DeleterSure
  <2> QED
    BY <2>1, <2>2, <2>3, <2>4 DEF Admitted
<1> QED
  BY <1>1, <1>2 DEF FinalizedComplete

\* What keeps a scan sure: its bucket is settled, or is still waited for, as no
\* worker's wait ends while the scan goes on.
LEMMA ScanStaysSure ==
  ASSUME ScansInTime, TypeInv, CloseInv, KeepInv, [Next]_vars, Evolves,
         NEW r \in Readers, rpc[r] = "finalized", ScanSure(r),
         NEW b \in Nat, b = InvisBucket(rPtr[r])
  PROVE  Settled(b)' \/ Unwaited(b)'
<1>1. CASE Settled(b)
  BY <1>1, SettledStays
<1>2. CASE Unwaited(b) /\ ~Settled(b)
  <2>1. b \notin finalizers'
    BY <1>2, FinalizersComeLate DEF Unwaited
  <2>2. ASSUME NEW w \in Repairers, wBucket'[w] = b, PastWait(w)' PROVE FALSE
    <3>1. Admitted(w, b)
      BY <2>2, NextAdmits
    <3>2. ~(PastWait(w) /\ wBucket[w] = b)
      BY <1>2 DEF Unwaited
    <3>3. ~(Full(b) /\ AllAcked(b))
      BY <1>2, FullIsSettled
    <3>4. ~(WaitForTimeout(w) /\ wBucket[w] = b)
      BY DEF WaitForTimeout
    <3> QED
      BY <3>1, <3>2, <3>3, <3>4 DEF Admitted
  <2> QED
    BY <2>1, <2>2 DEF Unwaited
<1> QED
  BY <1>1, <1>2 DEF ScanSure

-----------------------------------------------------------------------------
(* Where the readers may move the pointer *)

\* What a reader remembers after a step of its own was within reach before it.
Places(r) ==
  /\ \A p : p = rPtr'[r] \/ p = rDest'[r] => Behind(p)
  /\ \A i \in Index :
       rMsg'[r] # Nil /\ rMsg'[r].source = "InvisStrategy" /\ rMsg'[r].index = i => Behind(i)
  /\ rpc'[r] = "track" => rMsg'[r].source = "InvisStrategy"

LEMMA ReaderPlaces ==
  ASSUME TypeInv, NEW r \in Readers, Remembers(r)
  PROVE  /\ \A L \in ReaderLabels : L # "track" /\ (Restart(r, L) \/ Decide(r, L)) => Places(r)
         /\ GetNext(r) \/ ReaderIdle(r) \/ Missed(r) => Places(r)
         /\ \A i \in Index : Take(r, i, "Reader") => Places(r)
         /\ \A i \in Index : Behind(i) /\ Take(r, i, "InvisStrategy") => Places(r)
         /\ \A dest, then : Behind(dest) /\ MoveInvisTo(r, dest, then) => Places(r)
         /\ \A p : Behind(p) /\ Moved(r, p) => Places(r)
<1> USE DEF Remembers, Places
<1>0. /\ rpc \in [Readers -> ReaderLabels] /\ rMsg \in [Readers -> Snapshot \union {Nil}]
      /\ rPtr \in [Readers -> Nat \union {-1}] /\ rDest \in [Readers -> Nat]
      /\ rThen \in [Readers -> {"idle", "atPointer", "readerBucket", "respond"}]
  BY DEF TypeInv, ReadersTyped, ReadersOK
<1>1. ASSUME NEW L \in ReaderLabels, L # "track", Restart(r, L) PROVE Places(r)
  BY <1>0, <1>1, Origin DEF Restart
<1>2. ASSUME NEW L \in ReaderLabels, L # "track", Decide(r, L) PROVE Places(r)
  BY <1>0, <1>2 DEF Decide, Goto
<1>3. GetNext(r) \/ ReaderIdle(r) => Places(r)
  BY <1>1 DEF GetNext, ReaderIdle, ReaderLabels
<1>4. Missed(r) => Places(r)
  BY <1>0, <1>3 DEF Missed, Goto
<1>5. ASSUME NEW i \in Index, NEW source \in {"Reader", "InvisStrategy"},
             source = "InvisStrategy" => Behind(i), Take(r, i, source)
      PROVE  Places(r)
  <2>1. rPtr'[r] = -1 /\ rDest'[r] = rDest[r] /\ rpc'[r] = "consume"
    BY <1>0, <1>5 DEF Take, Goto
  <2>2. rMsg'[r].source = source /\ rMsg'[r].index = i
    BY <1>0, <1>5 DEF Take
  <2> QED
    BY <1>5, <2>1, <2>2, Origin
<1>6. ASSUME NEW dest, NEW then, Behind(dest), MoveInvisTo(r, dest, then) PROVE Places(r)
  BY <1>0, <1>6 DEF MoveInvisTo, Goto
<1>7. ASSUME NEW p, Behind(p), Moved(r, p) PROVE Places(r)
  BY <1>0, <1>7, Origin DEF Moved, Goto
<1> QED
  BY <1>1, <1>2, <1>3, <1>4, <1>5, <1>6, <1>7

\* The reads of the strategy stop at a message, or go on past a settled bucket.
LEMMA ScanPlaces ==
  ASSUME TypeInv, CloseInv, KeepInv, ReachInv, NEW r \in Readers,
         ProcessCurrentInvisPointer(r) \/ ProcessBucket(r) \/ FinalizedExists(r)
  PROVE  Places(r)
<1>0. Remembers(r) /\ ScanSure(r)
  BY DEF ReachInv
<1>1. PICK p \in Nat \union {-1} : p = rPtr[r]
  BY DEF TypeInv, ReadersTyped, ReadersOK
<1>2. PICK b \in Nat : b = InvisBucket(p)
  BY InvisBucketTyped
<1>3. Behind(p)
  BY <1>0, <1>1 DEF Remembers
<1>4. ASSUME NEW i \in Messages(b) PROVE i \in Index /\ i \in Nat /\ Behind(i)
  <2>1. i \in Index /\ i \in Nat /\ Bucket(i) = b
    BY <1>4, MaxIndexAssumption DEF Messages, IndicesOf, Index
  <2> QED
    BY <1>2, <1>3, <2>1, BehindInBucket
<1>5. ASSUME Settled(b), TryAdvanceToNextBucket(r, b) PROVE Places(r)
  <2>1. Behind(StartOfNext(b))
    BY <1>2, <1>3, <1>5, BehindNextBucket
  <2> QED
    BY <1>0, <1>5, <2>1, ReaderPlaces DEF TryAdvanceToNextBucket
<1>6. ASSUME NEW L \in {"scan", "finalized"}, Decide(r, L) PROVE Places(r)
  BY <1>0, <1>6, ReaderPlaces DEF ReaderLabels
<1>7. CASE ProcessCurrentInvisPointer(r)
  <2>1. ASSUME p \in Index, Take(r, p, "InvisStrategy") PROVE Places(r)
    BY <1>0, <1>3, <2>1, ReaderPlaces
  <2> QED
    BY <1>0, <1>1, <1>6, <1>7, <2>1, ReaderPlaces DEF ProcessCurrentInvisPointer
<1>8. CASE ProcessBucket(r)
  <2>1. ASSUME NEW i \in First(Available(b)), Take(r, i, "InvisStrategy") PROVE Places(r)
    BY <1>0, <1>4, <2>1, ReaderPlaces DEF First, Available
  <2>2. ASSUME NEW i \in First(Invisible(b)) \union First(NeverDelivered(b)),
               MoveInvisTo(r, i, "readerBucket")
        PROVE  Places(r)
    BY <1>0, <1>4, <2>2, ReaderPlaces DEF First, Invisible, NeverDelivered
  <2>3. AllAcked(b) /\ Full(b) => Settled(b)
    BY FullIsSettled
  <2>4. GetNext(r) => Places(r)
    BY <1>0, ReaderPlaces
  <2> QED
    BY <1>1, <1>2, <1>5, <1>6, <1>8, <2>1, <2>2, <2>3, <2>4 DEF ProcessBucket
<1>9. CASE FinalizedExists(r)
  <2>1. b \in finalizers => Settled(b)
    BY <1>0, <1>1, <1>2, <1>9 DEF FinalizedExists, ScanSure, Unwaited
  <2> QED
    BY <1>0, <1>1, <1>2, <1>5, <1>9, <2>1, ReaderPlaces DEF FinalizedExists
<1> QED
  BY <1>7, <1>8, <1>9

LEMMA ReaderRemembersPlaces ==
  ASSUME TypeInv, CloseInv, KeepInv, ReachInv, NEW r \in Readers,
         ReaderStep(r) \/ CrashReader(r) \/ ReplaceReader(r)
  PROVE  Places(r)
<1> USE DEF ReaderLabels
<1>0. /\ rpc \in [Readers -> ReaderLabels] /\ rMsg \in [Readers -> Snapshot \union {Nil}]
      /\ rPtr \in [Readers -> Nat \union {-1}] /\ rDest \in [Readers -> Nat]
  BY DEF TypeInv, ReadersTyped, ReadersOK
<1>1. Remembers(r) /\ Behind(invisPtr)
  BY DEF ReachInv
<1>2. CASE NextMessage(r) \/ GetCurrentInvisPointer(r) \/ GetReaderCurrentBucket(r)
           \/ AdvanceMessageBucketPointer(r)
  BY <1>0, <1>1, <1>2 DEF NextMessage, GetCurrentInvisPointer, GetReaderCurrentBucket,
    AdvanceMessageBucketPointer, Goto, Places, Remembers
<1>3. CASE ProcessCurrentInvisPointer(r) \/ ProcessBucket(r) \/ FinalizedExists(r)
  BY <1>3, ScanPlaces
<1>4. CASE MoveInvisBack(r) \/ MoveInvisOn(r) \/ RereadInvisPointer(r)
  <2>1. Behind(rDest[r])
    BY <1>1 DEF Remembers
  <2> QED
    BY <1>1, <1>4, <2>1, ReaderPlaces DEF MoveInvisBack, MoveInvisOn, RereadInvisPointer
<1>5. CASE TrackConsumed(r)
  <2>1. rMsg[r] \in Snapshot /\ rMsg[r].source = "InvisStrategy"
    BY <1>1, <1>5 DEF TrackConsumed, TypeInv, ReadersTyped, Holding, Remembers
  <2>2. PICK i \in Index : i = rMsg[r].index
    BY <2>1 DEF Snapshot
  <2>3. Behind(i)
    BY <1>1, <2>1, <2>2, NilAssumption DEF Remembers
  <2>4. rPtr'[r] = invisPtr /\ rDest'[r] = i /\ rMsg'[r] = rMsg[r] /\ rpc'[r] = "moveBack"
    BY <1>0, <1>5, <2>2 DEF TrackConsumed, Goto
  <2> QED
    BY <1>1, <2>3, <2>4 DEF Places, Remembers
<1>6. CASE RawConsume(r)
  <2>1. rMsg[r] \in Snapshot
    BY <1>6 DEF RawConsume, TypeInv, ReadersTyped, Holding
  <2>2. ASSUME Decide(r, IF rMsg[r].source = "Reader" THEN "respond" ELSE "track") PROVE Places(r)
    <3>1. CASE rMsg[r].source = "Reader"
      BY <1>1, <2>2, <3>1, ReaderPlaces
    <3>2. CASE rMsg[r].source = "InvisStrategy"
      BY <1>0, <1>1, <2>2, <3>2 DEF Decide, Goto, Places, Remembers
    <3> QED
      BY <2>1, <3>1, <3>2 DEF Snapshot
  <2> QED
    BY <1>1, <1>6, <2>2, ReaderPlaces DEF RawConsume
<1>7. CASE GetAndMark(r)
  <2>1. ASSUME NEW i \in Index, Take(r, i, "Reader") PROVE Places(r)
    BY <1>1, <2>1, ReaderPlaces
  <2>2. CASE Decide(r, "tombstone") \/ Decide(r, "monoton")
    BY <1>1, <2>2, ReaderPlaces
  <2> QED
    BY <1>7, <2>1, <2>2 DEF GetAndMark, First, Available, Messages, IndicesOf
<1>8. CASE DeadLetter(r) \/ AckDead(r) \/ Respond(r) \/ MonotonPastBucket(r) \/ Tombstone(r)
           \/ CrashReader(r) \/ ReplaceReader(r)
  BY <1>1, <1>8, ReaderPlaces DEF DeadLetter, AckDead, Respond, MonotonPastBucket, Tombstone,
    CrashReader, ReplaceReader
<1> QED
  BY <1>2, <1>3, <1>4, <1>5, <1>6, <1>7, <1>8 DEF ReaderStep

\* A step of a reader leaves the places of the other readers alone.
LEMMA PlacesAlone ==
  ASSUME TypeInv, NEW r \in Readers, ReaderStep(r) \/ CrashReader(r) \/ ReplaceReader(r),
         NEW q \in Readers, q # r
  PROVE  rPtr'[q] = rPtr[q] /\ rDest'[q] = rDest[q]
<1> USE DEF TypeInv, ReadersTyped, ReadersOK
<1>1. CASE NextMessage(r) \/ GetCurrentInvisPointer(r) \/ ProcessCurrentInvisPointer(r)
           \/ ProcessBucket(r) \/ FinalizedExists(r)
  BY <1>1 DEF NextMessage, GetCurrentInvisPointer, ProcessCurrentInvisPointer, ProcessBucket,
    FinalizedExists, Goto, Decide, Take, GetNext, Restart, MoveInvisTo, TryAdvanceToNextBucket
<1>2. CASE MoveInvisBack(r) \/ MoveInvisOn(r) \/ RereadInvisPointer(r)
  BY <1>2 DEF MoveInvisBack, MoveInvisOn, RereadInvisPointer, Moved, Goto, Decide
<1>3. CASE DeadLetter(r) \/ AckDead(r) \/ RawConsume(r) \/ TrackConsumed(r) \/ Respond(r)
  BY <1>3 DEF DeadLetter, AckDead, RawConsume, TrackConsumed, Respond, Missed, Goto, Decide,
    GetNext, ReaderIdle, Restart
<1>4. CASE GetReaderCurrentBucket(r) \/ GetAndMark(r) \/ MonotonPastBucket(r) \/ Tombstone(r)
           \/ AdvanceMessageBucketPointer(r) \/ CrashReader(r) \/ ReplaceReader(r)
  BY <1>4 DEF GetReaderCurrentBucket, GetAndMark, MonotonPastBucket, Tombstone,
    AdvanceMessageBucketPointer, CrashReader, ReplaceReader, Take, Goto, Decide, ReaderIdle, Restart
<1> QED
  BY <1>1, <1>2, <1>3, <1>4 DEF ReaderStep

\* A reader that does not step remembers what it did.
LEMMA OthersPlaces ==
  ASSUME ReachInv, NEW q \in Readers, rpc'[q] = rpc[q], rMsg'[q] = rMsg[q],
         rPtr'[q] = rPtr[q], rDest'[q] = rDest[q]
  PROVE  Places(q)
BY DEF Places, ReachInv, Remembers

LEMMA NextPlaces ==
  ASSUME TypeInv, CloseInv, KeepInv, ReachInv, [Next]_vars, NEW q \in Readers
  PROVE  Places(q)
<1>1. ASSUME NEW r \in Readers, ReaderStep(r) \/ CrashReader(r) \/ ReplaceReader(r)
      PROVE  Places(q)
  <2>1. CASE q = r
    BY <1>1, <2>1, ReaderRemembersPlaces
  <2>2. CASE q # r
    BY <1>1, <2>2, ReaderStepsAlone, PlacesAlone, OthersPlaces
  <2> QED
    BY <2>1, <2>2
<1>2. CASE \A r \in Readers : ~(ReaderStep(r) \/ CrashReader(r) \/ ReplaceReader(r))
  BY <1>2, OthersLeaveReaders, OthersPlaces DEF readers
<1> QED
  BY <1>1, <1>2

\* The pointer moves only to what a reader remembers.
LEMMA PointerMoves ==
  ASSUME [Next]_vars
  PROVE  invisPtr' = invisPtr \/ \E r \in Readers : invisPtr' = rDest[r]
<1>1. CASE ClientStep
  BY <1>1 DEF ClientStep, NextMonotonic, PutMessage, AbandonClaim, Expire, AckMessage, tables
<1>2. ASSUME NEW r \in Readers, ReaderStep(r) \/ CrashReader(r) \/ ReplaceReader(r)
      PROVE  invisPtr' = invisPtr \/ invisPtr' = rDest[r]
  BY <1>2 DEF ReaderStep, NextMessage, GetCurrentInvisPointer, ProcessCurrentInvisPointer,
    ProcessBucket, FinalizedExists, MoveInvisBack, MoveInvisOn, RereadInvisPointer,
    DeadLetter, AckDead, RawConsume, TrackConsumed, Respond, GetReaderCurrentBucket,
    GetAndMark, MonotonPastBucket, Tombstone, AdvanceMessageBucketPointer,
    CrashReader, ReplaceReader, ReaderReads, OnlyRows, tables
<1>3. ASSUME NEW w \in Repairers, RepairStep(w) \/ CrashRepairer(w) \/ ReplaceRepairer(w)
      PROVE  invisPtr' = invisPtr
  BY <1>3 DEF RepairStep, Process, TombstoneExists, InspectBucket, WaitForTimeout, CollectUnclaimed,
    RepublishClaim, RepublishPut, RepublishAck, LimitToMonoton, AdvanceRepairBucketPointer,
    RereadRepairPointer, RecheckBucket, DeleteAllMessages, Finalize, MarkAsFinalized,
    CrashRepairer, ReplaceRepairer, RepairerReads, tables
<1>4. CASE UNCHANGED vars
  BY <1>4 DEF vars, tables
<1> QED
  BY <1>1, <1>2, <1>3, <1>4 DEF Next

\* A scan goes from the first read of a bucket to the second in ProcessBucket only,
\* where it found nothing that was not acknowledged.
LEMMA ScanBegins ==
  ASSUME TypeInv, [Next]_vars, NEW r \in Readers, rpc'[r] = "finalized"
  PROVE  /\ rPtr'[r] = rPtr[r]
         /\ \/ rpc[r] = "finalized"
            \/ AllAcked(InvisBucket(rPtr[r])) /\ UNCHANGED <<tables, clients, repairers>>
<1> USE DEF TypeInv, ReadersTyped, ReadersOK
<1>1. CASE ProcessBucket(r)
  <2>1. Decide(r, "finalized")
    BY <1>1 DEF ProcessBucket, Take, Goto, GetNext, Restart, MoveInvisTo, TryAdvanceToNextBucket, Decide
  <2>2. AllAcked(InvisBucket(rPtr[r]))
    BY <1>1 DEF ProcessBucket, AllAcked, Take, Goto, GetNext, Restart, MoveInvisTo,
      TryAdvanceToNextBucket, Decide
  <2> QED
    BY <1>1, <2>1, <2>2 DEF ProcessBucket, Decide, ReaderReads
<1>2. CASE NextMessage(r) \/ GetCurrentInvisPointer(r) \/ ProcessCurrentInvisPointer(r) \/ FinalizedExists(r)
  BY <1>2 DEF NextMessage, GetCurrentInvisPointer, ProcessCurrentInvisPointer, FinalizedExists,
    Goto, Decide, Take, GetNext, Restart, MoveInvisTo, TryAdvanceToNextBucket
<1>3. CASE MoveInvisBack(r) \/ MoveInvisOn(r) \/ RereadInvisPointer(r)
  BY <1>3 DEF MoveInvisBack, MoveInvisOn, RereadInvisPointer, Moved, Goto, Decide
<1>4. CASE DeadLetter(r) \/ AckDead(r) \/ RawConsume(r) \/ TrackConsumed(r) \/ Respond(r)
  BY <1>4 DEF DeadLetter, AckDead, RawConsume, TrackConsumed, Respond, Missed, Goto, Decide,
    GetNext, ReaderIdle, Restart
<1>5. CASE GetReaderCurrentBucket(r) \/ GetAndMark(r) \/ MonotonPastBucket(r) \/ Tombstone(r)
           \/ AdvanceMessageBucketPointer(r) \/ CrashReader(r) \/ ReplaceReader(r)
  BY <1>5 DEF GetReaderCurrentBucket, GetAndMark, MonotonPastBucket, Tombstone,
    AdvanceMessageBucketPointer, CrashReader, ReplaceReader, Take, Goto, Decide, ReaderIdle, Restart
<1>6. CASE ~(ReaderStep(r) \/ CrashReader(r) \/ ReplaceReader(r))
  <2>1. ASSUME NEW q \in Readers, ReaderStep(q) \/ CrashReader(q) \/ ReplaceReader(q)
        PROVE  rpc'[r] = rpc[r] /\ rPtr'[r] = rPtr[r]
    BY <1>6, <2>1, ReaderStepsAlone, PlacesAlone
  <2>2. CASE \A q \in Readers : ~(ReaderStep(q) \/ CrashReader(q) \/ ReplaceReader(q))
    BY <2>2, OthersLeaveReaders DEF readers
  <2> QED
    BY <2>1, <2>2
<1> QED
  BY <1>1, <1>2, <1>3, <1>4, <1>5, <1>6 DEF ReaderStep

-----------------------------------------------------------------------------
(* The theorem *)

LEMMA NextReaches ==
  ASSUME PutsInTime, ScansInTime, TypeInv, TypeInv', CloseInv, KeepInv, KeepInv', ReachInv, [Next]_vars
  PROVE  ReachInv'
<1>1. Evolves
  BY NextEvolves
<1>2. FinalizedComplete'
  BY <1>1, FinalizedStaysComplete DEF ReachInv
<1>3. Behind(invisPtr)'
  <2>1. PICK p \in Nat \union {-1} : p = invisPtr'
    BY DEF TypeInv, TablesOK
  <2>2. Behind(p)
    BY <2>1, PointerMoves DEF ReachInv, Remembers
  <2>3. Behind(p)'
    BY <1>1, <2>2, BehindStays
  <2> QED
    BY <2>1, <2>3
<1>4. ASSUME NEW r \in Readers PROVE Remembers(r)'
  <2>1. Places(r)
    BY NextPlaces
  <2>2. PICK p, d : p = rPtr'[r] /\ d = rDest'[r]
    OBVIOUS
  <2>3. Behind(p) /\ Behind(d)
    BY <2>1, <2>2 DEF Places
  <2>4. Behind(p)' /\ Behind(d)'
    BY <1>1, <2>3, BehindStays
  <2>5. Behind(rPtr[r])' /\ Behind(rDest[r])'
    BY <2>2, <2>4
  <2>6. ASSUME NEW i \in Index, Behind(i) PROVE Behind(i)'
    BY <1>1, <2>6, BehindStays
  <2> QED
    BY <2>1, <2>5, <2>6 DEF Places, Remembers
<1>5. ASSUME NEW r \in Readers PROVE ScanSure(r)'
  <2> SUFFICES ASSUME rpc'[r] = "finalized", NEW b \in Nat, b = InvisBucket(rPtr'[r])
               PROVE  Settled(b)' \/ Unwaited(b)'
    BY DEF ScanSure
  <2>1. b = InvisBucket(rPtr[r])
    BY ScanBegins
  <2>2. CASE rpc[r] = "finalized"
    BY <1>1, <2>1, <2>2, ScanStaysSure DEF ReachInv
  <2>3. CASE AllAcked(b) /\ UNCHANGED <<tables, clients, repairers>>
    <3>1. CASE Complete(b)
      BY <1>1, <2>3, <3>1, SettledStays DEF Settled
    <3>2. CASE ~Complete(b)
      <4>1. Unwaited(b)
        BY <3>2 DEF ReachInv, FinalizedComplete, Unwaited
      <4> QED
        BY <2>3, <4>1 DEF Unwaited, PastWait, tables, repairers
    <3> QED
      BY <3>1, <3>2
  <2> QED
    BY <2>1, <2>2, <2>3, ScanBegins
<1> QED
  BY <1>2, <1>3, <1>4, <1>5 DEF ReachInv

LEMMA ReachSuffices ==
  ASSUME TypeInv, ReachInv
  PROVE  UnackedWithinReach
<1>1. ASSUME NEW i \in Index, Unacked(i), Bucket(i) < InvisBucket(invisPtr) PROVE FALSE
  <2>1. PICK b \in Nat : b = Bucket(i)
    BY BucketBounds, MaxIndexAssumption DEF Index
  <2>2. AllAcked(b)
    BY <1>1, <2>1 DEF ReachInv, Behind, Settled
  <2> QED
    BY <1>1, <2>1, <2>2 DEF AllAcked, Messages, IndicesOf, Unacked
<1>2. ASSUME NEW i \in Index PROVE Bucket(i) \in Nat /\ InvisBucket(invisPtr) \in Nat
  <2>1. i \in Nat /\ invisPtr \in Nat \union {-1}
    BY MaxIndexAssumption DEF Index, TypeInv, TablesOK
  <2> QED
    BY <2>1, BucketBounds, InvisBucketTyped
<1> QED
  BY <1>1, <1>2 DEF UnackedWithinReach

\* A message nobody acknowledged is never left behind both pointers: the readers move
\* the invisibility pointer, back to what they consumed or on past a finalized bucket,
\* only to places behind which all is acknowledged, whatever the other readers and the
\* repair workers do between the statements that read and set it.
THEOREM UnackedWithinReachAlways ==
  ASSUME PutsInTime, ScansInTime PROVE Spec => []UnackedWithinReach
<1>1. TypeInv /\ CloseInv /\ KeepInv /\ [Next]_vars => KeepInv'
  BY NextTyped, NextKeeps
<1>2. TypeInv /\ CloseInv /\ KeepInv /\ ReachInv /\ [Next]_vars => ReachInv'
  BY <1>1, NextTyped, NextReaches
<1>3. TypeInv /\ ReachInv => UnackedWithinReach
  BY ReachSuffices
<1> QED
  BY InitTyped, NextTyped, InitClosed, NextClosed, InitKeeps, InitReaches, <1>1, <1>2, <1>3, PTL DEF Spec

=============================================================================
