------------------------- MODULE AtLeastOnceProofs -------------------------
(***************************************************************************)
(* No message of a BucketQueue is lost, for any number of readers, repair  *)
(* workers and publishers, any bucket size and delivery limit, with or     *)
(* without crashes: a bucket is deleted only when all of it is             *)
(* acknowledged, a payload stays stored until it is acknowledged or dead   *)
(* lettered, and the queue implements AtLeastOnce.  It is so when no put   *)
(* lands after the tombstone timeout of its bucket (PutsInTime).           *)
(***************************************************************************)
EXTENDS BucketQueueProofs

-----------------------------------------------------------------------------
(* The invariant.  NothingLost is not inductive: it needs what every worker  *)
(* remembers of the rows it has read, and what a repair worker has found out *)
(* about the bucket it is about to delete.                                   *)

\* An index that was handed out, and at which no row is yet to be put
Pending(i) ==
  i \in claims \/ \E w \in Repairers : wpc[w] = "put" /\ wClaim[w] = i

Used(i) == i < monoton /\ ~Pending(i)

\* An index is claimed by one publisher or repair worker, and nobody put a row there.
ClaimsApart ==
  /\ \A i \in Index : Pending(i) => rows[i] = Nil
  /\ \A w \in Repairers : wpc[w] = "put" => wClaim[w] \notin claims
  /\ \A v, w \in Repairers : wpc[v] = "put" /\ wpc[w] = "put" /\ wClaim[v] = wClaim[w] => v = w

\* A payload that was published, and the index it was read at
Seen(i, p) == Used(i) /\ p \in published /\ (rows[i] # Nil => rows[i].payload = p)

\* A version that was given to a delivery: the row is that delivery's, or has moved on.
Given(i, v) ==
  /\ Used(i)
  /\ rows[i] # Nil => v < rows[i].version \/ (v = rows[i].version /\ ~rows[i].acked)

PublishedKnown ==
  /\ \A i \in published : Used(i)
  /\ \A i \in Index : rows[i] # Nil => rows[i].payload \in published

\* The labels at which a reader has consumed its message
Delivering(r) ==
  rpc[r] \in {"track", "respond"} \/ (rpc[r] \in Moving /\ rThen[r] = "respond")

ReadersKnow ==
  \A r \in Readers :
    /\ \A i, p \in Index : rMsg[r] # Nil /\ rMsg[r].index = i /\ rMsg[r].payload = p => Seen(i, p)
    /\ \A i \in Index, v \in Nat :
         Delivering(r) /\ rMsg[r].index = i /\ rMsg[r].version + 1 = v => Given(i, v)
    /\ rpc[r] = "ackDead" => rMsg[r].payload \in dlq

ReceiptsKnow == \A c \in receipts : Given(c.index, c.version)

\* A payload needs the row at i no longer: it is settled, or stored again further on.
Spared(p, i) ==
  p \in done \union dlq \/ \E k \in Index : k > i /\ Unacked(k) /\ rows[k].payload = p

RepairerKnows(w) ==
  /\ \A m \in wTodo[w] : Seen(m.index, m.payload)
  /\ \A m, n \in wTodo[w] : m.index = n.index => m = n
  /\ wpc[w] = "put" => \A m \in wTodo[w] : m.index < wClaim[w]
  /\ wpc[w] = "ackOriginal" => \A m \in NextTodo(w) : Spared(m.payload, m.index)

RepairersKnow == \A w \in Repairers : RepairerKnows(w)

\* Nothing will be put into the bucket any more.
Complete(b) == Closed(b) /\ \A i \in Index : Pending(i) => Bucket(i) # b

\* The labels a repair worker reaches after the wait for the tombstone timeout
Waited(w) ==
  \/ wpc[w] \in {"collect", "claim", "put", "ackOriginal", "recheck"}
  \/ wpc[w] \in {"limit", "advance", "rereadRepair"} /\ wWatched[w]

DeleterSure(w) ==
  \A b \in Nat : wBucket[w] = b =>
    /\ Waited(w) => Complete(b)
    /\ wpc[w] = "delete" => Complete(b) /\ AllAcked(b)

DeletersSure == \A w \in Repairers : DeleterSure(w)

KeepInv ==
  /\ ClaimsApart /\ PublishedKnown /\ ReadersKnow /\ ReceiptsKnow /\ RepairersKnow
  /\ DeletersSure /\ NothingLost

LEMMA InitKeeps == Init => KeepInv
BY DEF Init, KeepInv, ClaimsApart, Pending, PublishedKnown, ReadersKnow, Delivering, Moving,
       ReceiptsKnow, RepairersKnow, RepairerKnows,
       DeletersSure, DeleterSure, Waited, NothingLost

-----------------------------------------------------------------------------
(* What every step does to the rows and the claims *)

\* A row is put at a pending index, which is pending no longer, with a published
\* payload; or it was there, with the same payload, and changed under a new version.
RowEvolves(i) ==
  \/ /\ rows[i] = Nil /\ Pending(i) /\ ~Pending(i)'
     /\ rows'[i].payload \in published'
  \/ /\ rows[i] # Nil /\ rows'[i].payload = rows[i].payload
     /\ \/ rows'[i].version = rows[i].version /\ rows'[i].acked = rows[i].acked
        \/ rows'[i].version > rows[i].version /\ (rows[i].acked => rows'[i].acked)

Evolves ==
  /\ monoton' \in Nat /\ monoton <= monoton'
  /\ \A i \in Index : Pending(i)' => Pending(i) \/ i >= monoton
  /\ published \subseteq published' /\ done \subseteq done' /\ dlq \subseteq dlq'
  /\ \A i \in published' \ published : Pending(i) /\ ~Pending(i)' /\ Unacked(i)' /\ rows'[i].payload = i
  /\ \A i \in Index : rows'[i] # Nil => RowEvolves(i)

\* A row that is not there, or acknowledged, after the step was needed no longer.
NothingDropped ==
  \A i, p \in Index : Unacked(i) /\ rows[i].payload = p /\ ~Unacked(i)' => Spared(p, i)'

LEMMA Numbers == monoton \in 0 .. MaxIndex => monoton \in Nat /\ Index \subseteq Nat
BY MaxIndexAssumption DEF Index

\* What was known of an index stays known.
LEMMA KnownStays ==
  ASSUME TypeInv, TypeInv', Evolves
  PROVE  /\ \A i \in Index : Used(i) => Used(i)'
         /\ \A i \in Index, p \in Index : Seen(i, p) => Seen(i, p)'
         /\ \A i \in Index, v \in Nat : Given(i, v) => Given(i, v)'
<1>0. monoton \in Nat /\ Index \subseteq Nat /\ TypeInv /\ TypeInv'
  BY Numbers DEF TypeInv, TablesOK
<1>1. ASSUME NEW i \in Index, Used(i) PROVE Used(i)'
  BY <1>0, <1>1 DEF Used, Evolves
<1>2. ASSUME NEW i \in Index, NEW p \in Index, Seen(i, p) PROVE Seen(i, p)'
  BY <1>0, <1>1, <1>2 DEF Seen, Used, Evolves, RowEvolves
<1>3. ASSUME NEW i \in Index, NEW v \in Nat, Given(i, v) PROVE Given(i, v)'
  <2>1. Used(i) /\ Used(i)'
    BY <1>1, <1>3 DEF Given
  <2>2. ASSUME rows'[i] # Nil
        PROVE  v < rows'[i].version \/ (v = rows'[i].version /\ ~rows'[i].acked)
    <3>1. rows[i] # Nil /\ RowEvolves(i) /\ (v < rows[i].version \/ (v = rows[i].version /\ ~rows[i].acked))
      BY <2>1, <2>2, <1>3 DEF Evolves, RowEvolves, Used, Given
    <3>2. rows[i].version \in Nat /\ rows'[i].version \in Nat
      BY <1>0, <2>2, <3>1 DEF TypeInv, TablesOK, Row
    <3> QED
      BY <3>1, <3>2 DEF RowEvolves
  <2> QED
    BY <2>1, <2>2 DEF Given
<1> QED
  BY <1>1, <1>2, <1>3

\* A bucket that is complete stays so, and if all of it is acknowledged that stays so.
LEMMA CompleteStays ==
  ASSUME TypeInv, Evolves, NEW b \in Nat, Complete(b)
  PROVE  Complete(b)' /\ (AllAcked(b) => AllAcked(b)')
<1>0. monoton \in Nat /\ Index \subseteq Nat /\ monoton' \in Nat /\ monoton <= monoton'
  BY Numbers DEF TypeInv, TablesOK, Evolves
<1>1. StartOfNext(b) \in Nat /\ StartOfNext(b) <= monoton /\ StartOfNext(b) <= monoton'
  BY <1>0, BucketSizeAssumption DEF Complete, Closed, StartOfNext
<1>2. ASSUME NEW i \in Index, Pending(i)' PROVE Bucket(i) # b
  <2>1. CASE Pending(i)
    BY <2>1 DEF Complete
  <2>2. CASE i >= monoton
    <3>1. i < (Bucket(i) + 1) * BucketSize
      BY <1>0, BucketBounds
    <3> QED
      BY <1>0, <1>1, <2>2, <3>1 DEF StartOfNext
  <2> QED
    BY <1>2, <2>1, <2>2 DEF Evolves
<1>3. Complete(b)'
  BY <1>1, <1>2 DEF Complete, Closed
<1>4. ASSUME AllAcked(b), NEW i \in Messages(b)' PROVE rows'[i].acked
  <2>1. i \in Index /\ Bucket(i) = b /\ rows'[i] # Nil /\ RowEvolves(i)
    BY <1>4 DEF Messages, IndicesOf, Evolves
  <2>2. rows[i] # Nil
    BY <2>1 DEF RowEvolves, Complete
  <2>3. rows[i].acked
    BY <1>4, <2>1, <2>2 DEF AllAcked, Messages, IndicesOf
  <2> QED
    BY <2>1, <2>2, <2>3 DEF RowEvolves
<1> QED
  BY <1>3, <1>4 DEF AllAcked

\* A payload that was spared an index stays spared.
LEMMA SparedStays ==
  ASSUME TypeInv, Evolves, NothingDropped, NEW i \in Index, NEW p \in Index, Spared(p, i)
  PROVE  Spared(p, i)'
<1>0. Index \subseteq Nat
  BY Numbers DEF TypeInv, TablesOK
<1>1. CASE p \in done \union dlq
  BY <1>1 DEF Evolves, Spared
<1>2. ASSUME NEW k \in Index, k > i, Unacked(k), rows[k].payload = p
      PROVE  Spared(p, i)'
  <2>1. CASE Unacked(k)'
    BY <1>2, <2>1 DEF Unacked, Evolves, RowEvolves, Spared
  <2>2. CASE ~Unacked(k)'
    <3>1. Spared(p, k)'
      BY <1>2, <2>2 DEF NothingDropped
    <3> QED
      BY <1>0, <1>2, <3>1 DEF Spared
  <2> QED
    BY <2>1, <2>2
<1> QED
  BY <1>1, <1>2 DEF Spared

\* No message is lost by a step that drops nothing.
LEMMA NothingLostStays ==
  ASSUME TypeInv, TypeInv', Evolves, NothingDropped, NothingLost
  PROVE  NothingLost'
<1> SUFFICES ASSUME NEW p \in published', p \notin done' \union dlq'
             PROVE  \E i \in Index : Unacked(i)' /\ rows'[i].payload = p
  BY DEF NothingLost
<1>1. CASE p \notin published
  BY <1>1 DEF Evolves, TypeInv, HistoryOK
<1>2. CASE p \in published
  <2>1. PICK i \in Index : Unacked(i) /\ rows[i].payload = p /\ p \in Index
    BY <1>2 DEF NothingLost, Evolves, TypeInv, HistoryOK
  <2>2. CASE Unacked(i)'
    BY <2>1, <2>2 DEF Unacked, Evolves, RowEvolves
  <2>3. CASE ~Unacked(i)'
    BY <2>1, <2>3 DEF NothingDropped, Spared
  <2> QED
    BY <2>2, <2>3
<1> QED
  BY <1>1, <1>2

-----------------------------------------------------------------------------
(* Each kind of step evolves, and drops nothing. *)

\* A step that claims no index, and publishes nothing
NoNewClaims ==
  /\ UNCHANGED monoton /\ claims' \subseteq claims
  /\ \A w \in Repairers : wpc'[w] = "put" => wpc[w] = "put" /\ wClaim'[w] = wClaim[w]

HistoryGrows == published' = published /\ done \subseteq done' /\ dlq \subseteq dlq'

LEMMA SameRowsEvolve ==
  ASSUME TypeInv, UNCHANGED rows, HistoryGrows, NoNewClaims
  PROVE  Evolves /\ NothingDropped
<1>1. monoton \in Nat
  BY Numbers DEF TypeInv, TablesOK
<1>2. \A i \in Index : Pending(i)' => Pending(i)
  BY DEF NoNewClaims, Pending
<1>3. Evolves
  BY <1>1, <1>2 DEF Evolves, RowEvolves, HistoryGrows, NoNewClaims
<1>4. NothingDropped
  BY DEF NothingDropped, Unacked
<1> QED
  BY <1>3, <1>4

LEMMA ClaimEvolves ==
  ASSUME TypeInv, UNCHANGED <<rows, published, done, dlq>>, monoton' = monoton + 1,
         \A i \in Index : Pending(i)' => Pending(i) \/ i = monoton
  PROVE  Evolves /\ NothingDropped
<1>1. monoton \in Nat
  BY Numbers DEF TypeInv, TablesOK
<1>2. Evolves
  BY <1>1 DEF Evolves, RowEvolves
<1>3. NothingDropped
  BY DEF NothingDropped, Unacked
<1> QED
  BY <1>2, <1>3

LEMMA PutEvolves ==
  ASSUME TypeInv, NEW i \in Index, NEW p \in Index, NEW vis \in BOOLEAN,
         rows[i] = Nil, rows' = [rows EXCEPT ![i] = NewRow(p, vis)],
         Pending(i), ~Pending(i)', \A j \in Index : Pending(j)' => Pending(j),
         UNCHANGED <<monoton, done, dlq>>, p \in published',
         published' = published \/ (published' = published \union {i} /\ p = i)
  PROVE  Evolves /\ NothingDropped
<1> DEFINE row == NewRow(p, vis)
<1>1. row \in Row /\ row # Nil /\ row.payload = p /\ ~row.acked
  BY RowsTyped, NilAssumption DEF NewRow
<1> HIDE DEF row
<1>2. rows'[i] = row /\ \A j \in Index : j # i => rows'[j] = rows[j]
  BY DEF TypeInv, TablesOK, row
<1>3. monoton \in Nat
  BY Numbers DEF TypeInv, TablesOK
<1>4. Unacked(i)' /\ ~Unacked(i)
  BY <1>1, <1>2 DEF Unacked
<1>5. \A j \in Index : rows'[j] # Nil => RowEvolves(j)
  BY <1>1, <1>2 DEF RowEvolves
<1>6. Evolves
  BY <1>1, <1>2, <1>3, <1>4, <1>5 DEF Evolves
<1>7. NothingDropped
  BY <1>2, <1>4 DEF NothingDropped, Unacked
<1> QED
  BY <1>6, <1>7

LEMMA ChangeEvolves ==
  ASSUME TypeInv, HistoryGrows, NoNewClaims, NEW i \in Index, NEW row \in Row,
         rows[i] # Nil, rows' = [rows EXCEPT ![i] = row], row.payload = rows[i].payload,
         \/ row.version = rows[i].version /\ row.acked = rows[i].acked
         \/ row.version > rows[i].version /\ (rows[i].acked => row.acked),
         NEW p \in Index, p = rows[i].payload, row.acked => Spared(p, i)' \/ rows[i].acked
  PROVE  Evolves /\ NothingDropped
<1>1. rows'[i] = row /\ \A j \in Index : j # i => rows'[j] = rows[j]
  BY DEF TypeInv, TablesOK
<1>2. monoton \in Nat
  BY Numbers DEF TypeInv, TablesOK
<1>3. \A j \in Index : Pending(j)' => Pending(j)
  BY DEF NoNewClaims, Pending
<1>4. \A j \in Index : rows'[j] # Nil => RowEvolves(j)
  BY <1>1 DEF RowEvolves
<1>5. Evolves
  BY <1>2, <1>3, <1>4 DEF Evolves, HistoryGrows, NoNewClaims
<1>6. NothingDropped
  BY <1>1, NilAssumption DEF NothingDropped, Unacked
<1> QED
  BY <1>5, <1>6

LEMMA AckedRow ==
  ASSUME NEW row \in Row
  PROVE  /\ Acked(row) \in Row /\ Acked(row).payload = row.payload /\ Acked(row).acked
         /\ Acked(row).version = row.version + 1 /\ row.version \in Nat
<1> DEFINE version == row.version + 1
<1>1. row.version \in Nat /\ version \in Nat
  BY DEF Row
<1>2. Acked(row) = [row EXCEPT !.acked = TRUE, !.version = version]
  BY DEF Acked, Row
<1>3. version = row.version + 1
  OBVIOUS
<1> HIDE DEF version
<1> QED
  BY <1>1, <1>2, <1>3 DEF Row

\* An acknowledgement evolves when the payload has been settled or stored further on.
LEMMA AckEvolves ==
  ASSUME TypeInv, HistoryGrows, NoNewClaims, NEW i \in Index, rows[i] # Nil,
         rows' = [rows EXCEPT ![i] = Acked(rows[i])],
         NEW p \in Index, p = rows[i].payload, Spared(p, i) \/ p \in done' \union dlq'
  PROVE  Evolves /\ NothingDropped
<1> DEFINE row == Acked(rows[i])
<1>1. rows[i] \in Row
  BY DEF TypeInv, TablesOK
<1>2. row \in Row /\ row.payload = rows[i].payload /\ row.version > rows[i].version /\ row.acked
  BY <1>1, AckedRow
<1> HIDE DEF row
<1>3. \A j \in Index : j # i => rows'[j] = rows[j]
  BY DEF TypeInv, TablesOK
<1>4. Spared(p, i)'
  <2>1. ASSUME NEW k \in Index, k > i, Unacked(k), rows[k].payload = p
        PROVE  Spared(p, i)'
    <3>1. k # i
      BY <2>1, MaxIndexAssumption DEF Index
    <3> QED
      BY <2>1, <3>1, <1>3 DEF Spared, Unacked
  <2>2. CASE p \in done' \union dlq'
    BY <2>2 DEF Spared
  <2> QED
    BY <2>1, <2>2 DEF Spared, HistoryGrows
<1>5. rows' = [rows EXCEPT ![i] = row]
  BY DEF row
<1> QED
  BY <1>2, <1>4, <1>5, ChangeEvolves

-----------------------------------------------------------------------------
(* Every step evolves. *)

LEMMA ClientEvolves ==
  ASSUME TypeInv, TypeInv', CloseInv, KeepInv, ClientStep
  PROVE  Evolves /\ NothingDropped
<1> USE DEF KeepInv
<1>1. CASE NextMonotonic
  <2>1. /\ monoton' = monoton + 1 /\ UNCHANGED <<rows, published, done, dlq, wpc, wClaim>>
        /\ claims' = claims \union {monoton}
    BY <1>1 DEF NextMonotonic, repairers, history
  <2>2. \A i \in Index : Pending(i)' => Pending(i) \/ i = monoton
    BY <2>1 DEF Pending
  <2> QED
    BY <2>1, <2>2, ClaimEvolves
<1>2. ASSUME NEW i \in Index, PutMessage(i) PROVE Evolves /\ NothingDropped
  <2>1. i \in claims /\ claims' = claims \ {i} /\ UNCHANGED <<monoton, done, dlq, wpc, wClaim>>
    BY <1>2 DEF PutMessage, repairers
  <2>2. /\ Pending(i) /\ rows[i] = Nil /\ \A w \in Repairers : wpc[w] = "put" => wClaim[w] # i
    BY <2>1 DEF Pending, ClaimsApart
  <2>3. ~Pending(i)' /\ \A j \in Index : Pending(j)' => Pending(j)
    BY <2>1, <2>2 DEF Pending
  <2>4. published' = published \union {i}
    BY <1>2, <2>2 DEF PutMessage
  <2>5. PICK vis \in {TRUE, ~DelayedPuts} : rows' = [rows EXCEPT ![i] = NewRow(i, vis)]
    BY <1>2, <2>2 DEF PutMessage
  <2>6. vis \in BOOLEAN
    BY FlagsAssumption
  <2> QED
    BY <2>1, <2>2, <2>3, <2>4, <2>5, <2>6, PutEvolves
<1>3. ASSUME NEW i \in Index, AbandonClaim(i) PROVE Evolves /\ NothingDropped
  BY <1>3, SameRowsEvolve
  DEF AbandonClaim, NoNewClaims, HistoryGrows, tables, repairers, history
<1>4. ASSUME NEW i \in Index, Expire(i) PROVE Evolves /\ NothingDropped
  <2> DEFINE row == [rows[i] EXCEPT !.visible = TRUE]
  <2>1. rows[i] \in Row /\ rows[i] # Nil /\ ~rows[i].acked
    BY <1>4 DEF Expire, Unacked, TypeInv, TablesOK
  <2>2. row \in Row /\ row.payload = rows[i].payload /\ row.version = rows[i].version /\ row.acked = rows[i].acked
    BY <2>1 DEF Row
  <2>3. rows' = [rows EXCEPT ![i] = row]
    BY <1>4 DEF Expire
  <2>4. NoNewClaims /\ HistoryGrows
    BY <1>4 DEF Expire, NoNewClaims, HistoryGrows, clients, repairers, history
  <2> HIDE DEF row
  <2>5. rows[i].payload \in Index
    BY <2>1 DEF Row
  <2> QED
    BY <2>1, <2>2, <2>3, <2>4, <2>5, ChangeEvolves
<1>5. ASSUME NEW c \in receipts, AckMessage(c) PROVE Evolves /\ NothingDropped
  <2>1. c.index \in Index /\ rows[c.index] # Nil /\ rows[c.index] \in Row
    BY <1>5 DEF AckMessage, AckApplies, TypeInv, ClientsOK, Receipt, TablesOK
  <2>2. rows' = [rows EXCEPT ![c.index] = Acked(rows[c.index])]
    BY <1>5, <2>1 DEF AckMessage
  <2>3. NoNewClaims /\ HistoryGrows /\ rows[c.index].payload \in done'
    BY <1>5 DEF AckMessage, NoNewClaims, HistoryGrows, clients, repairers, history
  <2>4. rows[c.index].payload \in Index
    BY <2>1 DEF Row
  <2> QED
    BY <2>1, <2>2, <2>3, <2>4, AckEvolves
<1> QED
  BY <1>1, <1>2, <1>3, <1>4, <1>5 DEF ClientStep

\* The steps of a reader that leave the rows as they are
LEMMA ReaderEvolves ==
  ASSUME TypeInv, TypeInv', KeepInv, NEW r \in Readers, ReaderStep(r) \/ CrashReader(r) \/ ReplaceReader(r)
  PROVE  Evolves /\ NothingDropped
<1> USE DEF KeepInv
<1>1. NoNewClaims /\ HistoryGrows
  <2>1. UNCHANGED <<monoton, claims, wpc, wClaim, published, done>> /\ dlq \subseteq dlq'
    BY DEF ReaderStep, NextMessage, GetCurrentInvisPointer, ProcessCurrentInvisPointer,
      ProcessBucket, FinalizedExists, MoveInvisBack, MoveInvisOn, RereadInvisPointer,
      DeadLetter, AckDead, RawConsume, TrackConsumed, Respond, GetReaderCurrentBucket,
      GetAndMark, MonotonPastBucket, Tombstone, AdvanceMessageBucketPointer,
      CrashReader, ReplaceReader, ReaderReads, OnlyInvisPointer, OnlyRows,
      tables, clients, repairers, history
  <2> QED
    BY <2>1 DEF NoNewClaims, HistoryGrows
<1>2. CASE AckDead(r)
  <2> DEFINE i == rMsg[r].index
             p == rMsg[r].payload
  <2>1. rMsg[r] \in Snapshot /\ rMsg[r] # Nil
    BY <1>2, NilAssumption DEF AckDead, TypeInv, ReadersTyped, Holding
  <2>2. i \in Index /\ p \in Index /\ p \in dlq
    BY <1>2, <2>1 DEF AckDead, Snapshot, ReadersKnow
  <2>3. CASE AckApplies(i, rMsg[r].version)
    <3>1. rows[i] # Nil /\ rows' = [rows EXCEPT ![i] = Acked(rows[i])]
      BY <1>2, <2>2, <2>3 DEF AckDead, AckApplies
    <3>2. rows[i].payload = p
      BY <2>1, <2>2, <3>1 DEF ReadersKnow, Seen
    <3> QED
      BY <1>1, <2>2, <3>1, <3>2, AckEvolves DEF HistoryGrows
  <2>4. CASE ~AckApplies(i, rMsg[r].version)
    BY <1>1, <1>2, <2>4, SameRowsEvolve DEF AckDead
  <2> QED
    BY <2>3, <2>4
<1>3. CASE RawConsume(r)
  <2> DEFINE m == rMsg[r]
             i == m.index
             version == m.version + 1
             count == m.count + 1
             row == [rows[i] EXCEPT !.version = version, !.count = count, !.visible = FALSE]
  <2>1. m \in Snapshot
    BY <1>3 DEF RawConsume, TypeInv, ReadersTyped, Holding
  <2>2. i \in Index /\ m.version \in Nat /\ version \in Nat /\ count \in Nat
    BY <2>1 DEF Snapshot
  <2>3. CASE Unacked(i) /\ rows[i].version = m.version
    <3>1. rows[i] \in Row /\ rows[i] # Nil /\ ~rows[i].acked
      BY <2>2, <2>3 DEF Unacked, TypeInv, TablesOK
    <3>2. rows' = [rows EXCEPT ![i] = row]
      BY <1>3, <2>2, <2>3 DEF RawConsume
    <3>3. version > rows[i].version
      BY <2>2, <2>3
    <3> HIDE DEF m, i, version, count
    <3>4. row \in Row /\ row.payload = rows[i].payload /\ row.version = version /\ row.acked = rows[i].acked
      BY <2>2, <3>1 DEF Row
    <3>5. rows[i].payload \in Index
      BY <3>1 DEF Row
    <3> HIDE DEF row
    <3> QED
      BY <1>1, <2>2, <3>1, <3>2, <3>3, <3>4, <3>5, ChangeEvolves
  <2>4. CASE ~(Unacked(i) /\ rows[i].version = m.version)
    BY <1>1, <1>3, <2>4, SameRowsEvolve DEF RawConsume
  <2> QED
    BY <2>3, <2>4
<1>4. CASE ~AckDead(r) /\ ~RawConsume(r)
  <2>1. UNCHANGED rows
    BY <1>4 DEF ReaderStep, NextMessage, GetCurrentInvisPointer, ProcessCurrentInvisPointer,
      ProcessBucket, FinalizedExists, MoveInvisBack, MoveInvisOn, RereadInvisPointer,
      DeadLetter, TrackConsumed, Respond, GetReaderCurrentBucket,
      GetAndMark, MonotonPastBucket, Tombstone, AdvanceMessageBucketPointer,
      CrashReader, ReplaceReader, ReaderReads, OnlyInvisPointer, tables
  <2> QED
    BY <1>1, <2>1, SameRowsEvolve
<1> QED
  BY <1>2, <1>3, <1>4

\* The steps of a repair worker that neither claim an index nor touch a message
Walking(w) ==
  \/ Process(w) \/ TombstoneExists(w) \/ InspectBucket(w) \/ WaitForTimeout(w) \/ CollectUnclaimed(w)
  \/ LimitToMonoton(w) \/ AdvanceRepairBucketPointer(w) \/ RereadRepairPointer(w)
  \/ RecheckBucket(w) \/ Finalize(w) \/ MarkAsFinalized(w) \/ CrashRepairer(w) \/ ReplaceRepairer(w)

\* What they do to the worker's label: it is moved to one that is not "put".
LEMMA WalkingEvolves ==
  ASSUME TypeInv, NEW w \in Repairers, Walking(w)
  PROVE  Evolves /\ NothingDropped /\ NoNewClaims /\ UNCHANGED <<rows, published, done, dlq>>
<1> USE DEF Walking
<1>1. UNCHANGED <<rows, monoton, claims, published, done, dlq>>
  BY DEF Process, TombstoneExists, InspectBucket, WaitForTimeout, CollectUnclaimed,
    LimitToMonoton, AdvanceRepairBucketPointer, RereadRepairPointer, RecheckBucket, Finalize,
    MarkAsFinalized, CrashRepairer, ReplaceRepairer, RepairerReads, tables, clients, history
<1>2. PICK L \in RepairerLabels \ {"put"} : wpc' = [wpc EXCEPT ![w] = L]
  BY DEF Process, TombstoneExists, InspectBucket, WaitForTimeout, CollectUnclaimed,
    LimitToMonoton, AdvanceRepairBucketPointer, RereadRepairPointer, RecheckBucket, Finalize,
    MarkAsFinalized, CrashRepairer, ReplaceRepairer, RepairerRestart, RepairerIdle, WGoto, WDecide,
    Advanced, Disposal, Republishing, RepairerLabels
<1>3. \A v \in Repairers : v # w => wClaim'[v] = wClaim[v]
  BY DEF Process, TombstoneExists, InspectBucket, WaitForTimeout, CollectUnclaimed,
    LimitToMonoton, AdvanceRepairBucketPointer, RereadRepairPointer, RecheckBucket, Finalize,
    MarkAsFinalized, CrashRepairer, ReplaceRepairer, RepairerRestart, RepairerIdle, WDecide, Advanced,
    TypeInv, RepairersTyped, RepairersOK
<1>4. \A v \in Repairers : wpc'[v] = "put" => wpc[v] = "put" /\ wClaim'[v] = wClaim[v]
  BY <1>2, <1>3 DEF TypeInv, RepairersTyped, RepairersOK
<1>5. NoNewClaims /\ HistoryGrows
  BY <1>1, <1>4 DEF NoNewClaims, HistoryGrows
<1> QED
  BY <1>1, <1>5, SameRowsEvolve

LEMMA RepublishEvolves ==
  ASSUME TypeInv, TypeInv', CloseInv, KeepInv, NEW w \in Repairers,
         RepublishClaim(w) \/ RepublishPut(w) \/ RepublishAck(w) \/ DeleteAllMessages(w)
  PROVE  Evolves /\ NothingDropped
<1> USE DEF KeepInv
<1>0. wpc \in [Repairers -> RepairerLabels] /\ wClaim \in [Repairers -> Index \union {Nil}]
  BY DEF TypeInv, RepairersTyped, RepairersOK
<1>1. CASE RepublishClaim(w)
  <2>1. /\ monoton' = monoton + 1 /\ UNCHANGED <<rows, published, done, dlq, claims>>
        /\ wpc' = [wpc EXCEPT ![w] = "put"] /\ wClaim' = [wClaim EXCEPT ![w] = monoton]
    BY <1>1 DEF RepublishClaim, WGoto, clients, history
  <2>2. \A i \in Index : Pending(i)' => Pending(i) \/ i = monoton
    BY <1>0, <2>1 DEF Pending
  <2> QED
    BY <2>1, <2>2, ClaimEvolves
<1>2. CASE RepublishPut(w)
  <2>0. PICK i \in Index : i = wClaim[w]
    BY <1>2 DEF RepublishPut, TypeInv, RepairersTyped
  <2>1. /\ wpc[w] = "put" /\ Pending(i) /\ rows[i] = Nil
        /\ UNCHANGED <<monoton, claims, published, done, dlq>>
    BY <1>2, <2>0 DEF RepublishPut, Pending, ClaimsApart, clients, history
  <2>2. PICK m \in wTodo[w] : /\ rows' = [rows EXCEPT ![i] = NewRow(m.payload, TRUE)]
                              /\ WDecide(w, "ackOriginal")
    BY <1>2, <2>0, <2>1 DEF RepublishPut, NextTodo
  <2>3. m.payload \in Index /\ m.payload \in published
    BY <2>2 DEF TypeInv, RepairersTyped, RepairersOK, Unclaimed, RepairersKnow, RepairerKnows, Seen
  <2>4. wpc' = [wpc EXCEPT ![w] = "ackOriginal"] /\ wClaim' = wClaim
    BY <2>2 DEF WDecide, WGoto
  <2>5. \A j \in Index : Pending(j)' => Pending(j)
    BY <1>0, <2>1, <2>4 DEF Pending
  <2>6. ~Pending(i)'
    BY <1>0, <2>0, <2>1, <2>4 DEF Pending, ClaimsApart
  <2>7. UNCHANGED <<monoton, done, dlq>> /\ published' = published /\ m.payload \in published' /\ TRUE \in BOOLEAN
    BY <2>1, <2>3
  <2> QED
    BY <2>1, <2>2, <2>3, <2>5, <2>6, <2>7, PutEvolves
<1>3. CASE RepublishAck(w)
  <2>1. PICK m \in NextTodo(w) :
          /\ IF AckApplies(m.index, m.version)
               THEN rows' = [rows EXCEPT ![m.index] = Acked(rows[m.index])]
               ELSE UNCHANGED rows
          /\ WGoto(w, Republishing(wTodo[w] \ {m}))
    BY <1>3 DEF RepublishAck
  <2>2. /\ m \in wTodo[w] /\ m.index \in Index /\ m.payload \in Index
        /\ Seen(m.index, m.payload) /\ Spared(m.payload, m.index)
    BY <1>3, <2>1 DEF RepublishAck, NextTodo, RepairersKnow, RepairerKnows, TypeInv, RepairersTyped, RepairersOK, Unclaimed
  <2>3. NoNewClaims /\ HistoryGrows
    <3>1. UNCHANGED <<monoton, claims, published, done, dlq>> /\ wClaim' = [wClaim EXCEPT ![w] = Nil]
      BY <1>3 DEF RepublishAck, clients, history
    <3>2. wpc' = [wpc EXCEPT ![w] = Republishing(wTodo[w] \ {m})] /\ Republishing(wTodo[w] \ {m}) # "put"
      BY <2>1 DEF WGoto, Republishing
    <3> QED
      BY <1>0, <3>1, <3>2 DEF NoNewClaims, HistoryGrows
  <2>4. CASE AckApplies(m.index, m.version)
    BY <2>1, <2>2, <2>3, <2>4, AckEvolves DEF AckApplies, Seen
  <2>5. CASE ~AckApplies(m.index, m.version)
    BY <2>1, <2>3, <2>5, SameRowsEvolve
  <2> QED
    BY <2>4, <2>5
<1>4. CASE DeleteAllMessages(w)
  <2> DEFINE b == wBucket[w]
  <2>1. /\ rows' = [i \in Index |-> IF Bucket(i) = b THEN Nil ELSE rows[i]]
        /\ wpc' = [wpc EXCEPT ![w] = "finalize"] /\ wpc[w] = "delete"
        /\ UNCHANGED <<monoton, claims, published, done, dlq, wClaim>>
    BY <1>4 DEF DeleteAllMessages, WDecide, WGoto, clients, history
  <2>2. AllAcked(b)
    BY <2>1 DEF DeletersSure, DeleterSure, TypeInv, RepairersTyped, RepairersOK
  <2>3. monoton \in Nat
    BY Numbers DEF TypeInv, TablesOK
  <2>4. \A i \in Index : Pending(i)' => Pending(i)
    BY <1>0, <2>1 DEF Pending
  <2>5. Evolves
    BY <2>1, <2>3, <2>4 DEF Evolves, RowEvolves
  <2>6. NothingDropped
    BY <2>1, <2>2 DEF NothingDropped, Unacked, AllAcked, Messages, IndicesOf
  <2> QED
    BY <2>5, <2>6
<1> QED
  BY <1>1, <1>2, <1>3, <1>4

LEMMA NextEvolves ==
  ASSUME TypeInv, TypeInv', CloseInv, KeepInv, [Next]_vars
  PROVE  Evolves /\ NothingDropped
<1>1. CASE UNCHANGED vars
  <2>1. NoNewClaims /\ HistoryGrows /\ UNCHANGED rows
    BY <1>1 DEF vars, tables, clients, repairers, history, NoNewClaims, HistoryGrows
  <2> QED
    BY <2>1, SameRowsEvolve
<1>2. ASSUME NEW w \in Repairers, RepairStep(w) \/ CrashRepairer(w) \/ ReplaceRepairer(w)
      PROVE  Evolves /\ NothingDropped
  BY <1>2, WalkingEvolves, RepublishEvolves DEF RepairStep, Walking
<1> QED
  BY <1>1, <1>2, ClientEvolves, ReaderEvolves DEF Next

-----------------------------------------------------------------------------
(* Claims and published payloads *)

LEMMA OnlyClaimsClaim ==
  ASSUME TypeInv, [Next]_vars, ~NextMonotonic, \A w \in Repairers : ~RepublishClaim(w)
  PROVE  NoNewClaims
<1>0. wpc \in [Repairers -> RepairerLabels]
  BY DEF TypeInv, RepairersTyped, RepairersOK
<1>1. CASE ClientStep
  BY <1>1 DEF ClientStep, PutMessage, AbandonClaim, Expire, AckMessage, NoNewClaims,
              tables, clients, repairers
<1>2. ASSUME NEW r \in Readers, ReaderStep(r) \/ CrashReader(r) \/ ReplaceReader(r)
      PROVE  UNCHANGED <<monoton, claims, repairers>>
  BY <1>2 DEF ReaderStep, NextMessage, GetCurrentInvisPointer, ProcessCurrentInvisPointer,
    ProcessBucket, FinalizedExists, MoveInvisBack, MoveInvisOn, RereadInvisPointer,
    DeadLetter, AckDead, RawConsume, TrackConsumed, Respond, GetReaderCurrentBucket,
    GetAndMark, MonotonPastBucket, Tombstone, AdvanceMessageBucketPointer,
    CrashReader, ReplaceReader, ReaderReads, OnlyInvisPointer, OnlyRows, tables, clients
<1>3. ASSUME NEW w \in Repairers, RepublishPut(w) \/ RepublishAck(w) \/ DeleteAllMessages(w)
      PROVE  NoNewClaims
  <2>1. UNCHANGED <<monoton, claims>>
    BY <1>3 DEF RepublishPut, RepublishAck, DeleteAllMessages, clients
  <2>2. PICK L \in {"ackOriginal", "idle", "limit", "claim", "finalize"} : wpc' = [wpc EXCEPT ![w] = L]
    BY <1>3 DEF RepublishPut, RepublishAck, DeleteAllMessages, WDecide, WGoto, RepairerIdle,
                RepairerRestart, Republishing
  <2>3. \A v \in Repairers : v # w => wClaim'[v] = wClaim[v]
    BY <1>3 DEF RepublishPut, RepublishAck, DeleteAllMessages, WDecide, RepairerIdle,
                RepairerRestart, TypeInv, RepairersTyped, RepairersOK
  <2> QED
    BY <1>0, <2>1, <2>2, <2>3 DEF NoNewClaims
<1>4. ASSUME NEW w \in Repairers, Walking(w) PROVE NoNewClaims
  BY <1>4, WalkingEvolves
<1>5. CASE UNCHANGED vars
  BY <1>5 DEF vars, tables, clients, repairers, NoNewClaims
<1> QED
  BY <1>1, <1>2, <1>3, <1>4, <1>5 DEF Next, RepairStep, Walking, NoNewClaims, repairers

LEMMA ClaimsStayApart ==
  ASSUME TypeInv, TypeInv', CloseInv, KeepInv, [Next]_vars, Evolves
  PROVE  ClaimsApart'
<1> USE DEF KeepInv
<1>0. /\ monoton \in Nat /\ Index \subseteq Nat /\ claims \subseteq Index
      /\ \A i \in claims : i < monoton
      /\ \A w \in Repairers : wpc[w] = "put" => wClaim[w] \in Nat /\ wClaim[w] < monoton
  BY Numbers DEF TypeInv, TablesOK, ClientsOK, RepairersTyped, CloseInv, HandedOut
<1>1. ASSUME NEW i \in Index, Pending(i)' PROVE rows'[i] = Nil
  <2>1. CASE rows[i] = Nil
    BY <1>1, <2>1 DEF Evolves, RowEvolves
  <2>2. CASE rows[i] # Nil
    BY <1>0, <1>1, <2>2 DEF Evolves, ClaimsApart, CloseInv, HandedOut, RowsAreHandedOut
  <2> QED
    BY <2>1, <2>2
<1>2. /\ \A w \in Repairers : wpc'[w] = "put" => wClaim'[w] \notin claims'
      /\ \A v, w \in Repairers : wpc'[v] = "put" /\ wpc'[w] = "put" /\ wClaim'[v] = wClaim'[w] => v = w
  <2>1. CASE NextMonotonic
    <3>1. claims' = claims \union {monoton} /\ UNCHANGED <<wpc, wClaim>>
      BY <2>1 DEF NextMonotonic, repairers
    <3> QED
      BY <1>0, <3>1 DEF ClaimsApart
  <2>2. ASSUME NEW w \in Repairers, RepublishClaim(w)
        PROVE  /\ \A v \in Repairers : wpc'[v] = "put" => wClaim'[v] \notin claims'
               /\ \A u, v \in Repairers :
                    wpc'[u] = "put" /\ wpc'[v] = "put" /\ wClaim'[u] = wClaim'[v] => u = v
    <3>1. /\ claims' = claims /\ wClaim'[w] = monoton
          /\ \A v \in Repairers : v # w => wpc'[v] = wpc[v] /\ wClaim'[v] = wClaim[v]
      BY <2>2 DEF RepublishClaim, WGoto, clients, TypeInv, RepairersTyped, RepairersOK
    <3> QED
      BY <1>0, <3>1 DEF ClaimsApart
  <2>3. CASE NoNewClaims
    BY <2>3 DEF NoNewClaims, ClaimsApart
  <2> QED
    BY <2>1, <2>2, <2>3, OnlyClaimsClaim
<1> QED
  BY <1>1, <1>2 DEF ClaimsApart

\* A row that is there is at a used index.
LEMMA RowsAreUsed ==
  ASSUME CloseInv, KeepInv
  PROVE  \A i \in Index : rows[i] # Nil => Used(i)
BY DEF CloseInv, HandedOut, RowsAreHandedOut, KeepInv, ClaimsApart, Used

LEMMA PublishedStayKnown ==
  ASSUME TypeInv, TypeInv', CloseInv, KeepInv, Evolves
  PROVE  PublishedKnown'
<1> USE DEF KeepInv
<1>1. ASSUME NEW i \in published' PROVE Used(i)'
  <2>1. i \in Index /\ monoton \in Nat /\ Index \subseteq Nat
    BY Numbers DEF TypeInv, HistoryOK, TablesOK
  <2>2. CASE i \in published
    BY <2>1, <2>2, KnownStays DEF PublishedKnown
  <2>3. CASE i \notin published
    <3>1. Pending(i) /\ ~Pending(i)'
      BY <2>3 DEF Evolves
    <3>2. i < monoton
      BY <3>1 DEF Pending, CloseInv, HandedOut
    <3> QED
      BY <2>1, <3>1, <3>2 DEF Used, Evolves
  <2> QED
    BY <2>2, <2>3
<1>2. ASSUME NEW i \in Index, rows'[i] # Nil PROVE rows'[i].payload \in published'
  BY <1>2 DEF Evolves, RowEvolves, PublishedKnown
<1> QED
  BY <1>1, <1>2 DEF PublishedKnown

-----------------------------------------------------------------------------
(* What the readers remember *)

\* What becomes of a reader's memory in a step of its own: it keeps its message, drops
\* it, or takes a row.
Keeps(r) ==
  /\ rMsg'[r] = rMsg[r]
  /\ Delivering(r)' => Delivering(r)
  /\ rpc'[r] = "ackDead" => rMsg[r].payload \in dlq'

Drops(r) == rMsg'[r] = Nil /\ ~Delivering(r)' /\ rpc'[r] # "ackDead"

Takes(r) ==
  /\ rpc'[r] = "consume"
  /\ \E i \in Index : rows[i] # Nil /\ rMsg'[r].index = i /\ rMsg'[r].payload = rows[i].payload

Consumes(r) ==
  /\ rMsg[r] \in Snapshot /\ rMsg'[r] = rMsg[r] /\ rpc'[r] # "ackDead"
  /\ rows'[rMsg[r].index].version = rMsg[r].version + 1 /\ ~rows'[rMsg[r].index].acked

LEMMA ReaderEnds ==
  ASSUME TypeInv, NEW r \in Readers
  PROVE  /\ \A L \in {"idle", "readerBucket", "down"} : Restart(r, L) => Drops(r)
         /\ GetNext(r) \/ ReaderIdle(r) \/ Missed(r) => Drops(r)
         /\ \A i \in Index : \A source : rows[i] # Nil /\ Take(r, i, source) => Takes(r)
         /\ \A L \in ReaderLabels : L \notin {"track", "respond", "ackDead", "moveBack", "moveOn", "rereadInvis"}
                                     /\ Decide(r, L) => Keeps(r)
         /\ \A dest, then : then # "respond" /\ MoveInvisTo(r, dest, then) => Keeps(r)
         /\ \A p : rpc[r] \in Moving /\ Moved(r, p) => Keeps(r)
<1> USE DEF Delivering, Moving
<1>0. /\ rpc \in [Readers -> ReaderLabels] /\ rMsg \in [Readers -> Snapshot \union {Nil}]
      /\ rThen \in [Readers -> {"idle", "atPointer", "readerBucket", "respond"}]
  BY DEF TypeInv, ReadersTyped, ReadersOK
<1>1. \A L \in {"idle", "readerBucket", "down"} : Restart(r, L) => Drops(r)
  BY <1>0 DEF Restart, Drops
<1>2. GetNext(r) \/ ReaderIdle(r) => Drops(r)
  BY <1>1 DEF GetNext, ReaderIdle
<1>3. Missed(r) => Drops(r)
  BY <1>0, <1>2 DEF Missed, Goto, Drops
<1>4. \A i \in Index : \A source : rows[i] # Nil /\ Take(r, i, source) => Takes(r)
  BY <1>0 DEF Take, Goto, Takes
<1>5. \A L \in ReaderLabels : L \notin {"track", "respond", "ackDead", "moveBack", "moveOn", "rereadInvis"}
                               /\ Decide(r, L) => Keeps(r)
  BY <1>0 DEF Decide, Goto, Keeps
<1>6. \A dest, then : then # "respond" /\ MoveInvisTo(r, dest, then) => Keeps(r)
  BY <1>0 DEF MoveInvisTo, Goto, Keeps
<1>7. \A p : rpc[r] \in Moving /\ Moved(r, p) => Keeps(r)
  BY <1>0 DEF Moved, Goto, Keeps
<1> QED
  BY <1>1, <1>2, <1>3, <1>4, <1>5, <1>6, <1>7

LEMMA ReaderRemembers ==
  ASSUME TypeInv, NEW r \in Readers, ReaderStep(r) \/ CrashReader(r) \/ ReplaceReader(r)
  PROVE  Keeps(r) \/ Drops(r) \/ Takes(r) \/ Consumes(r)
<1> USE DEF ReaderLabels
<1>0. /\ rpc \in [Readers -> ReaderLabels] /\ rMsg \in [Readers -> Snapshot \union {Nil}]
      /\ rThen \in [Readers -> {"idle", "atPointer", "readerBucket", "respond"}]
  BY DEF TypeInv, ReadersTyped, ReadersOK
<1>1. CASE NextMessage(r) \/ GetCurrentInvisPointer(r) \/ TrackConsumed(r) \/ GetReaderCurrentBucket(r)
           \/ AdvanceMessageBucketPointer(r)
  BY <1>0, <1>1 DEF NextMessage, GetCurrentInvisPointer, TrackConsumed, GetReaderCurrentBucket,
    AdvanceMessageBucketPointer, Goto, Keeps, Delivering, Moving
<1>2. CASE ProcessCurrentInvisPointer(r)
  BY <1>2, ReaderEnds DEF ProcessCurrentInvisPointer, Unacked
<1>3. CASE ProcessBucket(r)
  <2>1. \A i \in First(Available(InvisBucket(rPtr[r]))) : i \in Index /\ rows[i] # Nil
    BY DEF First, Available, Messages, IndicesOf
  <2> QED
    BY <1>3, <2>1, ReaderEnds DEF ProcessBucket, TryAdvanceToNextBucket
<1>4. CASE FinalizedExists(r) \/ MonotonPastBucket(r) \/ CrashReader(r) \/ ReplaceReader(r)
  BY <1>4, ReaderEnds DEF FinalizedExists, MonotonPastBucket, CrashReader, ReplaceReader, TryAdvanceToNextBucket
<1>5. CASE MoveInvisBack(r) \/ MoveInvisOn(r) \/ RereadInvisPointer(r)
  <2>1. ASSUME NEW L \in {"moveOn", "rereadInvis"}, rpc[r] \in Moving, Decide(r, L) PROVE Keeps(r)
    BY <1>0, <2>1 DEF Decide, Goto, Keeps, Delivering, Moving
  <2> QED
    BY <1>5, <2>1, ReaderEnds DEF MoveInvisBack, MoveInvisOn, RereadInvisPointer, Moving
<1>6. CASE DeadLetter(r)
  BY <1>0, <1>6 DEF DeadLetter, Decide, Goto, Keeps, Delivering, Moving
<1>7. CASE AckDead(r) \/ Respond(r)
  BY <1>7, ReaderEnds DEF AckDead, Respond
<1>8. CASE RawConsume(r)
  <2> DEFINE m == rMsg[r]
             i == m.index
             version == m.version + 1
             count == m.count + 1
             row == [rows[i] EXCEPT !.version = version, !.count = count, !.visible = FALSE]
  <2>1. m \in Snapshot
    BY <1>8 DEF RawConsume, TypeInv, ReadersTyped, Holding
  <2>2. i \in Index /\ version \in Nat /\ count \in Nat
    BY <2>1 DEF Snapshot
  <2>3. CASE Unacked(i) /\ rows[i].version = m.version
    <3>1. rows[i] \in Row /\ ~rows[i].acked
      BY <2>2, <2>3 DEF Unacked, TypeInv, TablesOK
    <3>2. rows' = [rows EXCEPT ![i] = row] /\ rMsg' = rMsg /\ rpc'[r] # "ackDead"
      BY <1>0, <1>8, <2>2, <2>3 DEF RawConsume, Decide, Goto
    <3>3. version = m.version + 1 /\ i = m.index
      OBVIOUS
    <3>s. rows' = [rows EXCEPT ![i] = row] => rows'[i] = row
      BY <2>2 DEF TypeInv, TablesOK
    <3> HIDE DEF m, i, version, count
    <3>4. row.version = version /\ ~row.acked
      BY <2>2, <3>1 DEF Row
    <3> HIDE DEF row
    <3> QED
      BY <2>1, <3>2, <3>3, <3>4, <3>s DEF Consumes, m
  <2>4. CASE ~(Unacked(i) /\ rows[i].version = m.version)
    BY <1>8, <2>4, ReaderEnds DEF RawConsume
  <2> QED
    BY <2>3, <2>4
<1>9. CASE GetAndMark(r)
  <2>1. CASE \E i \in Index : rows[i] # Nil /\ Take(r, i, "Reader")
    BY <2>1, ReaderEnds
  <2>2. CASE Decide(r, "tombstone") \/ Decide(r, "monoton")
    BY <2>2, ReaderEnds
  <2> QED
    BY <1>9, <2>1, <2>2 DEF GetAndMark, First, Available, Messages, IndicesOf
<1>10. CASE Tombstone(r)
  BY <1>10, ReaderEnds DEF Tombstone
<1> QED
  BY <1>1, <1>2, <1>3, <1>4, <1>5, <1>6, <1>7, <1>8, <1>9, <1>10 DEF ReaderStep

LEMMA OneReaderKnows ==
  ASSUME TypeInv, TypeInv', CloseInv, KeepInv, Evolves, NEW r \in Readers,
         Keeps(r) \/ Drops(r) \/ Takes(r) \/ Consumes(r)
  PROVE  /\ \A i, p \in Index : rMsg'[r] # Nil /\ rMsg'[r].index = i /\ rMsg'[r].payload = p => Seen(i, p)'
         /\ \A i \in Index, v \in Nat :
              Delivering(r)' /\ rMsg'[r].index = i /\ rMsg'[r].version + 1 = v => Given(i, v)'
         /\ rpc'[r] = "ackDead" => rMsg'[r].payload \in dlq'
<1>0. ReadersKnow
  BY DEF KeepInv
<1>1. ASSUME NEW i \in Index, NEW p \in Index, rMsg'[r] # Nil, rMsg'[r].index = i, rMsg'[r].payload = p
      PROVE  Seen(i, p)'
  <2>1. CASE Takes(r)
    <3>1. rows[i] # Nil /\ rows[i].payload = p
      BY <1>1, <2>1 DEF Takes
    <3>2. Seen(i, p)
      BY <3>1, RowsAreUsed DEF Seen, KeepInv, PublishedKnown
    <3> QED
      BY <3>2, KnownStays
  <2>2. CASE rMsg'[r] = rMsg[r]
    BY <1>0, <1>1, <2>2, KnownStays DEF ReadersKnow
  <2> QED
    BY <1>1, <2>1, <2>2 DEF Keeps, Drops, Consumes
<1>2. ASSUME NEW i \in Index, NEW v \in Nat, Delivering(r)', rMsg'[r].index = i, rMsg'[r].version + 1 = v
      PROVE  Given(i, v)'
  <2>1. CASE Keeps(r)
    BY <1>0, <1>2, <2>1, KnownStays DEF ReadersKnow, Keeps
  <2>2. CASE Takes(r)
    BY <1>2, <2>2 DEF Takes, Delivering, Moving
  <2>3. CASE Consumes(r)
    <3>1. rMsg[r] # Nil /\ rMsg[r].index = i /\ rMsg[r].payload \in Index /\ rMsg[r].version + 1 = v
      BY <1>2, <2>3, NilAssumption DEF Consumes, Snapshot
    <3>2. Used(i)
      BY <1>0, <3>1 DEF ReadersKnow, Seen
    <3>3. Used(i)'
      BY <3>2, KnownStays
    <3> QED
      BY <2>3, <3>1, <3>3 DEF Consumes, Given
  <2> QED
    BY <1>2, <2>1, <2>2, <2>3 DEF Drops
<1>3. ASSUME rpc'[r] = "ackDead" PROVE rMsg'[r].payload \in dlq'
  BY <1>3 DEF Keeps, Drops, Takes, Consumes
<1> QED
  BY <1>1, <1>2, <1>3

LEMMA OthersKeep ==
  ASSUME TypeInv, TypeInv', KeepInv, Evolves, NEW q \in Readers,
         rpc'[q] = rpc[q] /\ rMsg'[q] = rMsg[q] /\ rThen'[q] = rThen[q]
  PROVE  Keeps(q)
BY DEF Keeps, Delivering, KeepInv, ReadersKnow, Evolves

\* A step of a reader leaves the other readers alone.
LEMMA ReaderStepsAlone ==
  ASSUME TypeInv, NEW r \in Readers, ReaderStep(r) \/ CrashReader(r) \/ ReplaceReader(r),
         NEW q \in Readers, q # r
  PROVE  rpc'[q] = rpc[q] /\ rMsg'[q] = rMsg[q] /\ rThen'[q] = rThen[q]
<1> USE DEF TypeInv, ReadersTyped, ReadersOK
<1>1. CASE NextMessage(r) \/ GetCurrentInvisPointer(r) \/ ProcessCurrentInvisPointer(r)
           \/ ProcessBucket(r) \/ FinalizedExists(r)
  BY <1>1 DEF NextMessage, GetCurrentInvisPointer, ProcessCurrentInvisPointer, ProcessBucket,
    FinalizedExists, Goto, Decide, Take, GetNext, Restart, MoveInvisTo, TryAdvanceToNextBucket
<1>2. CASE MoveInvisBack(r) \/ MoveInvisOn(r) \/ RereadInvisPointer(r)
  BY <1>2 DEF MoveInvisBack, MoveInvisOn, RereadInvisPointer, Moved, Goto, Decide
<1>3. CASE DeadLetter(r) \/ AckDead(r) \/ RawConsume(r) \/ TrackConsumed(r) \/ Respond(r)
  BY <1>3 DEF DeadLetter, AckDead, RawConsume, TrackConsumed, Respond, Missed, Goto, Decide,
    GetNext, ReaderIdle, Restart
<1>4. CASE GetReaderCurrentBucket(r) \/ GetAndMark(r) \/ MonotonPastBucket(r) \/ Tombstone(r)
           \/ AdvanceMessageBucketPointer(r) \/ CrashReader(r) \/ ReplaceReader(r)
  BY <1>4 DEF GetReaderCurrentBucket, GetAndMark, MonotonPastBucket, Tombstone,
    AdvanceMessageBucketPointer, CrashReader, ReplaceReader, Take, Goto, Decide, ReaderIdle, Restart
<1> QED
  BY <1>1, <1>2, <1>3, <1>4 DEF ReaderStep

\* Only readers step readers.
LEMMA OthersLeaveReaders ==
  ASSUME [Next]_vars, \A r \in Readers : ~(ReaderStep(r) \/ CrashReader(r) \/ ReplaceReader(r))
  PROVE  UNCHANGED <<readers, receipts>>
<1>1. CASE ClientStep
  BY <1>1 DEF ClientStep, NextMonotonic, PutMessage, AbandonClaim, Expire, AckMessage, clients
<1>2. ASSUME NEW w \in Repairers, RepairStep(w) \/ CrashRepairer(w) \/ ReplaceRepairer(w)
      PROVE  UNCHANGED <<readers, receipts>>
  BY <1>2 DEF RepairStep, Process, TombstoneExists, InspectBucket, WaitForTimeout, CollectUnclaimed,
    RepublishClaim, RepublishPut, RepublishAck, LimitToMonoton, AdvanceRepairBucketPointer,
    RereadRepairPointer, RecheckBucket, DeleteAllMessages, Finalize, MarkAsFinalized,
    CrashRepairer, ReplaceRepairer, RepairerReads, clients
<1>3. CASE UNCHANGED vars
  BY <1>3 DEF vars, clients
<1> QED
  BY <1>1, <1>2, <1>3 DEF Next

LEMMA ReadersStayInformed ==
  ASSUME TypeInv, TypeInv', CloseInv, KeepInv, [Next]_vars, Evolves
  PROVE  ReadersKnow'
<1>1. ASSUME NEW q \in Readers PROVE Keeps(q) \/ Drops(q) \/ Takes(q) \/ Consumes(q)
  <2>1. ASSUME NEW r \in Readers, ReaderStep(r) \/ CrashReader(r) \/ ReplaceReader(r)
        PROVE  Keeps(q) \/ Drops(q) \/ Takes(q) \/ Consumes(q)
    <3>1. CASE q = r
      BY <2>1, <3>1, ReaderRemembers
    <3>2. CASE q # r
      BY <2>1, <3>2, ReaderStepsAlone, OthersKeep
    <3> QED
      BY <3>1, <3>2
  <2>2. CASE \A r \in Readers : ~(ReaderStep(r) \/ CrashReader(r) \/ ReplaceReader(r))
    BY <2>2, OthersLeaveReaders, OthersKeep DEF readers
  <2> QED
    BY <2>1, <2>2
<1> QED
  BY <1>1, OneReaderKnows DEF ReadersKnow

\* A receipt is of a delivery.
LEMMA ReceiptsStayKnown ==
  ASSUME TypeInv, TypeInv', CloseInv, KeepInv, [Next]_vars, Evolves
  PROVE  ReceiptsKnow'
<1>0. ReceiptsKnow /\ ReadersKnow
  BY DEF KeepInv
<1>1. ASSUME NEW c \in receipts PROVE Given(c.index, c.version)'
  <2>1. c.index \in Index /\ c.version \in Nat /\ Given(c.index, c.version)
    BY <1>0 DEF ReceiptsKnow, TypeInv, ClientsOK, Receipt
  <2> QED
    BY <2>1, KnownStays
<1>2. ASSUME NEW r \in Readers, Respond(r) PROVE ReceiptsKnow'
  <2>1. rMsg[r] \in Snapshot /\ Delivering(r)
    BY <1>2 DEF Respond, TypeInv, ReadersTyped, Holding, Delivering
  <2>2. PICK i \in Index, v \in Nat : i = rMsg[r].index /\ v = rMsg[r].version + 1
    BY <2>1 DEF Snapshot
  <2>3. Given(i, v)
    BY <1>0, <2>1, <2>2 DEF ReadersKnow
  <2>4. Given(i, v)'
    BY <2>3, KnownStays
  <2>5. receipts' = receipts \union {[index |-> i, version |-> v]}
    BY <1>2, <2>2 DEF Respond
  <2> QED
    BY <1>1, <2>4, <2>5 DEF ReceiptsKnow
<1>3. ASSUME NEW r \in Readers, ReaderStep(r) \/ CrashReader(r) \/ ReplaceReader(r), ~Respond(r)
      PROVE  receipts' = receipts
  BY <1>3 DEF ReaderStep, NextMessage, GetCurrentInvisPointer, ProcessCurrentInvisPointer,
    ProcessBucket, FinalizedExists, MoveInvisBack, MoveInvisOn, RereadInvisPointer,
    DeadLetter, AckDead, RawConsume, TrackConsumed, GetReaderCurrentBucket,
    GetAndMark, MonotonPastBucket, Tombstone, AdvanceMessageBucketPointer,
    CrashReader, ReplaceReader, ReaderReads, OnlyInvisPointer, OnlyRows, clients
<1> QED
  BY <1>1, <1>2, <1>3, OthersLeaveReaders DEF ReceiptsKnow

-----------------------------------------------------------------------------
(* What the repair workers remember, and how sure they are of their buckets *)

\* Only repair workers step repair workers, and one at a time.
LEMMA OthersLeaveRepairers ==
  ASSUME [Next]_vars,
         \A w \in Repairers : ~(RepairStep(w) \/ CrashRepairer(w) \/ ReplaceRepairer(w))
  PROVE  UNCHANGED repairers
<1>1. CASE ClientStep
  BY <1>1 DEF ClientStep, NextMonotonic, PutMessage, AbandonClaim, Expire, AckMessage
<1>2. ASSUME NEW r \in Readers, ReaderStep(r) \/ CrashReader(r) \/ ReplaceReader(r)
      PROVE  UNCHANGED repairers
  BY <1>2 DEF ReaderStep, NextMessage, GetCurrentInvisPointer, ProcessCurrentInvisPointer,
    ProcessBucket, FinalizedExists, MoveInvisBack, MoveInvisOn, RereadInvisPointer,
    DeadLetter, AckDead, RawConsume, TrackConsumed, Respond, GetReaderCurrentBucket,
    GetAndMark, MonotonPastBucket, Tombstone, AdvanceMessageBucketPointer,
    CrashReader, ReplaceReader, ReaderReads, OnlyInvisPointer, OnlyRows
<1>3. CASE UNCHANGED vars
  BY <1>3 DEF vars
<1> QED
  BY <1>1, <1>2, <1>3 DEF Next

Same(w) ==
  /\ wpc'[w] = wpc[w] /\ wBucket'[w] = wBucket[w] /\ wWatched'[w] = wWatched[w]
  /\ wTodo'[w] = wTodo[w] /\ wClaim'[w] = wClaim[w]

LEMMA RepairStepsAlone ==
  ASSUME TypeInv, NEW w \in Repairers, RepairStep(w) \/ CrashRepairer(w) \/ ReplaceRepairer(w),
         NEW v \in Repairers, v # w
  PROVE  Same(v)
<1> USE DEF TypeInv, RepairersTyped, RepairersOK, Same, WDecide, WGoto, RepairerIdle, RepairerRestart
<1>1. CASE Process(w) \/ TombstoneExists(w) \/ InspectBucket(w) \/ WaitForTimeout(w)
           \/ CollectUnclaimed(w)
  BY <1>1 DEF Process, TombstoneExists, InspectBucket, WaitForTimeout, CollectUnclaimed
<1>2. CASE RepublishClaim(w) \/ RepublishPut(w) \/ RepublishAck(w)
  BY <1>2 DEF RepublishClaim, RepublishPut, RepublishAck
<1>3. CASE LimitToMonoton(w) \/ AdvanceRepairBucketPointer(w) \/ RereadRepairPointer(w)
  BY <1>3 DEF LimitToMonoton, AdvanceRepairBucketPointer, RereadRepairPointer, Advanced
<1>4. CASE RecheckBucket(w) \/ DeleteAllMessages(w) \/ Finalize(w) \/ MarkAsFinalized(w)
           \/ CrashRepairer(w) \/ ReplaceRepairer(w)
  BY <1>4 DEF RecheckBucket, DeleteAllMessages, Finalize, MarkAsFinalized, CrashRepairer, ReplaceRepairer
<1> QED
  BY <1>1, <1>2, <1>3, <1>4 DEF RepairStep

LEMMA TodoTyped ==
  ASSUME TypeInv, NEW w \in Repairers, NEW m \in wTodo[w]
  PROVE  m.index \in Index /\ m.payload \in Index /\ m.index \in Nat
BY MaxIndexAssumption DEF TypeInv, RepairersTyped, RepairersOK, Unclaimed, Index

\* A worker that keeps its list, or shortens it where nothing depends on it
LEMMA RepairerKeepsList ==
  ASSUME TypeInv, TypeInv', KeepInv, Evolves, NothingDropped, NEW w \in Repairers,
         wTodo'[w] \subseteq wTodo[w],
         wpc'[w] = "put" => wpc[w] = "put" /\ wClaim'[w] = wClaim[w],
         wpc'[w] = "ackOriginal" => wpc[w] = "ackOriginal" /\ wTodo'[w] = wTodo[w]
  PROVE  RepairerKnows(w)'
<1>0. RepairerKnows(w)
  BY DEF KeepInv, RepairersKnow
<1>1. ASSUME NEW m \in wTodo'[w] PROVE Seen(m.index, m.payload)'
  <2>1. m.index \in Index /\ m.payload \in Index /\ Seen(m.index, m.payload)
    BY <1>0, TodoTyped DEF RepairerKnows
  <2> QED
    BY <2>1, KnownStays
<1>2. ASSUME wpc'[w] = "ackOriginal", NEW m \in NextTodo(w)' PROVE Spared(m.payload, m.index)'
  <2>1. m \in NextTodo(w) /\ m \in wTodo[w] /\ wpc[w] = "ackOriginal"
    BY <1>2 DEF NextTodo
  <2>2. m.index \in Index /\ m.payload \in Index /\ Spared(m.payload, m.index)
    BY <1>0, <2>1, TodoTyped DEF RepairerKnows
  <2> QED
    BY <2>2, SparedStays
<1> QED
  BY <1>0, <1>1, <1>2 DEF RepairerKnows

LEMMA WalkingKeepsList ==
  ASSUME TypeInv, TypeInv', CloseInv, KeepInv, Evolves, NothingDropped, NEW w \in Repairers, Walking(w)
  PROVE  RepairerKnows(w)'
<1> USE DEF Walking
<1>1. wpc'[w] \notin {"put", "ackOriginal"}
  BY DEF Process, TombstoneExists, InspectBucket, WaitForTimeout, CollectUnclaimed,
    LimitToMonoton, AdvanceRepairBucketPointer, RereadRepairPointer, RecheckBucket, Finalize,
    MarkAsFinalized, CrashRepairer, ReplaceRepairer, RepairerRestart, RepairerIdle, WGoto, WDecide,
    Advanced, Disposal, Republishing, TypeInv, RepairersTyped, RepairersOK
<1>2. CASE CollectUnclaimed(w)
  <2>1. wTodo'[w] = {[index |-> i, payload |-> rows[i].payload, version |-> rows[i].version] :
                       i \in Available(wBucket[w]) \intersect NeverDelivered(wBucket[w])}
    BY <1>2 DEF CollectUnclaimed, TypeInv, RepairersTyped, RepairersOK
  <2>2. \A i \in Available(wBucket[w]) \intersect NeverDelivered(wBucket[w]) : i \in Index /\ rows[i] # Nil
    BY DEF Available, Messages, IndicesOf
  <2>3. ASSUME NEW m \in wTodo'[w]
        PROVE  \E i \in Index : /\ rows[i] # Nil
                 /\ m = [index |-> i, payload |-> rows[i].payload, version |-> rows[i].version]
    BY <2>1, <2>2
  <2>4. ASSUME NEW m \in wTodo'[w] PROVE Seen(m.index, m.payload)'
    <3>1. PICK i \in Index : rows[i] # Nil /\ m.index = i /\ m.payload = rows[i].payload
      BY <2>3
    <3>2. Seen(i, rows[i].payload) /\ rows[i].payload \in Index
      BY <3>1, RowsAreUsed DEF Seen, KeepInv, PublishedKnown, TypeInv, HistoryOK
    <3> QED
      BY <3>1, <3>2, KnownStays
  <2>5. \A m, n \in wTodo'[w] : m.index = n.index => m = n
    BY <2>3
  <2> QED
    BY <1>1, <2>4, <2>5 DEF RepairerKnows
<1>3. CASE ~CollectUnclaimed(w)
  <2>1. wTodo'[w] \subseteq wTodo[w]
    BY <1>3 DEF Process, TombstoneExists, InspectBucket, WaitForTimeout,
      LimitToMonoton, AdvanceRepairBucketPointer, RereadRepairPointer, RecheckBucket, Finalize,
      MarkAsFinalized, CrashRepairer, ReplaceRepairer, RepairerRestart, RepairerIdle, WDecide,
      Advanced, TypeInv, RepairersTyped, RepairersOK
  <2> QED
    BY <1>1, <2>1, RepairerKeepsList
<1> QED
  BY <1>2, <1>3

LEMMA RepublishingKeepsList ==
  ASSUME TypeInv, TypeInv', CloseInv, KeepInv, Evolves, NothingDropped, NEW w \in Repairers,
         RepublishClaim(w) \/ RepublishPut(w) \/ RepublishAck(w) \/ DeleteAllMessages(w)
  PROVE  RepairerKnows(w)'
<1>0. /\ wpc \in [Repairers -> RepairerLabels] /\ wClaim \in [Repairers -> Index \union {Nil}]
      /\ wTodo \in [Repairers -> SUBSET Unclaimed] /\ RepairerKnows(w)
  BY DEF TypeInv, RepairersTyped, RepairersOK, KeepInv, RepairersKnow
<1>s. ASSUME wTodo' = wTodo PROVE \A m \in wTodo'[w] : Seen(m.index, m.payload)'
  BY <1>0, <1>s, TodoTyped, KnownStays DEF RepairerKnows
<1>1. CASE RepublishClaim(w)
  <2>1. wTodo' = wTodo /\ wpc'[w] = "put" /\ wClaim'[w] = monoton
    BY <1>0, <1>1 DEF RepublishClaim, WGoto
  <2>2. \A m \in wTodo[w] : m.index < monoton
    BY <1>0 DEF RepairerKnows, Seen, Used
  <2> QED
    BY <1>0, <1>s, <2>1, <2>2 DEF RepairerKnows
<1>2. CASE RepublishPut(w)
  <2>0. PICK i \in Index : i = wClaim[w] /\ wpc[w] = "put" /\ rows[i] = Nil
    BY <1>2 DEF RepublishPut, TypeInv, RepairersTyped, Pending, KeepInv, ClaimsApart
  <2>1. PICK m \in NextTodo(w) :
          /\ rows' = [rows EXCEPT ![i] = NewRow(m.payload, TRUE)] /\ WDecide(w, "ackOriginal")
    BY <1>2, <2>0 DEF RepublishPut
  <2>2. wTodo' = wTodo /\ wpc'[w] = "ackOriginal" /\ m \in wTodo[w] /\ NextTodo(w)' = NextTodo(w)
    BY <1>0, <2>1 DEF WDecide, WGoto, NextTodo
  <2>3. m.index < i /\ m.index \in Nat /\ m.payload \in Index /\ i \in Nat
    BY <1>0, <2>0, <2>2, TodoTyped, MaxIndexAssumption DEF RepairerKnows, Index
  <2>4. NewRow(m.payload, TRUE) # Nil /\ ~NewRow(m.payload, TRUE).acked /\ NewRow(m.payload, TRUE).payload = m.payload
    BY <2>3, RowsTyped, NilAssumption DEF NewRow
  <2>5. Unacked(i)' /\ rows'[i].payload = m.payload
    BY <2>1, <2>4 DEF Unacked, TypeInv, TablesOK
  <2>6. Spared(m.payload, m.index)'
    BY <2>3, <2>5 DEF Spared
  <2>7. ASSUME NEW n \in NextTodo(w) PROVE n = m
    <3>1. n \in wTodo[w] /\ n.index <= m.index /\ m.index <= n.index /\ n.index \in Nat
      BY <2>2, TodoTyped DEF NextTodo
    <3> QED
      BY <1>0, <2>2, <2>3, <3>1 DEF RepairerKnows
  <2> QED
    BY <1>0, <1>s, <2>2, <2>6, <2>7 DEF RepairerKnows
<1>3. CASE RepublishAck(w)
  <2>1. PICK m \in NextTodo(w) : /\ wTodo' = [wTodo EXCEPT ![w] = wTodo[w] \ {m}]
                                 /\ wpc' = [wpc EXCEPT ![w] = Republishing(wTodo[w] \ {m})]
    BY <1>3 DEF RepublishAck, WGoto
  <2>2. wTodo'[w] \subseteq wTodo[w] /\ wpc'[w] \in {"limit", "claim"}
    BY <1>0, <2>1 DEF Republishing
  <2> QED
    BY <2>2, RepairerKeepsList
<1>4. CASE DeleteAllMessages(w)
  BY <1>0, <1>4, RepairerKeepsList DEF DeleteAllMessages, WDecide, WGoto
<1> QED
  BY <1>1, <1>2, <1>3, <1>4

LEMMA RepairersStayInformed ==
  ASSUME TypeInv, TypeInv', CloseInv, KeepInv, [Next]_vars, Evolves, NothingDropped
  PROVE  RepairersKnow'
<1>1. ASSUME NEW v \in Repairers PROVE RepairerKnows(v)'
  <2>1. Same(v) => RepairerKnows(v)'
    BY RepairerKeepsList DEF Same
  <2>2. ASSUME NEW w \in Repairers, RepairStep(w) \/ CrashRepairer(w) \/ ReplaceRepairer(w)
        PROVE  RepairerKnows(v)'
    <3>1. CASE v = w
      BY <2>2, <3>1, WalkingKeepsList, RepublishingKeepsList DEF RepairStep, Walking
    <3>2. CASE v # w
      BY <2>1, <2>2, <3>2, RepairStepsAlone
    <3> QED
      BY <3>1, <3>2
  <2>3. CASE \A w \in Repairers : ~(RepairStep(w) \/ CrashRepairer(w) \/ ReplaceRepairer(w))
    BY <2>1, <2>3, OthersLeaveRepairers DEF repairers, Same
  <2> QED
    BY <2>2, <2>3
<1> QED
  BY <1>1 DEF RepairersKnow

\* What a worker found out about its bucket before the step holds after it.
LEMMA SureAfter ==
  ASSUME TypeInv, Evolves, NEW w \in Repairers, NEW b \in Nat, wBucket'[w] = b,
         Waited(w)' => Complete(b), wpc'[w] = "delete" => Complete(b) /\ AllAcked(b)
  PROVE  DeleterSure(w)'
BY CompleteStays DEF DeleterSure

\* A bucket with a row at every index is complete (findFirstBucketToMonitor).
LEMMA FullIsComplete ==
  ASSUME TypeInv, KeepInv, NEW b \in Nat, Full(b), Closed(b)
  PROVE  Complete(b)
<1>1. ASSUME NEW i \in Index, Bucket(i) = b PROVE ~Pending(i)
  <2>1. i \in Nat /\ b * BucketSize <= i /\ i < (b + 1) * BucketSize
    BY <1>1, BucketBounds, MaxIndexAssumption DEF Index
  <2>2. i \in (b * BucketSize) .. (StartOfNext(b) - 1)
    BY <2>1, BucketSizeAssumption DEF StartOfNext
  <2> QED
    BY <2>2 DEF Full, KeepInv, ClaimsApart
<1> QED
  BY <1>1 DEF Complete

LEMMA FindingIsSure ==
  ASSUME PutsInTime, TypeInv, TypeInv', CloseInv, KeepInv, Evolves, NEW w \in Repairers,
         \/ Process(w) \/ TombstoneExists(w) \/ InspectBucket(w) \/ WaitForTimeout(w)
         \/ CollectUnclaimed(w) \/ RecheckBucket(w)
  PROVE  DeleterSure(w)'
<1> USE DEF TypeInv, RepairersTyped, RepairersOK, WDecide, WGoto
<1>0. PICK b \in Nat : b = wBucket[w]
  OBVIOUS
<1>1. DeleterSure(w)
  BY DEF KeepInv, DeletersSure
<1>2. CASE Process(w) \/ TombstoneExists(w)
  <2>1. wpc'[w] \in {"idle", "tombstone", "inspect"}
    BY <1>2 DEF Process, TombstoneExists, RepairerIdle, RepairerRestart
  <2> QED
    BY <2>1 DEF DeleterSure, Waited
<1>3. CASE InspectBucket(w)
  <2>1. wBucket'[w] = b /\ ~Waited(w)'
    BY <1>0, <1>3 DEF InspectBucket, Disposal, Waited
  <2>2. wpc'[w] = "delete" => Full(b) /\ AllAcked(b) /\ Closed(b)
    BY <1>0, <1>3, WorkersBucket DEF InspectBucket, Seeking
  <2> QED
    BY <2>1, <2>2, FullIsComplete, SureAfter
<1>4. CASE WaitForTimeout(w)
  <2>1. wBucket'[w] = b /\ wpc'[w] = "collect" /\ Closed(b)
    BY <1>0, <1>4, WorkersBucket DEF WaitForTimeout, Seeking
  <2>2. \A i \in Index : Pending(i) => Bucket(i) # b
    BY <1>0, <1>4 DEF WaitForTimeout, Pending, Outstanding
  <2> QED
    BY <2>1, <2>2, SureAfter DEF Complete
<1>5. CASE CollectUnclaimed(w)
  <2>1. wBucket'[w] = b /\ wWatched' = wWatched /\ wpc'[w] \in {"limit", "claim"} /\ wpc[w] = "collect"
    BY <1>0, <1>5 DEF CollectUnclaimed, Republishing
  <2> QED
    BY <1>0, <1>1, <2>1, SureAfter DEF DeleterSure, Waited
<1>6. CASE RecheckBucket(w)
  <2>1. wBucket'[w] = b /\ wpc[w] = "recheck" /\ ~Waited(w)' /\ (wpc'[w] = "delete" => AllAcked(b))
    BY <1>0, <1>6 DEF RecheckBucket, Disposal, Waited
  <2> QED
    BY <1>0, <1>1, <2>1, SureAfter DEF DeleterSure, Waited
<1> QED
  BY <1>2, <1>3, <1>4, <1>5, <1>6

LEMMA ClosingIsSure ==
  ASSUME TypeInv, TypeInv', KeepInv, Evolves, NEW w \in Repairers,
         \/ RepublishClaim(w) \/ RepublishPut(w) \/ RepublishAck(w)
         \/ LimitToMonoton(w) \/ AdvanceRepairBucketPointer(w) \/ RereadRepairPointer(w)
         \/ DeleteAllMessages(w) \/ Finalize(w) \/ MarkAsFinalized(w)
         \/ CrashRepairer(w) \/ ReplaceRepairer(w)
  PROVE  DeleterSure(w)'
<1> USE DEF TypeInv, RepairersTyped, RepairersOK, WDecide, WGoto
<1>0. PICK b \in Nat : b = wBucket[w]
  OBVIOUS
<1>1. DeleterSure(w)
  BY DEF KeepInv, DeletersSure
<1>2. CASE wpc'[w] \in {"idle", "tombstone", "finalize", "markFinalized", "down"}
  BY <1>2 DEF DeleterSure, Waited
<1>3. CASE wBucket'[w] = b /\ Waited(w) /\ wpc'[w] # "delete"
  BY <1>0, <1>1, <1>3, SureAfter DEF DeleterSure
<1>4. CASE wBucket'[w] = b /\ wWatched' = wWatched
           /\ wpc[w] \in {"limit", "advance", "rereadRepair"} /\ wpc'[w] \in {"limit", "advance", "rereadRepair"}
  BY <1>0, <1>1, <1>4, SureAfter DEF DeleterSure, Waited
<1>5. CASE RepublishClaim(w) \/ RepublishPut(w) \/ RepublishAck(w)
  BY <1>0, <1>2, <1>3, <1>5
  DEF RepublishClaim, RepublishPut, RepublishAck, Waited, Republishing, RepairerIdle, RepairerRestart
<1>6. CASE LimitToMonoton(w) \/ AdvanceRepairBucketPointer(w) \/ RereadRepairPointer(w)
  BY <1>0, <1>2, <1>3, <1>4, <1>6
  DEF LimitToMonoton, AdvanceRepairBucketPointer, RereadRepairPointer, Advanced, Waited
<1>7. CASE Finalize(w)
  <2>1. wpc'[w] = "limit" => ~Waited(w)'
    BY <1>7 DEF Finalize, Waited
  <2>2. wpc'[w] \in {"limit", "markFinalized"}
    BY <1>7 DEF Finalize
  <2> QED
    BY <1>2, <2>1, <2>2 DEF DeleterSure
<1>8. CASE DeleteAllMessages(w) \/ MarkAsFinalized(w) \/ CrashRepairer(w) \/ ReplaceRepairer(w)
  BY <1>2, <1>8 DEF DeleteAllMessages, MarkAsFinalized, CrashRepairer, ReplaceRepairer, RepairerIdle, RepairerRestart
<1> QED
  BY <1>5, <1>6, <1>7, <1>8

LEMMA DeletersStaySure ==
  ASSUME PutsInTime, TypeInv, TypeInv', CloseInv, KeepInv, [Next]_vars, Evolves
  PROVE  DeletersSure'
<1>1. ASSUME NEW v \in Repairers PROVE DeleterSure(v)'
  <2>0. PICK b \in Nat : b = wBucket[v]
    BY DEF TypeInv, RepairersTyped, RepairersOK
  <2>1. Same(v) => DeleterSure(v)'
    <3> SUFFICES ASSUME Same(v) PROVE DeleterSure(v)'
      OBVIOUS
    <3>1. wBucket'[v] = b /\ (Waited(v)' => Waited(v)) /\ wpc'[v] = wpc[v]
      BY <2>0 DEF Same, Waited
    <3> QED
      BY <2>0, <3>1, SureAfter DEF KeepInv, DeletersSure, DeleterSure
  <2>2. ASSUME NEW w \in Repairers, RepairStep(w) \/ CrashRepairer(w) \/ ReplaceRepairer(w)
        PROVE  DeleterSure(v)'
    <3>1. CASE v = w
      BY <2>2, <3>1, FindingIsSure, ClosingIsSure DEF RepairStep
    <3>2. CASE v # w
      BY <2>1, <2>2, <3>2, RepairStepsAlone
    <3> QED
      BY <3>1, <3>2
  <2>3. CASE \A w \in Repairers : ~(RepairStep(w) \/ CrashRepairer(w) \/ ReplaceRepairer(w))
    BY <2>1, <2>3, OthersLeaveRepairers DEF repairers, Same
  <2> QED
    BY <2>2, <2>3
<1> QED
  BY <1>1 DEF DeletersSure

-----------------------------------------------------------------------------
(* The theorems *)

LEMMA NextKeeps ==
  ASSUME PutsInTime, TypeInv, TypeInv', CloseInv, KeepInv, [Next]_vars
  PROVE  KeepInv'
<1>1. Evolves /\ NothingDropped
  BY NextEvolves
<1>2. ClaimsApart' /\ PublishedKnown' /\ ReadersKnow' /\ ReceiptsKnow'
  BY <1>1, ClaimsStayApart, PublishedStayKnown, ReadersStayInformed, ReceiptsStayKnown
<1>3. RepairersKnow' /\ DeletersSure' /\ NothingLost'
  BY <1>1, RepairersStayInformed, DeletersStaySure, NothingLostStays DEF KeepInv
<1> QED
  BY <1>2, <1>3 DEF KeepInv

\* No message is lost, however many publishers, readers and repair workers race
\* and crash between the statements of a put, a delivery, a republish and the
\* deletion of a bucket: what was put is acknowledged, dead lettered or still in
\* a row nobody acknowledged.
THEOREM NothingLostAlways == ASSUME PutsInTime PROVE Spec => []NothingLost
<1>1. TypeInv /\ CloseInv /\ KeepInv /\ [Next]_vars => KeepInv'
  BY NextTyped, NextKeeps
<1>2. KeepInv => NothingLost
  BY DEF KeepInv
<1> QED
  BY InitTyped, NextTyped, InitClosed, NextClosed, InitKeeps, <1>1, <1>2, PTL DEF Spec

-----------------------------------------------------------------------------
(* Deletion *)

LEMMA RowStays ==
  ASSUME TypeInv, NEW j \in Index, NEW row \in Row, rows' = [rows EXCEPT ![j] = row]
  PROVE  \A i \in Index : rows[i] # Nil => rows'[i] # Nil
BY NilAssumption DEF TypeInv, TablesOK

LEMMA OnlyAckedGo ==
  ASSUME TypeInv, KeepInv, [Next]_vars
  PROVE  \A i \in Index : Unacked(i) => rows'[i] # Nil
<1> USE DEF TypeInv, TablesOK
<1>1. CASE ClientStep
  <2>1. ASSUME NEW i \in Index, PutMessage(i) PROVE rows' = rows \/ \E row \in Row : rows' = [rows EXCEPT ![i] = row]
    BY <2>1, RowsTyped, FlagsAssumption DEF PutMessage
  <2>2. ASSUME NEW i \in Index, Expire(i) PROVE \E row \in Row : rows' = [rows EXCEPT ![i] = row]
    <3>1. rows[i] \in Row
      BY <2>2 DEF Expire, Unacked
    <3> QED
      BY <2>2, <3>1, RowsTyped DEF Expire
  <2>3. ASSUME NEW c \in receipts, AckMessage(c)
        PROVE  c.index \in Index /\ \E row \in Row : rows' = [rows EXCEPT ![c.index] = row]
    <3>1. c.index \in Index /\ rows[c.index] \in Row
      BY <2>3 DEF AckMessage, AckApplies, ClientsOK, Receipt
    <3> QED
      BY <2>3, <3>1, RowsTyped DEF AckMessage
  <2>4. CASE NextMonotonic \/ \E i \in Index : AbandonClaim(i)
    BY <2>4 DEF NextMonotonic, AbandonClaim, tables, Unacked
  <2> QED
    BY <1>1, <2>1, <2>2, <2>3, <2>4, RowStays DEF ClientStep, Unacked
<1>2. ASSUME NEW r \in Readers, ReaderStep(r) \/ CrashReader(r) \/ ReplaceReader(r)
      PROVE  \A i \in Index : rows[i] # Nil => rows'[i] # Nil
  <2>1. CASE AckDead(r)
    <3> DEFINE i == rMsg[r].index
    <3>1. i \in Index
      BY <2>1, NilAssumption DEF AckDead, ReadersTyped, Holding, Snapshot
    <3>2. rows[i] # Nil => Acked(rows[i]) \in Row
      BY <3>1, RowsTyped
    <3> QED
      BY <2>1, <3>1, <3>2, RowStays DEF AckDead, AckApplies
  <2>2. CASE RawConsume(r)
    <3> DEFINE m == rMsg[r]
               i == m.index
               version == m.version + 1
               count == m.count + 1
               row == [rows[i] EXCEPT !.version = version, !.count = count, !.visible = FALSE]
    <3>1. i \in Index /\ version \in Nat /\ count \in Nat
      BY <2>2 DEF RawConsume, ReadersTyped, Holding, Snapshot
    <3>2. rows' = rows \/ (rows[i] # Nil /\ rows' = [rows EXCEPT ![i] = row])
      BY <2>2, <3>1 DEF RawConsume, Unacked
    <3> HIDE DEF m, i, version, count
    <3>3. rows[i] # Nil => row \in Row
      BY <3>1, RowsTyped
    <3> HIDE DEF row
    <3> QED
      BY <3>1, <3>2, <3>3, RowStays
  <2>3. CASE ~AckDead(r) /\ ~RawConsume(r)
    BY <1>2, <2>3 DEF ReaderStep, NextMessage, GetCurrentInvisPointer, ProcessCurrentInvisPointer,
      ProcessBucket, FinalizedExists, MoveInvisBack, MoveInvisOn, RereadInvisPointer,
      DeadLetter, TrackConsumed, Respond, GetReaderCurrentBucket,
      GetAndMark, MonotonPastBucket, Tombstone, AdvanceMessageBucketPointer,
      CrashReader, ReplaceReader, ReaderReads, OnlyInvisPointer, tables
  <2> QED
    BY <2>1, <2>2, <2>3
<1>3. ASSUME NEW w \in Repairers, RepublishPut(w) \/ RepublishAck(w)
      PROVE  \A i \in Index : rows[i] # Nil => rows'[i] # Nil
  <2>1. CASE RepublishPut(w)
    <3>0. PICK i \in Index : i = wClaim[w]
      BY <2>1 DEF RepublishPut, RepairersTyped
    <3>1. \A m \in NextTodo(w) : NewRow(m.payload, TRUE) \in Row
      BY RowsTyped, TodoTyped DEF NextTodo
    <3> QED
      BY <2>1, <3>0, <3>1, RowStays DEF RepublishPut
  <2>2. CASE RepublishAck(w)
    <3>1. \A m \in NextTodo(w) : m.index \in Index /\ (rows[m.index] # Nil => Acked(rows[m.index]) \in Row)
      BY RowsTyped, TodoTyped DEF NextTodo
    <3> QED
      BY <2>2, <3>1, RowStays DEF RepublishAck, AckApplies
  <2> QED
    BY <1>3, <2>1, <2>2
<1>4. ASSUME NEW w \in Repairers, DeleteAllMessages(w), NEW i \in Index, Unacked(i)
      PROVE  rows'[i] # Nil
  <2>1. PICK b \in Nat : b = wBucket[w]
    BY DEF RepairersTyped, RepairersOK
  <2>2. AllAcked(b)
    BY <1>4, <2>1 DEF DeleteAllMessages, KeepInv, DeletersSure, DeleterSure
  <2> QED
    BY <1>4, <2>1, <2>2 DEF DeleteAllMessages, AllAcked, Messages, IndicesOf, Unacked
<1>5. ASSUME NEW w \in Repairers, Walking(w) \/ RepublishClaim(w) PROVE rows' = rows
  BY <1>5, WalkingEvolves DEF RepublishClaim
<1>6. CASE UNCHANGED vars
  BY <1>6 DEF vars, tables, Unacked
<1> QED
  BY <1>1, <1>2, <1>3, <1>4, <1>5, <1>6 DEF Next, RepairStep, Walking, Unacked

\* A bucket is dropped only when no row in it is unacknowledged at that very
\* statement, although RepairWorkerImpl read the bucket one statement earlier and
\* readers, consumers and other workers went on in between.
THEOREM OnlyAckedDeletedAlways == ASSUME PutsInTime PROVE Spec => OnlyAckedDeleted
<1>1. TypeInv /\ CloseInv /\ KeepInv /\ [Next]_vars => KeepInv'
  BY NextTyped, NextKeeps
<1>2. TypeInv /\ CloseInv /\ KeepInv /\ [Next]_vars => [\A i \in Index : Unacked(i) => rows'[i] # Nil]_vars
  BY OnlyAckedGo
<1> QED
  BY InitTyped, NextTyped, InitClosed, NextClosed, InitKeeps, <1>1, <1>2, PTL DEF Spec, OnlyAckedDeleted

-----------------------------------------------------------------------------
(* The refinement: every step of the queue is a step of AtLeastOnce, or none. *)

\* The payloads AtLeastOnce stores
Stored == {rows[i].payload : i \in {j \in Index : Unacked(j)}}

LEMMA StoredAsBefore ==
  ASSUME \A i \in Index : /\ Unacked(i)' <=> Unacked(i)
                          /\ Unacked(i) => rows'[i].payload = rows[i].payload
  PROVE  Stored' = Stored
BY DEF Stored

LEMMA StoredChanged ==
  ASSUME TypeInv, NEW i \in Index, NEW row \in Row, rows' = [rows EXCEPT ![i] = row],
         rows[i] # Nil, row.payload = rows[i].payload, row.acked = rows[i].acked
  PROVE  Stored' = Stored
<1>1. rows'[i] = row /\ \A j \in Index : j # i => rows'[j] = rows[j]
  BY DEF TypeInv, TablesOK
<1> QED
  BY <1>1, NilAssumption, StoredAsBefore DEF Unacked

LEMMA StoredPut ==
  ASSUME TypeInv, NEW i \in Index, NEW p \in Index, NEW vis \in BOOLEAN, rows[i] = Nil,
         rows' = [rows EXCEPT ![i] = NewRow(p, vis)]
  PROVE  Stored' = Stored \union {p}
<1> DEFINE row == NewRow(p, vis)
<1>1. row \in Row /\ row # Nil /\ row.payload = p /\ ~row.acked
  BY RowsTyped, NilAssumption DEF NewRow
<1> HIDE DEF row
<1>2. rows'[i] = row /\ \A j \in Index : j # i => rows'[j] = rows[j]
  BY DEF TypeInv, TablesOK, row
<1> QED
  BY <1>1, <1>2 DEF Stored, Unacked

LEMMA StoredAcked ==
  ASSUME TypeInv, NEW i \in Index, rows[i] # Nil, rows' = [rows EXCEPT ![i] = Acked(rows[i])],
         NEW p, p = rows[i].payload
  PROVE  /\ Stored' = Stored \/ (p \in Stored /\ Stored' = Stored \ {p})
         /\ ~rows[i].acked => p \in Stored
         /\ (\E k \in Index : k # i /\ Unacked(k) /\ rows[k].payload = p) => Stored' = Stored
<1> DEFINE row == Acked(rows[i])
<1>1. rows[i] \in Row /\ row \in Row /\ row.acked
  BY AckedRow DEF TypeInv, TablesOK
<1> HIDE DEF row
<1>2. rows'[i] = row /\ \A j \in Index : j # i => rows'[j] = rows[j]
  BY DEF TypeInv, TablesOK, row
<1>3. ~Unacked(i)' /\ \A j \in Index : j # i => (Unacked(j)' <=> Unacked(j))
  BY <1>1, <1>2 DEF Unacked
<1>4. ~rows[i].acked => p \in Stored
  BY DEF Stored, Unacked
<1>5. CASE \E k \in Index : k # i /\ Unacked(k) /\ rows[k].payload = p
  <2>1. Stored' = Stored
    BY <1>2, <1>3, <1>5 DEF Stored
  <2> QED
    BY <1>4, <2>1
<1>6. CASE rows[i].acked
  <2>1. Stored' = Stored
    BY <1>2, <1>3, <1>6, StoredAsBefore DEF Unacked
  <2> QED
    BY <1>6, <2>1
<1>7. CASE ~rows[i].acked /\ ~\E k \in Index : k # i /\ Unacked(k) /\ rows[k].payload = p
  <2>1. Stored' = Stored \ {p}
    BY <1>2, <1>3, <1>7 DEF Stored
  <2> QED
    BY <1>4, <1>7, <2>1
<1> QED
  BY <1>5, <1>6, <1>7

LEMMA InitContract == Init => Contract!Init
BY DEF Init, Contract!Init, Unacked

\* What a step of the contract says in terms of Stored
LEMMA ContractSteps ==
  ASSUME NEW p \in Index
  PROVE  /\ /\ p \notin published /\ published' = published \union {p}
            /\ Stored' = Stored \union {p} /\ UNCHANGED <<done, dlq>>
            => Contract!Next
         /\ /\ p \in Stored /\ done' = done \union {p}
            /\ Stored' = Stored \/ Stored' = Stored \ {p}
            /\ UNCHANGED <<published, dlq>>
            => Contract!Next
         /\ /\ p \in published /\ dlq' = dlq \union {p} /\ UNCHANGED <<published, done>> /\ Stored' = Stored
            => Contract!Next
         /\ /\ p \in Stored /\ p \in done \union dlq
            /\ Stored' = Stored \ {p} /\ UNCHANGED <<published, done, dlq>>
            => Contract!Next
         /\ /\ p \in published /\ Stored' = Stored \union {p} /\ UNCHANGED <<published, done, dlq>>
            => Contract!Next
         /\ /\ Stored' = Stored /\ UNCHANGED <<published, done, dlq>>
            => UNCHANGED Contract!vars
BY DEF Contract!Next, Contract!Publish, Contract!Acknowledge, Contract!GiveUp, Contract!Remove,
       Contract!StoreAgain, Contract!vars, Stored

ContractStep == Contract!Next \/ UNCHANGED Contract!vars

LEMMA ClientsKeepContract ==
  ASSUME TypeInv, CloseInv, KeepInv, ClientStep
  PROVE  ContractStep
<1> USE DEF ContractStep, TypeInv, TablesOK
<1>1. CASE NextMonotonic \/ \E i \in Index : AbandonClaim(i)
  <2>1. UNCHANGED <<rows, published, done, dlq>>
    BY <1>1 DEF NextMonotonic, AbandonClaim, tables, history
  <2> QED
    BY <2>1 DEF Contract!vars, Unacked
<1>2. ASSUME NEW i \in Index, PutMessage(i) PROVE ContractStep
  <2>1. i \in claims /\ Pending(i) /\ rows[i] = Nil /\ i \notin published
    BY <1>2 DEF PutMessage, Pending, KeepInv, ClaimsApart, PublishedKnown, Used
  <2>2. published' = published \union {i} /\ UNCHANGED <<done, dlq>>
    BY <1>2, <2>1 DEF PutMessage
  <2>3. PICK vis \in BOOLEAN : rows' = [rows EXCEPT ![i] = NewRow(i, vis)]
    BY <1>2, <2>1, FlagsAssumption DEF PutMessage
  <2>4. Stored' = Stored \union {i}
    BY <2>1, <2>3, StoredPut
  <2> QED
    BY <2>1, <2>2, <2>4, ContractSteps
<1>3. ASSUME NEW i \in Index, Expire(i) PROVE ContractStep
  <2> DEFINE row == [rows[i] EXCEPT !.visible = TRUE]
  <2>1. rows[i] \in Row /\ rows[i] # Nil
    BY <1>3 DEF Expire, Unacked
  <2>2. row \in Row /\ row.payload = rows[i].payload /\ row.acked = rows[i].acked /\ rows[i].payload \in Index
    BY <2>1 DEF Row
  <2>3. rows' = [rows EXCEPT ![i] = row] /\ UNCHANGED <<published, done, dlq>>
    BY <1>3 DEF Expire, history
  <2> HIDE DEF row
  <2>4. Stored' = Stored
    BY <2>1, <2>2, <2>3, StoredChanged
  <2> QED
    BY <2>2, <2>3, <2>4, ContractSteps
<1>4. ASSUME NEW c \in receipts, AckMessage(c) PROVE ContractStep
  <2>1. /\ c.index \in Index /\ c.version \in Nat /\ rows[c.index] # Nil
        /\ rows[c.index].version = c.version /\ rows[c.index] \in Row
    BY <1>4 DEF AckMessage, AckApplies, ClientsOK, Receipt
  <2>2. ~rows[c.index].acked
    BY <2>1 DEF KeepInv, ReceiptsKnow, Given
  <2>3. PICK p \in Index : p = rows[c.index].payload
    BY <2>1 DEF Row
  <2>4. rows' = [rows EXCEPT ![c.index] = Acked(rows[c.index])] /\ done' = done \union {p}
        /\ UNCHANGED <<published, dlq>>
    BY <1>4, <2>3 DEF AckMessage
  <2>5. p \in Stored /\ (Stored' = Stored \/ Stored' = Stored \ {p})
    BY <2>1, <2>2, <2>3, <2>4, StoredAcked
  <2> QED
    BY <2>4, <2>5, ContractSteps
<1> QED
  BY <1>1, <1>2, <1>3, <1>4 DEF ClientStep

LEMMA ReadersKeepContract ==
  ASSUME TypeInv, KeepInv, NEW r \in Readers, ReaderStep(r) \/ CrashReader(r) \/ ReplaceReader(r)
  PROVE  ContractStep
<1> USE DEF ContractStep, TypeInv, TablesOK
<1>1. CASE DeadLetter(r)
  <2>1. rMsg[r] \in Snapshot /\ rMsg[r] # Nil
    BY <1>1, NilAssumption DEF DeadLetter, ReadersTyped, Holding
  <2>2. PICK p \in Index : p = rMsg[r].payload /\ p \in published
    BY <2>1 DEF Snapshot, KeepInv, ReadersKnow, Seen
  <2>3. dlq' = dlq \union {p} /\ UNCHANGED <<rows, published, done>>
    BY <1>1, <2>2 DEF DeadLetter, tables
  <2>4. Stored' = Stored
    BY <2>3 DEF Stored, Unacked
  <2> QED
    BY <2>2, <2>3, <2>4, ContractSteps
<1>2. CASE AckDead(r)
  <2> DEFINE i == rMsg[r].index
             p == rMsg[r].payload
  <2>1. rMsg[r] \in Snapshot /\ rMsg[r] # Nil /\ UNCHANGED <<published, done, dlq>>
    BY <1>2, NilAssumption DEF AckDead, ReadersTyped, Holding, OnlyRows, history
  <2>2. i \in Index /\ p \in Index /\ p \in dlq
    BY <1>2, <2>1 DEF AckDead, Snapshot, KeepInv, ReadersKnow
  <2>3. CASE AckApplies(i, rMsg[r].version)
    <3>1. rows[i] # Nil /\ rows' = [rows EXCEPT ![i] = Acked(rows[i])]
      BY <1>2, <2>2, <2>3 DEF AckDead, AckApplies
    <3>2. rows[i].payload = p
      BY <2>1, <2>2, <3>1 DEF KeepInv, ReadersKnow, Seen
    <3>3. Stored' = Stored \/ (p \in Stored /\ Stored' = Stored \ {p})
      BY <2>2, <3>1, <3>2, StoredAcked
    <3> QED
      BY <2>1, <2>2, <3>3, ContractSteps
  <2>4. CASE ~AckApplies(i, rMsg[r].version)
    BY <1>2, <2>1, <2>2, <2>4, ContractSteps DEF AckDead, Stored, Unacked
  <2> QED
    BY <2>3, <2>4
<1>3. CASE RawConsume(r)
  <2> DEFINE m == rMsg[r]
             i == m.index
             version == m.version + 1
             count == m.count + 1
             row == [rows[i] EXCEPT !.version = version, !.count = count, !.visible = FALSE]
  <2>1. i \in Index /\ version \in Nat /\ count \in Nat /\ UNCHANGED <<published, done, dlq>>
    BY <1>3 DEF RawConsume, ReadersTyped, Holding, Snapshot, OnlyRows, history
  <2>2. rows' = rows \/ (rows[i] # Nil /\ rows' = [rows EXCEPT ![i] = row])
    BY <1>3, <2>1 DEF RawConsume, Unacked
  <2> HIDE DEF m, i, version, count
  <2>3. rows[i] # Nil => rows[i] \in Row
    BY <2>1
  <2>4. rows[i] # Nil => row \in Row /\ row.payload = rows[i].payload /\ row.acked = rows[i].acked
    BY <2>1, <2>3 DEF Row
  <2> HIDE DEF row
  <2>5. Stored' = Stored
    BY <2>1, <2>2, <2>4, StoredChanged DEF Stored, Unacked
  <2> QED
    BY <2>1, <2>5, ContractSteps
<1>4. CASE ~DeadLetter(r) /\ ~AckDead(r) /\ ~RawConsume(r)
  <2>1. UNCHANGED <<rows, published, done, dlq>>
    BY <1>4 DEF ReaderStep, NextMessage, GetCurrentInvisPointer, ProcessCurrentInvisPointer,
      ProcessBucket, FinalizedExists, MoveInvisBack, MoveInvisOn, RereadInvisPointer,
      TrackConsumed, Respond, GetReaderCurrentBucket,
      GetAndMark, MonotonPastBucket, Tombstone, AdvanceMessageBucketPointer,
      CrashReader, ReplaceReader, ReaderReads, OnlyInvisPointer, tables, history
  <2> QED
    BY <2>1 DEF Contract!vars, Unacked
<1> QED
  BY <1>1, <1>2, <1>3, <1>4

LEMMA RepairersKeepContract ==
  ASSUME TypeInv, KeepInv, NEW w \in Repairers, RepairStep(w) \/ CrashRepairer(w) \/ ReplaceRepairer(w)
  PROVE  ContractStep
<1> USE DEF ContractStep, TypeInv, TablesOK
<1>0. RepairerKnows(w)
  BY DEF KeepInv, RepairersKnow
<1>1. CASE Walking(w) \/ RepublishClaim(w)
  BY <1>1, WalkingEvolves DEF RepublishClaim, history, Contract!vars, Unacked
<1>2. CASE RepublishPut(w)
  <2>0. PICK i \in Index : i = wClaim[w] /\ rows[i] = Nil
    BY <1>2 DEF RepublishPut, RepairersTyped, Pending, KeepInv, ClaimsApart
  <2>1. PICK m \in NextTodo(w) : rows' = [rows EXCEPT ![i] = NewRow(m.payload, TRUE)]
    BY <1>2, <2>0 DEF RepublishPut
  <2>2. PICK p \in Index : p = m.payload /\ p \in published
    BY <1>0, <2>1, TodoTyped DEF NextTodo, RepairerKnows, Seen
  <2>3. Stored' = Stored \union {p}
    BY <2>0, <2>1, <2>2, StoredPut
  <2>4. UNCHANGED <<published, done, dlq>>
    BY <1>2 DEF RepublishPut, history
  <2> QED
    BY <2>2, <2>3, <2>4, ContractSteps
<1>3. CASE RepublishAck(w)
  <2>1. PICK m \in NextTodo(w) :
          IF AckApplies(m.index, m.version)
            THEN rows' = [rows EXCEPT ![m.index] = Acked(rows[m.index])]
            ELSE UNCHANGED rows
    BY <1>3 DEF RepublishAck
  <2>2. PICK i \in Index, p \in Index : i = m.index /\ p = m.payload /\ Seen(i, p) /\ Spared(p, i)
    BY <1>0, <1>3, <2>1, TodoTyped DEF RepublishAck, NextTodo, RepairerKnows
  <2>3. UNCHANGED <<published, done, dlq>>
    BY <1>3 DEF RepublishAck, history
  <2>4. CASE AckApplies(i, m.version)
    <3>1. rows[i] # Nil /\ rows[i].payload = p /\ rows' = [rows EXCEPT ![i] = Acked(rows[i])]
      BY <2>1, <2>2, <2>4 DEF AckApplies, Seen
    <3>2. /\ Stored' = Stored \/ (p \in Stored /\ Stored' = Stored \ {p})
          /\ (\E k \in Index : k # i /\ Unacked(k) /\ rows[k].payload = p) => Stored' = Stored
      BY <3>1, StoredAcked
    <3>3. \A k \in Index : k > i => k # i
      BY MaxIndexAssumption DEF Index
    <3>4. p \in done \union dlq \/ Stored' = Stored
      BY <2>2, <3>2, <3>3 DEF Spared
    <3> QED
      BY <2>3, <3>2, <3>4, ContractSteps
  <2>5. CASE ~AckApplies(i, m.version)
    BY <2>1, <2>2, <2>3, <2>5 DEF Contract!vars, Unacked
  <2> QED
    BY <2>4, <2>5
<1>4. CASE DeleteAllMessages(w)
  <2>1. PICK b \in Nat : b = wBucket[w] /\ AllAcked(b)
    BY <1>4 DEF DeleteAllMessages, RepairersTyped, RepairersOK, KeepInv, DeletersSure, DeleterSure
  <2>2. rows' = [i \in Index |-> IF Bucket(i) = b THEN Nil ELSE rows[i]] /\ UNCHANGED <<published, done, dlq>>
    BY <1>4, <2>1 DEF DeleteAllMessages, history
  <2>3. Stored' = Stored
    BY <2>1, <2>2, StoredAsBefore DEF AllAcked, Messages, IndicesOf, Unacked
  <2> QED
    BY <2>2, <2>3 DEF Contract!vars, Stored
<1> QED
  BY <1>1, <1>2, <1>3, <1>4 DEF RepairStep, Walking

\* What publishers and consumers see of the pointers, the buckets and the workers
\* is the at-least-once queue: a put publishes, an acknowledgement or a dead
\* letter is the only way out, and everything else the readers and repair workers
\* do, and every crash, is invisible or stores a payload again.
THEOREM ImplementsContract == ASSUME PutsInTime PROVE Spec => ImplementsAtLeastOnce
<1>1. TypeInv /\ CloseInv /\ KeepInv /\ [Next]_vars => KeepInv'
  BY NextTyped, NextKeeps
<1>2. TypeInv /\ CloseInv /\ KeepInv /\ [Next]_vars => [Contract!Next]_(Contract!vars)
  <2> SUFFICES ASSUME TypeInv, CloseInv, KeepInv, [Next]_vars PROVE ContractStep
    BY DEF ContractStep
  <2>1. CASE UNCHANGED vars
    BY <2>1 DEF vars, tables, history, ContractStep, Contract!vars, Unacked
  <2> QED
    BY <2>1, ClientsKeepContract, ReadersKeepContract, RepairersKeepContract DEF Next
<1> QED
  BY InitTyped, NextTyped, InitClosed, NextClosed, InitKeeps, InitContract, <1>1, <1>2, PTL
  DEF Spec, ImplementsAtLeastOnce, Contract!Spec
=============================================================================
