----------------------- MODULE MessageLifecycleProofs -----------------------
(***************************************************************************)
(* Theorems about MessageLifecycle, for any consumers, publishers, repair  *)
(* workers and delivery limit.                                             *)
(***************************************************************************)
EXTENDS MessageLifecycle, TLAPS

-----------------------------------------------------------------------------
(* Type correctness *)

\* What a thread has in hand at each statement
InHand ==
  \A t \in Threads :
    /\ pc[t] \in {"claim", "ackOriginal"} => t \in Repairers
    /\ pc[t] \in {"consume", "deadLetter", "ackDead", "reread"} => t \in Clients
    /\ pc[t] \in {"claim", "ackOriginal", "consume", "deadLetter", "ackDead", "reread"}
         => found[t] \in Message
    /\ pc[t] \in {"put", "countUp"} => t \in Publishers \union Repairers
    /\ pc[t] \in {"put", "countUp"} /\ t \in Repairers => found[t] \in Message
    /\ pc[t] = "put" => slot[t] \in Index
    /\ pc[t] = "consume" => found[t].count < MaxDelivery
    /\ pc[t] = "reread" => held[t] \in Receipt

TypeInv == TypeOK /\ InHand

Labels == {"idle", "claim", "put", "countUp", "consume", "deadLetter", "ackDead",
           "ackOriginal", "countDown", "reread"}

LEMMA TypeInit == Init => TypeInv
<1> SUFFICES ASSUME Init PROVE TypeInv
  OBVIOUS
<1>1. TypeOK
  BY BoundsAssumption DEF Init, TypeOK, Generations
<1>2. InHand
  BY DEF Init, InHand
<1> QED
  BY <1>1, <1>2 DEF TypeInv

\* A row that is there may be read.
LEMMA MessageAtTyped ==
  ASSUME TypeOK, NEW i \in Index, rows[i] # Nil
  PROVE  rows[i] \in Row /\ MessageAt(i) \in Message /\ MessageAt(i).count = rows[i].count
BY DEF TypeOK, Row, Message, MessageAt

\* What every step that ends keeps
LEMMA EndKeepsTypes ==
  ASSUME TypeInv, NEW t \in Threads, Ends(t)
  PROVE  /\ pc' \in [Threads -> Labels] /\ found' \in [Threads -> Message \union {Nil}]
         /\ slot' \in [Threads -> Index \union {Nil}]
         /\ \A u \in Threads : u # t => pc'[u] = pc[u] /\ found'[u] = found[u] /\ slot'[u] = slot[u]
         /\ pc'[t] = "idle"
BY DEF TypeInv, TypeOK, Ends, Goto, Labels

\* A row as somebody may leave it
GoodRow(row) == row \in Row /\ row.count <= MaxDelivery

LEMMA ConsumedRow ==
  ASSUME NEW row, row \in Row, NEW version \in Nat, NEW count \in Nat, count <= MaxDelivery
  PROVE  GoodRow([row EXCEPT !.visible = FALSE, !.version = version, !.count = count])
BY DEF GoodRow, Row

LEMMA AckedRow ==
  ASSUME NEW row, GoodRow(row)
  PROVE  GoodRow(Acked(row))
<1> DEFINE version == row.version + 1
<1>1. row \in Row /\ row.count <= MaxDelivery /\ version \in Nat
  BY DEF GoodRow, Row
<1>2. Acked(row) = [row EXCEPT !.acked = TRUE, !.version = version]
  BY <1>1 DEF Acked, Row
<1> HIDE DEF version
<1> QED
  BY <1>1, <1>2 DEF GoodRow, Row

LEMMA UpdatedRow ==
  ASSUME NEW row, GoodRow(row), NEW blob \in Contents, NEW t
  PROVE  GoodRow(Updated(t, row, blob))
<1> DEFINE version == row.version + 1
           written == IF blob = held[t].blob THEN row.blob ELSE blob
<1>1. row \in Row /\ row.count <= MaxDelivery /\ version \in Nat /\ written \in Contents
  BY DEF GoodRow, Row
<1>2. Updated(t, row, blob) = [row EXCEPT !.version = version, !.visible = FALSE, !.blob = written]
  BY <1>1 DEF Updated, Row
<1> HIDE DEF version, written
<1> QED
  BY <1>1, <1>2 DEF GoodRow, Row

LEMMA RowKeepsTypes ==
  ASSUME TypeInv, NEW i \in Index, NEW row, GoodRow(row), rows' = [rows EXCEPT ![i] = row]
  PROVE  /\ rows' \in [Index -> Row \union {Nil}]
         /\ \A j \in Index : rows'[j] # Nil => rows'[j].count <= MaxDelivery
BY DEF TypeInv, TypeOK, GoodRow

LEMMA PutKeepsTypes ==
  ASSUME TypeInv, NEW t \in Threads,
         RepairerCollects(t) \/ NextMonotonic(t) \/ PutMessage(t) \/ CountUp(t)
  PROVE  TypeInv'
<1> USE DEF TypeInv, TypeOK, InHand, Goto, Threads, ReadyToPut
<1>1. CASE RepairerCollects(t)
  <2>1. PICK i \in Index : rows[i] # Nil /\ found' = [found EXCEPT ![t] = MessageAt(i)]
    BY <1>1 DEF RepairerCollects, Unacked
  <2>2. MessageAt(i) \in Message
    BY <2>1, MessageAtTyped
  <2>3. /\ t \in Repairers /\ pc[t] = "idle" /\ pc' = [pc EXCEPT ![t] = "claim"]
        /\ UNCHANGED <<rows, monoton, size, generation, held, slot, owed, writes, crashes>>
    BY <1>1 DEF RepairerCollects, tables, history
  <2>4. TypeOK'
    BY <2>1, <2>2, <2>3
  <2>5. InHand'
    BY <2>1, <2>2, <2>3
  <2> QED
    BY <2>4, <2>5
<1>2. CASE NextMonotonic(t)
  <2>1. /\ monoton + 1 \in 0 .. MaxIndex /\ monoton \in Index
        /\ t \in Publishers \union Repairers /\ (t \in Repairers => found[t] \in Message)
    BY <1>2, ThreadsAssumption, BoundsAssumption DEF NextMonotonic, Index
  <2>2. /\ monoton' = monoton + 1 /\ slot' = [slot EXCEPT ![t] = monoton] /\ pc' = [pc EXCEPT ![t] = "put"]
        /\ UNCHANGED <<rows, size, generation, held, found, owed, writes, crashes>>
    BY <1>2 DEF NextMonotonic, history
  <2>3. TypeOK'
    BY <2>1, <2>2
  <2>4. InHand'
    BY <2>1, <2>2
  <2> QED
    BY <2>3, <2>4
<1>3. CASE PutMessage(t)
  <2>1. PICK blob \in Contents, visible \in BOOLEAN : rows' = [rows EXCEPT ![slot[t]] = NewRow(blob, visible)]
    <3>1. ASSUME writes < MaxWrites, rows' = [rows EXCEPT ![slot[t]] = NewRow(writes + 1, FALSE)]
          PROVE  \E blob \in Contents, visible \in BOOLEAN :
                   rows' = [rows EXCEPT ![slot[t]] = NewRow(blob, visible)]
      <4>1. writes + 1 \in Contents
        BY <3>1, BoundsAssumption DEF Contents
      <4> QED
        BY <3>1, <4>1
    <3>2. ASSUME t \in Repairers, rows' = [rows EXCEPT ![slot[t]] = NewRow(found[t].blob, TRUE)]
          PROVE  \E blob \in Contents, visible \in BOOLEAN :
                   rows' = [rows EXCEPT ![slot[t]] = NewRow(blob, visible)]
      <4>1. found[t].blob \in Contents
        BY <1>3, <3>2 DEF PutMessage, Message
      <4> QED
        BY <3>2, <4>1
    <3> QED
      BY <1>3, <3>1, <3>2 DEF PutMessage
  <2>2. GoodRow(NewRow(blob, visible))
    BY DeliveryAssumption DEF NewRow, GoodRow, Row, Tags
  <2>3. slot[t] \in Index
    BY <1>3 DEF PutMessage
  <2>4. /\ rows' \in [Index -> Row \union {Nil}]
        /\ \A j \in Index : rows'[j] # Nil => rows'[j].count <= MaxDelivery
    BY <2>1, <2>2, <2>3, RowKeepsTypes
  <2>5. owed' \subseteq Contents /\ writes' \in 0 .. MaxWrites
    <3>1. CASE writes < MaxWrites /\ writes' = writes + 1 /\ owed' = owed \union {writes + 1}
      BY <3>1, BoundsAssumption DEF Contents
    <3> QED
      BY <1>3, <3>1 DEF PutMessage
  <2>6. pc[t] = "put" /\ pc' = [pc EXCEPT ![t] = "countUp"]
        /\ UNCHANGED <<monoton, size, generation, held, found, slot, crashes>>
    BY <1>3 DEF PutMessage
  <2>7. InHand'
    BY <2>6
  <2> QED
    BY <2>4, <2>5, <2>6, <2>7
<1>4. CASE CountUp(t)
  <2>1. size' \in Int /\ UNCHANGED <<rows, monoton, generation, held, owed, writes, crashes>>
    BY <1>4 DEF CountUp, history
  <2>2. CASE t \in Repairers
    BY <1>4, <2>1, <2>2 DEF CountUp
  <2>3. CASE t \notin Repairers
    BY <1>4, <2>1, <2>3, EndKeepsTypes DEF CountUp, Labels
  <2> QED
    BY <2>2, <2>3
<1> QED
  BY <1>1, <1>2, <1>3, <1>4

\* Delivery, acknowledgement and update
LEMMA ClientKeepsTypes ==
  ASSUME TypeInv, NEW t \in Threads,
         \/ FindMessage(t) \/ RawConsumeMessage(t) \/ DeadLetter(t)
         \/ AckReceipt(t) \/ AckFound(t) \/ CountDown(t)
  PROVE  TypeInv'
<1> USE DEF TypeInv, TypeOK, InHand, Goto
<1>1. CASE FindMessage(t)
  <2>1. PICK i \in Index :
          /\ rows[i] # Nil /\ found' = [found EXCEPT ![t] = MessageAt(i)]
          /\ pc' = [pc EXCEPT ![t] = IF rows[i].count >= MaxDelivery THEN "deadLetter" ELSE "consume"]
    BY <1>1 DEF FindMessage, Unacked
  <2>2. MessageAt(i) \in Message /\ MessageAt(i).count = rows[i].count /\ rows[i].count \in Nat
    BY <2>1, MessageAtTyped DEF Row
  <2>3. t \in Clients /\ UNCHANGED <<rows, monoton, size, generation, held, slot, owed, writes, crashes>>
    BY <1>1 DEF FindMessage, tables, history
  <2>4. TypeOK'
    BY <2>1, <2>2, <2>3
  <2>5. rows[i].count < MaxDelivery \/ pc'[t] = "deadLetter"
    BY <2>1, <2>2, DeliveryAssumption
  <2>6. InHand'
    BY <2>1, <2>2, <2>3, <2>5
  <2> QED
    BY <2>4, <2>6
<1>2. CASE RawConsumeMessage(t)
  <2> DEFINE m == found[t]
             i == m.index
             row == [rows[i] EXCEPT !.visible = FALSE, !.version = m.version + 1, !.count = m.count + 1]
             receipt == [index |-> i, tag |-> rows[i].tag, version |-> m.version + 1,
                         delivery |-> m.count + 1, blob |-> m.blob]
  <2>1. /\ t \in Clients /\ m \in Message /\ m.count < MaxDelivery /\ Ends(t)
        /\ UNCHANGED <<monoton, size, generation, owed, writes, crashes>>
    BY <1>2 DEF RawConsumeMessage, history
  <2>2. i \in Index /\ m.version \in Nat /\ m.count \in Nat /\ m.blob \in Contents
    BY <2>1 DEF Message
  <2>3. CASE HasVersion(i, m.version) /\ ~rows[i].acked
    <3>1. rows' = [rows EXCEPT ![i] = row] /\ held' = [held EXCEPT ![t] = receipt]
      BY <1>2, <2>2, <2>3 DEF RawConsumeMessage
    <3>2. rows[i] \in Row
      BY <2>2, <2>3 DEF HasVersion
    <3>3. GoodRow(row)
      <4>1. m.version + 1 \in Nat /\ m.count + 1 \in Nat /\ m.count + 1 <= MaxDelivery
        BY <2>1, <2>2, DeliveryAssumption
      <4> QED
        BY <3>2, <4>1, ConsumedRow
    <3>4. receipt \in Receipt
      BY <2>2, <3>2 DEF Receipt, Row
    <3> HIDE DEF m, i, row, receipt
    <3>5. /\ rows' \in [Index -> Row \union {Nil}]
          /\ \A j \in Index : rows'[j] # Nil => rows'[j].count <= MaxDelivery
      BY <2>2, <3>1, <3>3, RowKeepsTypes
    <3>6. held' \in [Clients -> Receipt \union {Nil}] /\ \A u \in Clients : u # t => held'[u] = held[u]
      BY <2>1, <3>1, <3>4
    <3> QED
      BY <2>1, <3>5, <3>6, EndKeepsTypes DEF Labels
  <2>4. CASE ~(HasVersion(i, m.version) /\ ~rows[i].acked)
    <3>1. UNCHANGED <<rows, held>>
      BY <1>2, <2>4 DEF RawConsumeMessage
    <3> QED
      BY <2>1, <3>1, EndKeepsTypes DEF Labels
  <2> QED
    BY <2>3, <2>4
<1>3. CASE DeadLetter(t)
  BY <1>3 DEF DeadLetter, tables
<1>4. CASE AckReceipt(t)
  <2>1. held[t] \in Receipt /\ held[t].index \in Index /\ rows[held[t].index] # Nil
    BY <1>4 DEF AckReceipt, Applies, HasVersion, Receipt
  <2>2. GoodRow(Acked(rows[held[t].index]))
    BY <2>1, AckedRow DEF GoodRow
  <2>3. rows' = [rows EXCEPT ![held[t].index] = Acked(rows[held[t].index])]
    BY <1>4, <2>1 DEF AckReceipt
  <2>4. /\ rows' \in [Index -> Row \union {Nil}]
        /\ \A j \in Index : rows'[j] # Nil => rows'[j].count <= MaxDelivery
    BY <2>1, <2>2, <2>3, RowKeepsTypes
  <2> QED
    BY <1>4, <2>4 DEF AckReceipt
<1>5. CASE AckFound(t)
  <2>1. found[t] \in Message /\ found[t].index \in Index
    BY <1>5 DEF AckFound, Message
  <2>2. UNCHANGED <<monoton, size, generation, held, owed, writes, crashes>>
    BY <1>5 DEF AckFound, history
  <2>3. CASE HasVersion(found[t].index, found[t].version)
    <3>1. GoodRow(Acked(rows[found[t].index]))
      BY <2>1, <2>3, AckedRow DEF GoodRow, HasVersion
    <3>2. /\ rows' = [rows EXCEPT ![found[t].index] = Acked(rows[found[t].index])]
          /\ pc' = [pc EXCEPT ![t] = "countDown"] /\ UNCHANGED <<found, slot>>
      BY <1>5, <2>1, <2>3 DEF AckFound
    <3>3. /\ rows' \in [Index -> Row \union {Nil}]
          /\ \A j \in Index : rows'[j] # Nil => rows'[j].count <= MaxDelivery
      BY <2>1, <3>1, <3>2, RowKeepsTypes
    <3> QED
      BY <2>2, <3>2, <3>3
  <2>4. CASE ~HasVersion(found[t].index, found[t].version)
    <3>1. Ends(t) /\ UNCHANGED rows
      BY <1>5, <2>4 DEF AckFound
    <3> QED
      BY <2>2, <3>1, EndKeepsTypes DEF Labels
  <2> QED
    BY <2>3, <2>4
<1>6. CASE CountDown(t)
  BY <1>6, EndKeepsTypes DEF CountDown, history, Labels
<1> QED
  BY <1>1, <1>2, <1>3, <1>4, <1>5, <1>6

LEMMA UpdateKeepsTypes ==
  ASSUME TypeInv, NEW t \in Threads, UpdateMessage(t) \/ RereadMessage(t) \/ Crash(t)
  PROVE  TypeInv'
<1> USE DEF TypeInv, TypeOK, InHand, Goto
<1>1. CASE UpdateMessage(t)
  <2> DEFINE i == held[t].index
  <2>1. /\ t \in Clients /\ held[t] \in Receipt /\ i \in Index /\ rows[i] # Nil /\ rows[i] \in Row
        /\ rows[i].count <= MaxDelivery
    BY <1>1 DEF UpdateMessage, Applies, HasVersion, Receipt
  <2>2. PICK blob \in Contents :
          /\ Write(t, blob) /\ rows' = [rows EXCEPT ![i] = Updated(t, rows[i], blob)]
          /\ found' = [found EXCEPT ![t] = [MessageAt(i) EXCEPT !.blob = blob]]
    BY <1>1, <2>1 DEF UpdateMessage
  <2>3. GoodRow(Updated(t, rows[i], blob))
    BY <2>1, UpdatedRow DEF GoodRow
  <2>4. [MessageAt(i) EXCEPT !.blob = blob] \in Message
    BY <2>1 DEF MessageAt, Message, Row
  <2>5. pc' = [pc EXCEPT ![t] = "reread"] /\ UNCHANGED <<monoton, size, generation, held, slot, crashes>>
    BY <1>1 DEF UpdateMessage
  <2>6. owed' \subseteq Contents /\ writes' \in 0 .. MaxWrites
    <3>1. CASE UNCHANGED <<owed, writes>>
      BY <3>1
    <3>2. CASE writes < MaxWrites /\ writes' = writes + 1 /\ owed' = (owed \ {held[t].blob}) \union {blob}
      BY <3>2, BoundsAssumption
    <3> QED
      BY <2>2, <3>1, <3>2 DEF Write
  <2> HIDE DEF i
  <2>7. /\ rows' \in [Index -> Row \union {Nil}]
        /\ \A j \in Index : rows'[j] # Nil => rows'[j].count <= MaxDelivery
    BY <2>1, <2>2, <2>3, RowKeepsTypes
  <2>8. found' \in [Threads -> Message \union {Nil}] /\ found'[t] \in Message
    BY <2>2, <2>4
  <2>9. TypeOK'
    BY <2>5, <2>6, <2>7, <2>8
  <2>10. InHand'
    BY <2>1, <2>2, <2>5, <2>8
  <2> QED
    BY <2>9, <2>10
<1>2. CASE RereadMessage(t)
  <2> DEFINE i == held[t].index
  <2>1. /\ t \in Clients /\ held[t] \in Receipt /\ found[t] \in Message /\ i \in Index
        /\ Ends(t) /\ UNCHANGED <<rows, monoton, size, generation, owed, writes, crashes>>
    BY <1>2 DEF RereadMessage, Receipt, tables, history
  <2>2. held' \in [Clients -> Receipt \union {Nil}] /\ \A u \in Clients : u # t => held'[u] = held[u]
    <3>1. CASE rows[i] = Nil
      BY <1>2, <3>1 DEF RereadMessage
    <3>2. CASE rows[i] # Nil
      <4> DEFINE receipt == [held[t] EXCEPT !.version = rows[i].version, !.tag = rows[i].tag,
                                            !.blob = found[t].blob]
      <4>1. rows[i] \in Row
        BY <2>1, <3>2
      <4>2. receipt \in Receipt
        BY <2>1, <4>1 DEF Receipt, Row, Message
      <4>3. held' = [held EXCEPT ![t] = receipt]
        BY <1>2, <2>1, <3>2 DEF RereadMessage
      <4> HIDE DEF receipt
      <4> QED
        BY <2>1, <4>2, <4>3
    <3> QED
      BY <3>1, <3>2
  <2> QED
    BY <2>1, <2>2, EndKeepsTypes DEF Labels
<1>3. CASE Crash(t)
  <2>1. crashes' \in Nat /\ generation + crashes' <= MaxBreaks
    BY <1>3, BoundsAssumption DEF Crash, Generations
  <2> QED
    BY <1>3, <2>1, EndKeepsTypes DEF Crash, tables, Labels
<1> QED
  BY <1>1, <1>2, <1>3

LEMMA TypeNext ==
  ASSUME TypeInv, [Next]_vars
  PROVE  TypeInv'
<1> USE DEF TypeInv, TypeOK, InHand
<1>1. ASSUME NEW i \in Index, Expire(i)
      PROVE  TypeInv'
  <2>1. rows[i] \in Row /\ rows[i].count <= MaxDelivery
    BY <1>1 DEF Expire, Unacked
  <2>2. GoodRow([rows[i] EXCEPT !.visible = TRUE]) /\ rows' = [rows EXCEPT ![i] = [rows[i] EXCEPT !.visible = TRUE]]
    BY <1>1, <2>1 DEF Expire, GoodRow, Row
  <2>3. /\ rows' \in [Index -> Row \union {Nil}]
        /\ \A j \in Index : rows'[j] # Nil => rows'[j].count <= MaxDelivery
    BY <2>2, RowKeepsTypes
  <2> QED
    BY <1>1, <2>3 DEF Expire, threads, history
<1>2. CASE DeleteBucket
  BY <1>2 DEF DeleteBucket, threads, history
<1>3. CASE CreateAgain
  <2>1. generation' \in Generations /\ generation' + crashes <= MaxBreaks
    BY <1>3, BoundsAssumption DEF CreateAgain, Generations
  <2> QED
    BY <1>3, <2>1, BoundsAssumption DEF CreateAgain, threads
<1>4. CASE UNCHANGED vars
  BY <1>4 DEF vars, tables, threads, history
<1> QED
  BY <1>1, <1>2, <1>3, <1>4, PutKeepsTypes, ClientKeepsTypes, UpdateKeepsTypes DEF Next

\* Rows, receipts and what the threads have in hand keep their types, and no message is
\* delivered more often than its queue allows (DefaultMessageConsumer.tryConsume).
THEOREM TypeCorrect == Spec => []TypeOK
<1>1. TypeInv => TypeOK
  BY DEF TypeInv
<1> QED
  BY <1>1, TypeInit, TypeNext, PTL DEF Spec

-----------------------------------------------------------------------------
(* Receipts *)

\* No message was ever put at the index, or nobody knows it is there.
Fresh(i) == i >= monoton \/ \E t \in Threads : pc[t] = "put" /\ slot[t] = i

SlotsApart ==
  /\ \A t \in Threads : pc[t] = "put" => slot[t] < monoton
  /\ \A t, u \in Threads : pc[t] = "put" /\ pc[u] = "put" /\ slot[t] = slot[u] => t = u

\* A receipt of the queue as it is now
OfNow(c) == held[c] # Nil /\ held[c].tag = generation

FreshUnknown ==
  /\ \A i \in Index : rows[i] # Nil => ~Fresh(i)
  /\ \A c \in Clients : OfNow(c) => ~Fresh(held[c].index)
  /\ \A c \in Clients : pc[c] = "consume" => ~Fresh(found[c].index)

TagsOfNow ==
  /\ \A i \in Index : rows[i] # Nil => rows[i].tag = generation
  /\ \A c \in Clients : held[c] # Nil => held[c].tag <= generation

\* Versions only grow: what a client holds or has read is not ahead of the row.
NotAhead ==
  \A c \in Clients :
    /\ OfNow(c) /\ rows[held[c].index] # Nil => held[c].version <= rows[held[c].index].version
    /\ pc[c] = "consume" /\ rows[found[c].index] # Nil => found[c].version <= rows[found[c].index].version

\* A reader's update of the row would be applied.
WouldConsume(c) == pc[c] = "consume" /\ HasVersion(found[c].index, found[c].version)

\* While a client is between the two statements of its update, it is the message's
\* owner, and nobody is about to take it.
UpdatesAlone ==
  \A c, d \in Clients : c # d /\ pc[c] = "reread" =>
    /\ pc[d] = "reread" => held[d].index # held[c].index
    /\ Applies(d) => held[d].index # held[c].index
    /\ WouldConsume(d) => found[d].index # held[c].index

OwnerInv ==
  /\ TypeInv /\ SlotsApart /\ FreshUnknown /\ TagsOfNow /\ NotAhead /\ UpdatesAlone /\ SoleOwner

LEMMA OwnerInit == Init => OwnerInv
<1> SUFFICES ASSUME Init PROVE OwnerInv
  OBVIOUS
<1>1. TypeInv
  BY TypeInit
<1>2. /\ \A t \in Threads : pc[t] = "idle"
      /\ \A c \in Clients : held[c] = Nil /\ pc[c] = "idle"
      /\ \A i \in Index : rows[i] = Nil
  BY DEF Init, Threads
<1>3. SlotsApart /\ FreshUnknown /\ TagsOfNow
  BY <1>2 DEF SlotsApart, FreshUnknown, TagsOfNow, OfNow
<1>4. NotAhead /\ UpdatesAlone /\ SoleOwner
  BY <1>2 DEF NotAhead, OfNow, UpdatesAlone, Applies, WouldConsume, SoleOwner
<1> QED
  BY <1>1, <1>3, <1>4 DEF OwnerInv

\* The rows that are there were there before, with the same tag and no later version.
RowsGrow ==
  \A i \in Index : rows'[i] # Nil =>
    rows[i] # Nil /\ rows'[i].tag = rows[i].tag /\ rows'[i].version >= rows[i].version

\* A client that keeps its receipt and the message it has read falls behind the rows:
\* no step of others makes its update apply.
LEMMA FallBehind ==
  ASSUME OwnerInv, TypeInv', RowsGrow, generation' = generation, NEW c \in Clients, held'[c] = held[c],
         pc'[c] = "consume" => pc[c] = "consume" /\ found'[c] = found[c]
  PROVE  /\ Applies(c)' => Applies(c) /\ rows'[held[c].index].version = rows[held[c].index].version
         /\ WouldConsume(c)' => WouldConsume(c) /\ rows'[found[c].index].version = rows[found[c].index].version
         /\ OfNow(c)' /\ rows'[held'[c].index] # Nil => held'[c].version <= rows'[held'[c].index].version
         /\ pc'[c] = "consume" /\ rows'[found'[c].index] # Nil
              => found'[c].version <= rows'[found'[c].index].version
<1> USE DEF OwnerInv
<1>1. /\ held[c] # Nil => held[c] \in Receipt /\ held[c].index \in Index /\ held[c].version \in Nat
      /\ pc[c] = "consume" => found[c].index \in Index /\ found[c].version \in Nat
  BY DEF TypeInv, TypeOK, InHand, Threads, Receipt, Message
<1>2. \A i \in Index : /\ rows[i] # Nil => rows[i].version \in Nat
                       /\ rows'[i] # Nil => rows'[i].version \in Nat
  BY DEF TypeInv, TypeOK, Row
<1>3. ASSUME OfNow(c), rows'[held[c].index] # Nil
      PROVE  /\ rows[held[c].index] # Nil /\ rows[held[c].index].version <= rows'[held[c].index].version
             /\ held[c].version <= rows[held[c].index].version
             /\ held[c].version <= rows'[held[c].index].version
  <2>1. held[c].index \in Index
    BY <1>1, <1>3 DEF OfNow
  <2>2. rows[held[c].index] # Nil /\ rows[held[c].index].version <= rows'[held[c].index].version
    BY <2>1, <1>3, <1>2 DEF RowsGrow
  <2>3. held[c].version <= rows[held[c].index].version
    BY <2>2, <1>3 DEF NotAhead
  <2> QED
    BY <2>1, <2>2, <2>3, <1>1, <1>2, <1>3 DEF OfNow
<1>4. ASSUME pc'[c] = "consume", rows'[found[c].index] # Nil
      PROVE  /\ rows[found[c].index] # Nil /\ rows[found[c].index].version <= rows'[found[c].index].version
             /\ found[c].version <= rows[found[c].index].version
             /\ found[c].version <= rows'[found[c].index].version
  <2>1. found[c].index \in Index
    BY <1>1, <1>4
  <2>2. rows[found[c].index] # Nil /\ rows[found[c].index].version <= rows'[found[c].index].version
    BY <2>1, <1>4, <1>2 DEF RowsGrow
  <2>3. found[c].version <= rows[found[c].index].version
    BY <2>2, <1>4 DEF NotAhead
  <2> QED
    BY <2>1, <2>2, <2>3, <1>1, <1>2, <1>4
<1>5. ASSUME Applies(c)'
      PROVE  Applies(c) /\ rows'[held[c].index].version = rows[held[c].index].version
  <2> DEFINE i == held[c].index
  <2>1. /\ held[c] # Nil /\ i \in Index /\ rows'[i] # Nil /\ rows'[i].version = held[c].version
        /\ rows'[i].tag = held[c].tag
    BY <1>1, <1>5 DEF Applies, HasVersion
  <2>2. rows[i] # Nil /\ rows[i].tag = held[c].tag
    BY <2>1 DEF RowsGrow
  <2>3. OfNow(c)
    BY <2>1, <2>2 DEF OfNow, TagsOfNow
  <2> QED
    BY <2>1, <2>2, <2>3, <1>1, <1>2, <1>3 DEF Applies, HasVersion
<1>6. ASSUME WouldConsume(c)'
      PROVE  WouldConsume(c) /\ rows'[found[c].index].version = rows[found[c].index].version
  <2> DEFINE i == found[c].index
  <2>1. /\ pc'[c] = "consume" /\ pc[c] = "consume" /\ found'[c] = found[c] /\ i \in Index
        /\ rows'[i] # Nil /\ rows'[i].version = found[c].version
    BY <1>1, <1>6 DEF WouldConsume, HasVersion
  <2> QED
    BY <2>1, <1>1, <1>2, <1>4 DEF WouldConsume, HasVersion
<1> QED
  BY <1>3, <1>4, <1>5, <1>6 DEF OfNow

\* A step that gives nobody a receipt, an index or a message to take
LEMMA QuietStep ==
  ASSUME OwnerInv, TypeInv', RowsGrow, UNCHANGED <<held, monoton, generation>>,
         \A t \in Threads : pc'[t] \in {"put", "consume", "reread"} =>
           pc'[t] = pc[t] /\ slot'[t] = slot[t] /\ found'[t] = found[t]
  PROVE  OwnerInv'
<1> USE DEF OwnerInv
<1>1. \A c \in Clients : /\ c \in Threads /\ (held[c] # Nil => held[c].index \in Index)
                         /\ pc[c] = "consume" => found[c].index \in Index
  BY DEF TypeInv, TypeOK, InHand, Threads, Receipt, Message
<1>2. \A c \in Clients : held'[c] = held[c] /\ (pc'[c] = "consume" => pc[c] = "consume" /\ found'[c] = found[c])
  BY <1>1
<1>3. \A i \in Index : Fresh(i)' => Fresh(i)
  BY DEF Fresh
<1>4. SlotsApart'
  BY DEF SlotsApart
<1>5. FreshUnknown'
  BY <1>1, <1>3 DEF FreshUnknown, OfNow, RowsGrow
<1>6. TagsOfNow'
  BY DEF TagsOfNow, RowsGrow
<1>7. NotAhead'
  BY <1>2, FallBehind DEF NotAhead
<1>8. \A c \in Clients : (Applies(c)' => Applies(c)) /\ (WouldConsume(c)' => WouldConsume(c) /\ found'[c] = found[c])
  BY <1>2, FallBehind DEF WouldConsume
<1>9. UpdatesAlone'
  <2> SUFFICES ASSUME NEW c \in Clients, NEW d \in Clients, c # d, pc'[c] = "reread"
               PROVE  /\ pc'[d] = "reread" => held'[d].index # held'[c].index
                      /\ Applies(d)' => held'[d].index # held'[c].index
                      /\ WouldConsume(d)' => found'[d].index # held'[c].index
    BY DEF UpdatesAlone
  <2>1. pc[c] = "reread" /\ (pc'[d] = "reread" => pc[d] = "reread")
    BY <1>1
  <2> QED
    BY <2>1, <1>8 DEF UpdatesAlone
<1>10. SoleOwner'
  BY <1>8 DEF SoleOwner
<1> QED
  BY <1>4, <1>5, <1>6, <1>7, <1>9, <1>10

\* A step of one client, which may be given a receipt or a message: what must hold of
\* the client afterwards for the invariant to hold of all
LEMMA OneClientSteps ==
  ASSUME OwnerInv, TypeInv', RowsGrow, UNCHANGED <<monoton, generation>>,
         NEW t \in Clients, pc'[t] # "put",
         \A u \in Threads : u # t => pc'[u] = pc[u] /\ slot'[u] = slot[u] /\ found'[u] = found[u],
         \A c \in Clients : c # t => held'[c] = held[c],
         held'[t] # Nil => held'[t].tag <= generation,
         OfNow(t)' => ~Fresh(held'[t].index),
         OfNow(t)' /\ rows'[held'[t].index] # Nil => held'[t].version <= rows'[held'[t].index].version,
         pc'[t] = "consume" => ~Fresh(found'[t].index),
         pc'[t] = "consume" /\ rows'[found'[t].index] # Nil
           => found'[t].version <= rows'[found'[t].index].version,
         \A d \in Clients : d # t /\ pc'[t] = "reread" =>
           /\ pc[d] = "reread" => held[d].index # held'[t].index
           /\ Applies(d)' => held[d].index # held'[t].index
           /\ WouldConsume(d)' => found[d].index # held'[t].index,
         \A d \in Clients : d # t /\ pc[d] = "reread" =>
           /\ Applies(t)' => held[d].index # held'[t].index
           /\ WouldConsume(t)' => held[d].index # found'[t].index,
         \A d \in Clients : d # t /\ Applies(t)' /\ Applies(d)' => held[d].index # held'[t].index
  PROVE  OwnerInv'
<1> USE DEF OwnerInv
<1>1. /\ t \in Threads
      /\ \A c \in Clients : /\ c \in Threads /\ (held[c] # Nil => held[c].index \in Index)
                            /\ pc[c] = "consume" => found[c].index \in Index
      /\ held'[t] # Nil => held'[t].index \in Index
      /\ pc'[t] = "consume" => found'[t].index \in Index
  BY DEF TypeInv, TypeOK, InHand, Threads, Receipt, Message
<1>2. \A i \in Index : Fresh(i)' => Fresh(i)
  BY DEF Fresh
<1>3. SlotsApart'
  BY <1>1 DEF SlotsApart
<1>4. FreshUnknown'
  <2>1. \A i \in Index : rows'[i] # Nil => ~Fresh(i)'
    BY <1>2 DEF FreshUnknown, RowsGrow
  <2>2. \A c \in Clients : OfNow(c)' => ~Fresh(held[c].index)'
    BY <1>1, <1>2 DEF FreshUnknown, OfNow
  <2>3. \A c \in Clients : pc'[c] = "consume" => ~Fresh(found[c].index)'
    BY <1>1, <1>2 DEF FreshUnknown
  <2> QED
    BY <2>1, <2>2, <2>3 DEF FreshUnknown
<1>5. TagsOfNow'
  BY DEF TagsOfNow, RowsGrow
<1>6. \A c \in Clients : c # t =>
        /\ Applies(c)' => Applies(c)
        /\ WouldConsume(c)' => WouldConsume(c)
        /\ OfNow(c)' /\ rows'[held'[c].index] # Nil => held'[c].version <= rows'[held'[c].index].version
        /\ pc'[c] = "consume" /\ rows'[found'[c].index] # Nil
             => found'[c].version <= rows'[found'[c].index].version
  BY <1>1, FallBehind
<1>7. NotAhead'
  BY <1>6 DEF NotAhead
<1>8. UpdatesAlone'
  <2> SUFFICES ASSUME NEW c \in Clients, NEW d \in Clients, c # d, pc'[c] = "reread"
               PROVE  /\ pc'[d] = "reread" => held'[d].index # held'[c].index
                      /\ Applies(d)' => held'[d].index # held'[c].index
                      /\ WouldConsume(d)' => found'[d].index # held'[c].index
    BY DEF UpdatesAlone
  <2>1. CASE c = t
    BY <2>1, <1>1
  <2>2. CASE d = t
    BY <2>2, <1>1
  <2>3. CASE c # t /\ d # t
    BY <2>3, <1>1, <1>6 DEF UpdatesAlone
  <2> QED
    BY <2>1, <2>2, <2>3
<1>9. SoleOwner'
  BY <1>6 DEF SoleOwner
<1> QED
  BY <1>3, <1>4, <1>5, <1>7, <1>8, <1>9

LEMMA EndIsQuiet ==
  ASSUME TypeInv, NEW t \in Threads, Ends(t)
  PROVE  \A u \in Threads : pc'[u] \in {"put", "consume", "reread"} =>
           pc'[u] = pc[u] /\ slot'[u] = slot[u] /\ found'[u] = found[u]
BY EndKeepsTypes

LEMMA AckGrows ==
  ASSUME TypeOK, NEW i \in Index, rows[i] # Nil, rows' = [rows EXCEPT ![i] = Acked(rows[i])]
  PROVE  RowsGrow
<1>1. rows[i] \in Row /\ rows[i].version \in Nat
  BY DEF TypeOK, Row
<1>2. Acked(rows[i]).tag = rows[i].tag /\ Acked(rows[i]).version = rows[i].version + 1
  BY <1>1 DEF Acked, Row
<1>3. rows \in [Index -> Row \union {Nil}] /\ \A j \in Index : rows[j] # Nil => rows[j].version \in Nat
  BY DEF TypeOK, Row
<1> QED
  BY <1>1, <1>2, <1>3 DEF RowsGrow

LEMMA QuietActions ==
  ASSUME OwnerInv, TypeInv',
         \/ \E t \in Threads : \/ RepairerCollects(t) \/ CountUp(t) \/ DeadLetter(t)
                               \/ AckReceipt(t) \/ AckFound(t) \/ CountDown(t) \/ Crash(t)
         \/ \E i \in Index : Expire(i)
         \/ DeleteBucket
         \/ UNCHANGED vars
  PROVE  OwnerInv'
<1> DEFINE SameWork == \A u \in Threads : pc'[u] \in {"put", "consume", "reread"} =>
                         pc'[u] = pc[u] /\ slot'[u] = slot[u] /\ found'[u] = found[u]
           SameQueue == UNCHANGED <<held, monoton, generation>>
<1>t. TypeInv /\ TypeOK /\ pc \in [Threads -> Labels] /\ found \in [Threads -> Message \union {Nil}]
  BY DEF OwnerInv, TypeInv, TypeOK, Labels
<1>s. UNCHANGED rows => RowsGrow
  BY <1>t DEF RowsGrow, TypeOK, Row
<1>1. ASSUME NEW t \in Threads,
             RepairerCollects(t) \/ CountUp(t) \/ DeadLetter(t) \/ CountDown(t) \/ Crash(t)
      PROVE  SameQueue /\ SameWork /\ UNCHANGED rows
  BY <1>1, <1>t, EndIsQuiet
  DEF RepairerCollects, CountUp, DeadLetter, CountDown, Crash, Goto, tables
<1>2. ASSUME NEW t \in Threads, AckReceipt(t)
      PROVE  SameQueue /\ SameWork /\ RowsGrow
  <2>1. held[t].index \in Index /\ rows[held[t].index] # Nil
    BY <1>2, <1>t DEF AckReceipt, Applies, HasVersion, TypeOK, Receipt
  <2>2. RowsGrow
    BY <1>2, <1>t, <2>1, AckGrows DEF AckReceipt
  <2> QED
    BY <1>2, <1>t, <2>2 DEF AckReceipt, Goto
<1>3. ASSUME NEW t \in Threads, AckFound(t)
      PROVE  SameQueue /\ SameWork /\ RowsGrow
  <2>1. found[t].index \in Index
    BY <1>3, <1>t DEF AckFound, TypeInv, InHand, Message
  <2>2. CASE HasVersion(found[t].index, found[t].version)
    <3>1. rows[found[t].index] # Nil /\ rows' = [rows EXCEPT ![found[t].index] = Acked(rows[found[t].index])]
      BY <1>3, <2>1, <2>2, <1>t DEF AckFound, HasVersion, TypeOK
    <3>2. RowsGrow
      BY <1>t, <2>1, <3>1, AckGrows
    <3> QED
      BY <1>3, <1>t, <2>2, <3>2 DEF AckFound, Goto
  <2>3. CASE ~HasVersion(found[t].index, found[t].version)
    BY <1>3, <2>3, <1>s, <1>t, EndIsQuiet DEF AckFound
  <2> QED
    BY <2>2, <2>3
<1>4. ASSUME NEW i \in Index, Expire(i)
      PROVE  SameQueue /\ SameWork /\ RowsGrow
  <2>1. rows[i] \in Row /\ rows[i] # Nil
    BY <1>4, <1>t DEF Expire, Unacked, TypeOK
  <2>2. /\ [rows[i] EXCEPT !.visible = TRUE].tag = rows[i].tag
        /\ [rows[i] EXCEPT !.visible = TRUE].version = rows[i].version
    BY <2>1 DEF Row
  <2>3. rows' = [rows EXCEPT ![i] = [rows[i] EXCEPT !.visible = TRUE]]
    BY <1>4, <1>t DEF Expire, TypeOK
  <2>4. rows \in [Index -> Row \union {Nil}] /\ \A j \in Index : rows[j] # Nil => rows[j].version \in Nat
    BY <1>t DEF TypeOK, Row
  <2>5. RowsGrow
    BY <2>1, <2>2, <2>3, <2>4 DEF RowsGrow
  <2> QED
    BY <1>4, <2>5 DEF Expire, threads
<1>5. ASSUME DeleteBucket
      PROVE  SameQueue /\ SameWork /\ RowsGrow
  BY <1>5 DEF DeleteBucket, threads, RowsGrow
<1>6. ASSUME UNCHANGED vars
      PROVE  SameQueue /\ SameWork /\ UNCHANGED rows
  BY <1>6 DEF vars, tables, threads
<1> HIDE DEF SameWork, SameQueue
<1>7. SameQueue /\ SameWork /\ RowsGrow
  BY <1>s, <1>1, <1>2, <1>3, <1>4, <1>5, <1>6
<1> QED
  BY <1>7, QuietStep DEF SameWork, SameQueue

LEMMA ClaimKeepsOwner ==
  ASSUME OwnerInv, TypeInv', NEW t \in Threads, NextMonotonic(t)
  PROVE  OwnerInv'
<1> USE DEF OwnerInv
<1>1. /\ pc[t] # "put" /\ monoton \in Nat /\ monoton' = monoton + 1
      /\ slot' = [slot EXCEPT ![t] = monoton] /\ pc' = [pc EXCEPT ![t] = "put"]
      /\ UNCHANGED <<rows, generation, held, found>>
  BY DEF NextMonotonic, ReadyToPut, Goto, TypeInv, TypeOK
<1>2. /\ pc'[t] = "put" /\ slot'[t] = monoton
      /\ \A u \in Threads : u # t => pc'[u] = pc[u] /\ slot'[u] = slot[u]
      /\ \A u \in Threads : pc[u] = "put" => slot[u] \in Index /\ slot[u] < monoton
  BY <1>1 DEF TypeInv, TypeOK, InHand, SlotsApart
<1>3. \A i \in Index : Fresh(i)' => Fresh(i)
  BY <1>1, <1>2 DEF Fresh, Index
<1>4. SlotsApart'
  <2>1. \A u \in Threads : pc'[u] = "put" => slot'[u] < monoton'
    BY <1>1, <1>2 DEF Index
  <2>2. \A u, v \in Threads : pc'[u] = "put" /\ pc'[v] = "put" /\ slot'[u] = slot'[v] => u = v
    BY <1>1, <1>2 DEF Index, SlotsApart
  <2> QED
    BY <2>1, <2>2 DEF SlotsApart
<1>5. \A c \in Clients : /\ c \in Threads
                         /\ held[c] # Nil => held[c].index \in Index
                         /\ pc'[c] \in {"consume", "reread"} => pc[c] = pc'[c]
                         /\ pc[c] = "consume" => found[c].index \in Index
  BY <1>2 DEF TypeInv, TypeOK, InHand, Threads, Receipt, Message
<1>6. FreshUnknown'
  BY <1>1, <1>3, <1>5 DEF FreshUnknown, OfNow
<1>7. TagsOfNow' /\ NotAhead'
  BY <1>1, <1>5 DEF TagsOfNow, NotAhead, OfNow
<1>8. \A c \in Clients : (Applies(c)' <=> Applies(c)) /\ (WouldConsume(c)' => WouldConsume(c))
  BY <1>1, <1>5 DEF Applies, WouldConsume, HasVersion
<1>9. UpdatesAlone' /\ SoleOwner'
  BY <1>1, <1>5, <1>8 DEF UpdatesAlone, SoleOwner
<1> QED
  BY <1>4, <1>6, <1>7, <1>9

LEMMA PutKeepsOwner ==
  ASSUME OwnerInv, TypeInv', NEW t \in Threads, PutMessage(t)
  PROVE  OwnerInv'
<1> USE DEF OwnerInv
<1> DEFINE i == slot[t]
<1>1. /\ pc[t] = "put" /\ i \in Index /\ rows[i] = Nil /\ pc' = [pc EXCEPT ![t] = "countUp"]
      /\ UNCHANGED <<monoton, generation, held, found, slot>>
  BY DEF PutMessage, Goto, TypeInv, InHand
<1>2. PICK blob, visible : rows' = [rows EXCEPT ![i] = NewRow(blob, visible)]
  BY DEF PutMessage
<1>3. /\ \A j \in Index : j # i => rows'[j] = rows[j]
      /\ rows'[i].tag = generation
  BY <1>1, <1>2 DEF NewRow, TypeInv, TypeOK
<1>4. Fresh(i) /\ i < monoton /\ \A u \in Threads : u # t /\ pc[u] = "put" => slot[u] # i
  BY <1>1 DEF Fresh, SlotsApart
<1>5. \A j \in Index : Fresh(j)' => Fresh(j) /\ j # i
  <2>1. monoton \in Nat /\ i \in Int /\ pc \in [Threads -> Labels]
    BY <1>1 DEF Index, TypeInv, TypeOK, Labels
  <2> SUFFICES ASSUME NEW j \in Index, Fresh(j)' PROVE Fresh(j) /\ j # i
    OBVIOUS
  <2>2. CASE j >= monoton
    BY <1>4, <2>1, <2>2 DEF Fresh, Index
  <2>3. ASSUME NEW u \in Threads, pc'[u] = "put", slot'[u] = j
        PROVE  Fresh(j) /\ j # i
    BY <1>1, <1>4, <2>1, <2>3 DEF Fresh
  <2> QED
    BY <1>1, <2>2, <2>3 DEF Fresh
<1>6. \A c \in Clients : /\ c \in Threads /\ (held[c] # Nil => held[c].index \in Index)
                         /\ pc[c] = "consume" => found[c].index \in Index
                         /\ OfNow(c) => held[c].index # i
                         /\ pc[c] = "consume" => found[c].index # i
                         /\ pc'[c] \in {"consume", "reread"} => pc[c] = pc'[c]
  BY <1>1, <1>4 DEF TypeInv, TypeOK, InHand, Threads, Receipt, Message, FreshUnknown
<1>7. SlotsApart'
  BY <1>1 DEF SlotsApart, TypeInv, TypeOK
<1>8. FreshUnknown'
  <2>1. \A j \in Index : rows'[j] # Nil => ~Fresh(j)'
    BY <1>3, <1>5 DEF FreshUnknown
  <2>2. \A c \in Clients : OfNow(c)' => ~Fresh(held[c].index)'
    BY <1>1, <1>5, <1>6 DEF FreshUnknown, OfNow
  <2>3. \A c \in Clients : pc'[c] = "consume" => ~Fresh(found[c].index)'
    BY <1>1, <1>5, <1>6 DEF FreshUnknown
  <2> QED
    BY <1>1, <2>1, <2>2, <2>3 DEF FreshUnknown
<1>9. TagsOfNow'
  BY <1>1, <1>3 DEF TagsOfNow
<1>10. NotAhead'
  BY <1>1, <1>3, <1>6 DEF NotAhead, OfNow
<1>11. \A c \in Clients : (Applies(c)' => Applies(c)) /\ (WouldConsume(c)' => WouldConsume(c))
  BY <1>1, <1>3, <1>6 DEF Applies, WouldConsume, HasVersion, OfNow
<1>12. UpdatesAlone' /\ SoleOwner'
  BY <1>1, <1>6, <1>11 DEF UpdatesAlone, SoleOwner
<1> QED
  BY <1>7, <1>8, <1>9, <1>10, <1>12

LEMMA FindKeepsOwner ==
  ASSUME UpdatesInTime, OwnerInv, TypeInv', NEW t \in Threads, FindMessage(t)
  PROVE  OwnerInv'
<1> USE DEF OwnerInv
<1>1. t \in Clients /\ pc[t] = "idle" /\ UNCHANGED <<rows, monoton, generation, held, slot>>
  BY DEF FindMessage, tables
<1>2. PICK i \in Index :
        /\ rows[i] # Nil /\ ~BeingUpdated(i) /\ found' = [found EXCEPT ![t] = MessageAt(i)]
        /\ pc' = [pc EXCEPT ![t] = IF rows[i].count >= MaxDelivery THEN "deadLetter" ELSE "consume"]
  BY DEF FindMessage, Unacked, Goto
<1>3. /\ found'[t].index = i /\ found'[t].version = rows[i].version /\ rows[i].version \in Nat
      /\ pc'[t] \in {"deadLetter", "consume"}
      /\ \A u \in Threads : u # t => pc'[u] = pc[u] /\ slot'[u] = slot[u] /\ found'[u] = found[u]
  BY <1>1, <1>2 DEF MessageAt, TypeInv, TypeOK, Row
<1>4. RowsGrow
  BY <1>1 DEF RowsGrow, TypeInv, TypeOK, Row
<1>5. ~Fresh(i) /\ (held[t] # Nil => held[t].tag <= generation)
  BY <1>1, <1>2 DEF FreshUnknown, TagsOfNow
<1>6. \A d \in Clients : d # t /\ pc[d] = "reread" => held[d].index # i
  BY <1>2 DEF BeingUpdated
<1>7. /\ Applies(t)' <=> Applies(t)
      /\ \A d \in Clients : d # t => (Applies(d)' <=> Applies(d))
      /\ OfNow(t)' <=> OfNow(t)
  BY <1>1 DEF Applies, HasVersion, OfNow
<1>8. OfNow(t) => ~Fresh(held[t].index) /\ (rows[held[t].index] # Nil => held[t].version <= rows[held[t].index].version)
  BY <1>1 DEF FreshUnknown, NotAhead
<1>9. \A d \in Clients : d # t /\ Applies(t) => /\ Applies(d) => held[d].index # held[t].index
                                                /\ pc[d] = "reread" => held[d].index # held[t].index
  BY <1>1 DEF SoleOwner, UpdatesAlone
<1> QED
  BY <1>1, <1>2, <1>3, <1>4, <1>5, <1>6, <1>7, <1>8, <1>9, OneClientSteps

LEMMA ConsumeKeepsOwner ==
  ASSUME OwnerInv, TypeInv', NEW t \in Threads, RawConsumeMessage(t)
  PROVE  OwnerInv'
<1> USE DEF OwnerInv
<1> DEFINE m == found[t]
           i == m.index
           row == [rows[i] EXCEPT !.visible = FALSE, !.version = m.version + 1, !.count = m.count + 1]
           receipt == [index |-> i, tag |-> rows[i].tag, version |-> m.version + 1,
                       delivery |-> m.count + 1, blob |-> m.blob]
<1>1. /\ pc[t] = "consume" /\ t \in Clients /\ i \in Index /\ m.version \in Nat
      /\ Ends(t) /\ UNCHANGED <<monoton, generation>>
  BY DEF RawConsumeMessage, TypeInv, InHand, Message
<1>2. CASE HasVersion(i, m.version) /\ ~rows[i].acked
  <2>1. rows' = [rows EXCEPT ![i] = row] /\ held' = [held EXCEPT ![t] = receipt]
    BY <1>1, <1>2 DEF RawConsumeMessage
  <2>2. rows[i] \in Row /\ rows[i] # Nil /\ rows[i].version = m.version /\ rows[i].tag = generation
    BY <1>1, <1>2 DEF HasVersion, TypeInv, TypeOK, TagsOfNow
  <2>3. row.tag = rows[i].tag /\ row.version = m.version + 1
    BY <2>2 DEF Row
  <2>4. receipt.index = i /\ receipt.tag = generation /\ receipt.version = m.version + 1
    BY <2>2
  <2>5. /\ rows'[i] = row /\ held'[t] = receipt
        /\ \A j \in Index : j # i => rows'[j] = rows[j]
        /\ \A c \in Clients : c # t => held'[c] = held[c]
        /\ \A j \in Index : rows[j] # Nil => rows[j].version \in Nat
    BY <1>1, <2>1 DEF TypeInv, TypeOK, Row
  <2> HIDE DEF m, i, row, receipt
  <2>6. RowsGrow
    BY <1>1, <2>2, <2>3, <2>5 DEF RowsGrow
  <2>7. ~Fresh(i)
    BY <1>1, <2>2 DEF FreshUnknown
  <2>8. \A d \in Clients : d # t /\ pc[d] = "reread" => held[d].index # i
    BY <1>1, <1>2 DEF UpdatesAlone, WouldConsume, m, i
  <2>9. /\ pc'[t] = "idle"
        /\ \A u \in Threads : u # t => pc'[u] = pc[u] /\ slot'[u] = slot[u] /\ found'[u] = found[u]
    BY <1>1, EndKeepsTypes
  <2>10. \A d \in Clients : d # t => held'[d] = held[d] /\ (pc'[d] = "consume" => pc[d] = "consume" /\ found'[d] = found[d])
    BY <2>5, <2>9 DEF Threads
  <2>11. \A d \in Clients : d # t /\ Applies(d)' => held[d].index # i
    BY <1>1, <2>2, <2>3, <2>5, <2>6, <2>10, FallBehind
  <2>12. ~WouldConsume(t)' /\ generation \in Nat /\ m.version + 1 \in Nat
    BY <1>1, <2>9 DEF WouldConsume, TypeInv, TypeOK, Generations
  <2>13. held'[t].tag <= generation /\ held'[t].version <= rows'[held'[t].index].version
    BY <2>3, <2>4, <2>5, <2>12
  <2> QED
    BY <1>1, <2>4, <2>5, <2>6, <2>7, <2>8, <2>9, <2>11, <2>12, <2>13, OneClientSteps
<1>3. CASE ~(HasVersion(i, m.version) /\ ~rows[i].acked)
  <2>1. UNCHANGED <<rows, held>>
    BY <1>3 DEF RawConsumeMessage
  <2>2. RowsGrow
    BY <2>1 DEF RowsGrow, TypeInv, TypeOK, Row
  <2> QED
    BY <1>1, <2>1, <2>2, EndIsQuiet, QuietStep
<1> QED
  BY <1>2, <1>3

LEMMA UpdateKeepsOwner ==
  ASSUME OwnerInv, TypeInv', NEW t \in Threads, UpdateMessage(t)
  PROVE  OwnerInv'
<1> USE DEF OwnerInv
<1> DEFINE i == held[t].index
<1>1. /\ t \in Clients /\ Applies(t) /\ pc' = [pc EXCEPT ![t] = "reread"]
      /\ held[t] \in Receipt /\ i \in Index /\ rows[i] \in Row /\ rows[i] # Nil /\ held[t].version \in Nat
      /\ rows[i].version = held[t].version /\ rows[i].tag = held[t].tag
      /\ UNCHANGED <<monoton, generation, held, slot>>
  BY DEF UpdateMessage, Applies, HasVersion, Goto, TypeInv, TypeOK, Receipt
<1>2. PICK blob \in Contents :
        /\ rows' = [rows EXCEPT ![i] = Updated(t, rows[i], blob)]
        /\ found' = [found EXCEPT ![t] = [MessageAt(i) EXCEPT !.blob = blob]]
  BY <1>1 DEF UpdateMessage, TypeInv, TypeOK
<1>3. Updated(t, rows[i], blob).tag = rows[i].tag /\ Updated(t, rows[i], blob).version = rows[i].version + 1
  BY <1>1 DEF Updated, Row
<1>4. /\ rows'[i].tag = rows[i].tag /\ rows'[i].version = rows[i].version + 1
      /\ \A j \in Index : j # i => rows'[j] = rows[j]
      /\ \A j \in Index : rows[j] # Nil => rows[j].version \in Nat
      /\ pc'[t] = "reread"
      /\ \A u \in Threads : u # t => pc'[u] = pc[u] /\ slot'[u] = slot[u] /\ found'[u] = found[u]
  BY <1>1, <1>2, <1>3 DEF TypeInv, TypeOK, Row
<1> HIDE DEF i
<1>5. RowsGrow
  BY <1>1, <1>4 DEF RowsGrow
<1>6. \A d \in Clients : d # t => held'[d] = held[d] /\ (pc'[d] = "consume" => pc[d] = "consume" /\ found'[d] = found[d])
  BY <1>1, <1>4 DEF Threads
<1>7. ~Applies(t)' /\ ~WouldConsume(t)'
  BY <1>1, <1>4 DEF Applies, HasVersion, WouldConsume, i
<1>8. \A d \in Clients : d # t =>
        /\ Applies(d)' => held[d].index # i
        /\ WouldConsume(d)' => found[d].index # i
  BY <1>1, <1>4, <1>5, <1>6, FallBehind
<1>9. \A d \in Clients : d # t /\ pc[d] = "reread" => held[d].index # i
  BY <1>1 DEF UpdatesAlone, i
<1>10. held'[t].tag <= generation /\ (OfNow(t)' => ~Fresh(i))
  BY <1>1 DEF TagsOfNow, FreshUnknown, OfNow, Applies, i
<1>11. held'[t].version <= rows'[i].version
  BY <1>1, <1>4
<1> QED
  BY <1>1, <1>4, <1>5, <1>7, <1>8, <1>9, <1>10, <1>11, OneClientSteps DEF i

LEMMA RereadKeepsOwner ==
  ASSUME OwnerInv, TypeInv', NEW t \in Threads, RereadMessage(t)
  PROVE  OwnerInv'
<1> USE DEF OwnerInv
<1> DEFINE i == held[t].index
<1>1. /\ t \in Clients /\ pc[t] = "reread" /\ held[t] \in Receipt /\ i \in Index
      /\ Ends(t) /\ UNCHANGED <<rows, monoton, generation>>
  BY DEF RereadMessage, tables, TypeInv, InHand, Receipt
<1>2. RowsGrow
  BY <1>1 DEF RowsGrow, TypeInv, TypeOK, Row
<1>3. CASE rows[i] = Nil
  <2>1. held' = held
    BY <1>3 DEF RereadMessage
  <2> QED
    BY <1>1, <1>2, <2>1, EndIsQuiet, QuietStep
<1>4. CASE rows[i] # Nil
  <2>1. rows[i] \in Row /\ rows[i].version \in Nat /\ rows[i].tag = generation
    BY <1>1, <1>4 DEF TypeInv, TypeOK, Row, TagsOfNow
  <2>2. held' = [held EXCEPT ![t] = [held[t] EXCEPT !.version = rows[i].version, !.tag = rows[i].tag,
                                                    !.blob = found[t].blob]]
    BY <1>1, <1>4 DEF RereadMessage, TypeInv, TypeOK
  <2>3. /\ held'[t].index = i /\ held'[t].version = rows[i].version /\ held'[t].tag = generation
        /\ \A c \in Clients : c # t => held'[c] = held[c]
    BY <1>1, <2>1, <2>2 DEF Receipt, TypeInv, TypeOK
  <2>4. /\ pc'[t] = "idle"
        /\ \A u \in Threads : u # t => pc'[u] = pc[u] /\ slot'[u] = slot[u] /\ found'[u] = found[u]
    BY <1>1, EndKeepsTypes
  <2>5. ~Fresh(i) /\ ~WouldConsume(t)' /\ generation \in Nat
    BY <1>1, <1>4, <2>4 DEF FreshUnknown, WouldConsume, TypeInv, TypeOK, Generations
  <2>6. \A d \in Clients : d # t =>
          /\ pc[d] = "reread" => held[d].index # i
          /\ Applies(d)' => held[d].index # i
    BY <1>1, <2>3 DEF UpdatesAlone, Applies, HasVersion
  <2> HIDE DEF i
  <2>7. held'[t].tag <= generation /\ held'[t].version <= rows'[held'[t].index].version
    BY <1>1, <2>1, <2>3, <2>5
  <2> QED
    BY <1>1, <1>2, <2>3, <2>4, <2>5, <2>6, <2>7, OneClientSteps
<1> QED
  BY <1>3, <1>4

LEMMA CreateKeepsOwner ==
  ASSUME OwnerInv, TypeInv', CreateAgain
  PROVE  OwnerInv'
<1> USE DEF OwnerInv
<1>1. /\ \A i \in Index : rows'[i] = Nil
      /\ \A t \in Threads : pc[t] = "idle" /\ pc'[t] = "idle"
      /\ generation' = generation + 1 /\ held' = held /\ generation \in Nat
  BY DEF CreateAgain, threads, TypeInv, TypeOK, Generations
<1>2. \A c \in Clients : /\ c \in Threads
                         /\ held[c] # Nil => /\ held[c].tag <= generation /\ held[c].tag \in Nat
                                            /\ held[c].index \in Index
  BY DEF TagsOfNow, Threads, TypeInv, TypeOK, Receipt, Tags, Generations
<1>3. \A c \in Clients : ~OfNow(c)' /\ ~Applies(c)'
  BY <1>1, <1>2 DEF OfNow, Applies, HasVersion
<1>4. SlotsApart' /\ FreshUnknown' /\ TagsOfNow'
  BY <1>1, <1>2, <1>3 DEF SlotsApart, FreshUnknown, TagsOfNow
<1>5. NotAhead' /\ UpdatesAlone' /\ SoleOwner'
  BY <1>1, <1>2, <1>3 DEF NotAhead, UpdatesAlone, SoleOwner
<1> QED
  BY <1>4, <1>5

LEMMA OwnerNext ==
  ASSUME UpdatesInTime, OwnerInv, [Next]_vars
  PROVE  OwnerInv'
<1>1. TypeInv'
  BY TypeNext DEF OwnerInv
<1> QED
  BY <1>1, QuietActions, ClaimKeepsOwner, PutKeepsOwner, FindKeepsOwner, ConsumeKeepsOwner,
     UpdateKeepsOwner, RereadKeepsOwner, CreateKeepsOwner DEF Next

\* A delivered message has one owner: however its deliveries, updates and acknowledgements
\* interleave, and whether the queue was deleted and created again under its name, no two
\* clients hold receipts that would both be accepted (QueueResource.ackMessage and
\* updateMessage, DefaultMessageConsumer.rawConsumeMessage).  It is the case when no
\* message is taken between the two statements of its update (MessageRepositoryImpl).
THEOREM SoleOwnerAlways ==
  ASSUME UpdatesInTime
  PROVE  Spec => []SoleOwner
<1>1. Init => OwnerInv
  BY OwnerInit
<1>2. OwnerInv /\ [Next]_vars => OwnerInv'
  BY OwnerNext
<1>3. OwnerInv => SoleOwner
  BY DEF OwnerInv
<1> QED
  BY <1>1, <1>2, <1>3, PTL DEF Spec
=============================================================================
