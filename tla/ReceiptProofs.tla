---------------------------- MODULE ReceiptProofs ----------------------------
(***************************************************************************)
(* What a receipt of MessageLifecycle is worth, for any consumers,         *)
(* publishers, repair workers and delivery limit: one that is accepted is  *)
(* of the delivery it was given for, no content that was accepted is lost, *)
(* and the size counter is off by no more than the counting to come.  It   *)
(* is so when nobody takes a message between the two statements of its     *)
(* update (UpdatesInTime).                                                 *)
(***************************************************************************)
EXTENDS MessageLifecycleProofs, FiniteSetTheorems

-----------------------------------------------------------------------------
(* The invariant.  ReceiptsAreCurrent and UpdatesSurvive are not inductive:  *)
(* they need what every thread has read of a row it is about to write, and   *)
(* what becomes of a row while a client is between the statements of an      *)
(* update.                                                                   *)

\* A thread that has a message in hand as it read it
Carries(t) ==
  \/ pc[t] \in {"claim", "consume", "deadLetter", "ackDead", "ackOriginal"}
  \/ pc[t] \in {"put", "countUp"} /\ t \in Repairers

\* A message as it was read: the row has moved on to a later version, or is the same.
AsRead(m) ==
  /\ ~Fresh(m.index)
  /\ rows[m.index] # Nil =>
       /\ m.version <= rows[m.index].version
       /\ m.version = rows[m.index].version =>
            ~rows[m.index].acked /\ rows[m.index].count = m.count /\ rows[m.index].blob = m.blob

FoundAsRead == \A t \in Threads : Carries(t) => AsRead(found[t])

\* A receipt and the content its holder knows, of a row that is not acknowledged
Holds(c, blob) ==
  LET row == rows[held[c].index]
  IN ~row.acked /\ row.count = held[c].delivery /\ row.blob = blob

Delivered == \A c \in Clients : held[c] # Nil => held[c].delivery >= 1

\* While a client is between the two statements of its update the row is as it left
\* it, and what others have read of it, and its own receipt, is out of date.
UpdatesUndisturbed ==
  \A c \in Clients : pc[c] = "reread" =>
    /\ OfNow(c)
    /\ rows[held[c].index] # Nil =>
         /\ Holds(c, found[c].blob)
         /\ held[c].version < rows[held[c].index].version
         /\ \A t \in Threads : Carries(t) /\ found[t].index = held[c].index =>
              found[t].version < rows[held[c].index].version

CurrentInv == OwnerInv /\ FoundAsRead /\ Delivered /\ UpdatesUndisturbed /\ ReceiptsAreCurrent

\* Nobody has seen a content that is yet to be written.
ContentsWritten ==
  /\ \A i \in Index : rows[i] # Nil => rows[i].blob <= writes
  /\ \A t \in Threads : Carries(t) => found[t].blob <= writes
  /\ \A c \in Clients : held[c] # Nil => held[c].blob <= writes
  /\ \A c \in Clients : pc[c] = "reread" => found[c].blob <= writes
  /\ \A blob \in owed : blob <= writes

\* A content does without the message at i: nobody is owed it, or it is in a message
\* further on.
CoveredPast(blob, i) ==
  blob \notin owed \/ \E j \in Unacked : j > i /\ rows[j].blob = blob

\* A message that was given up is owed no longer, and a message that was republished
\* does without its original.
Covered ==
  \A t \in Threads :
    /\ pc[t] = "ackDead" => found[t].blob \notin owed
    /\ pc[t] = "put" /\ t \in Repairers => found[t].index < slot[t]
    /\ pc[t] \in {"countUp", "ackOriginal"} /\ t \in Repairers =>
         CoveredPast(found[t].blob, found[t].index)

CountingUp == {t \in Threads : pc[t] = "countUp"}
CountingDown == {t \in Threads : pc[t] = "countDown"}

\* What the size counter will be when all counting is done, against what it should be
Balance == size + Cardinality(CountingUp) - Cardinality(CountingDown) - Cardinality(Unacked)

SizeInv == Balance <= crashes /\ -crashes <= Balance

LEMMA InitCurrent == Init => CurrentInv /\ ContentsWritten /\ Covered
<1> SUFFICES ASSUME Init PROVE CurrentInv /\ ContentsWritten /\ Covered
  OBVIOUS
<1>1. OwnerInv
  BY OwnerInit
<1>2. /\ \A t \in Threads : pc[t] = "idle"
      /\ \A c \in Clients : held[c] = Nil /\ pc[c] = "idle"
      /\ \A i \in Index : rows[i] = Nil
      /\ owed = {}
  BY DEF Init, Threads
<1>3. FoundAsRead /\ Delivered /\ UpdatesUndisturbed /\ ReceiptsAreCurrent
  BY <1>2 DEF FoundAsRead, Carries, Delivered, UpdatesUndisturbed, ReceiptsAreCurrent, Applies
<1>4. ContentsWritten /\ Covered
  BY <1>2 DEF ContentsWritten, Carries, Covered
<1> QED
  BY <1>1, <1>3, <1>4 DEF CurrentInv

-----------------------------------------------------------------------------
(* What a step does to the rows, and to what the threads have read *)

SameRow(i) ==
  /\ rows'[i].version = rows[i].version /\ rows'[i].acked = rows[i].acked
  /\ rows'[i].count = rows[i].count /\ rows'[i].blob = rows[i].blob

\* A row is new, or the same for whoever knows its version, or of a later version.
RowsMove ==
  \A i \in Index : rows'[i] # Nil =>
    \/ rows[i] = Nil /\ Fresh(i)
    \/ rows[i] # Nil /\ (SameRow(i) \/ rows'[i].version > rows[i].version)

FreshShrinks == \A i \in Index : Fresh(i)' => Fresh(i)

LEMMA Typed ==
  ASSUME TypeInv
  PROVE  /\ rows \in [Index -> Row \union {Nil}] /\ found \in [Threads -> Message \union {Nil}]
         /\ held \in [Clients -> Receipt \union {Nil}] /\ pc \in [Threads -> Labels]
         /\ slot \in [Threads -> Index \union {Nil}] /\ Clients \subseteq Threads
         /\ monoton \in Nat /\ Index \subseteq Nat /\ writes \in Nat
         /\ \A i \in Index : rows[i] # Nil => rows[i] \in Row /\ rows[i].version \in Nat
         /\ \A c \in Clients : held[c] # Nil => held[c] \in Receipt /\ held[c].index \in Index /\ held[c].version \in Nat
         /\ \A t \in Threads : Carries(t) => found[t] \in Message /\ found[t].index \in Index /\ found[t].version \in Nat
<1> USE DEF TypeInv, TypeOK
<1>1. /\ rows \in [Index -> Row \union {Nil}] /\ found \in [Threads -> Message \union {Nil}]
      /\ held \in [Clients -> Receipt \union {Nil}] /\ pc \in [Threads -> Labels]
      /\ slot \in [Threads -> Index \union {Nil}]
  BY DEF Labels
<1>2. Clients \subseteq Threads /\ monoton \in Nat /\ Index \subseteq Nat /\ writes \in Nat
  BY BoundsAssumption DEF Threads, Index
<1>3. \A i \in Index : rows[i] # Nil => rows[i] \in Row /\ rows[i].version \in Nat
  BY <1>1 DEF Row
<1>4. \A c \in Clients : held[c] # Nil => held[c] \in Receipt /\ held[c].index \in Index /\ held[c].version \in Nat
  BY <1>1 DEF Receipt
<1>5. \A t \in Threads : Carries(t) => found[t] \in Message
  BY DEF InHand, Carries
<1>6. \A m \in Message : m.index \in Index /\ m.version \in Nat
  BY DEF Message
<1> QED
  BY <1>1, <1>2, <1>3, <1>4, <1>5, <1>6

LEMMA AckMoves ==
  ASSUME TypeInv, NEW i \in Index, rows[i] # Nil, rows' = [rows EXCEPT ![i] = Acked(rows[i])]
  PROVE  RowsMove
<1>1. rows[i] \in Row /\ rows[i].version \in Nat
  BY Typed
<1>2. Acked(rows[i]).version = rows[i].version + 1
  BY <1>1 DEF Acked, Row
<1> QED
  BY <1>1, <1>2, Typed DEF RowsMove, SameRow

LEMMA MovesOn ==
  ASSUME OwnerInv, [Next]_vars, ~CreateAgain
  PROVE  RowsMove
<1> USE DEF OwnerInv
<1>s. UNCHANGED rows => RowsMove
  BY DEF RowsMove, SameRow
<1>1. ASSUME NEW t \in Threads,
             \/ RepairerCollects(t) \/ NextMonotonic(t) \/ CountUp(t) \/ FindMessage(t) \/ DeadLetter(t)
             \/ CountDown(t) \/ RereadMessage(t) \/ Crash(t)
      PROVE  RowsMove
  BY <1>1, <1>s DEF RepairerCollects, NextMonotonic, CountUp, FindMessage, DeadLetter, CountDown,
    RereadMessage, Crash, tables
<1>2. ASSUME NEW t \in Threads, PutMessage(t) PROVE RowsMove
  <2>1. slot[t] \in Index /\ rows[slot[t]] = Nil /\ Fresh(slot[t])
    BY <1>2 DEF PutMessage, TypeInv, InHand, Fresh
  <2>2. \A j \in Index : j # slot[t] => rows'[j] = rows[j]
    BY <1>2, <2>1, Typed DEF PutMessage
  <2> QED
    BY <2>1, <2>2 DEF RowsMove, SameRow
<1>3. ASSUME NEW t \in Threads, RawConsumeMessage(t) PROVE RowsMove
  <2> DEFINE m == found[t]
             i == m.index
             row == [rows[i] EXCEPT !.visible = FALSE, !.version = m.version + 1, !.count = m.count + 1]
  <2>1. m \in Message /\ i \in Index /\ m.version \in Nat
    BY <1>3, Typed DEF RawConsumeMessage, Carries
  <2>2. CASE HasVersion(i, m.version) /\ ~rows[i].acked
    <3>1. rows' = [rows EXCEPT ![i] = row]
      BY <1>3, <2>1, <2>2 DEF RawConsumeMessage
    <3>2. rows[i] \in Row /\ rows[i] # Nil /\ rows[i].version = m.version
      BY <2>1, <2>2, Typed DEF HasVersion
    <3>3. row.version = m.version + 1
      BY <3>2 DEF Row
    <3>4. rows'[i] = row /\ \A j \in Index : j # i => rows'[j] = rows[j]
      BY <2>1, <3>1, Typed
    <3> HIDE DEF m, i, row
    <3> QED
      BY <2>1, <3>2, <3>3, <3>4 DEF RowsMove, SameRow
  <2>3. CASE ~(HasVersion(i, m.version) /\ ~rows[i].acked)
    BY <1>3, <2>3, <1>s DEF RawConsumeMessage
  <2> QED
    BY <2>2, <2>3
<1>4. ASSUME NEW t \in Threads, AckReceipt(t) PROVE RowsMove
  BY <1>4, AckMoves, Typed DEF AckReceipt, Applies, HasVersion
<1>5. ASSUME NEW t \in Threads, AckFound(t) PROVE RowsMove
  <2>1. found[t].index \in Index
    BY <1>5, Typed DEF AckFound, Carries
  <2> QED
    BY <1>5, <1>s, <2>1, AckMoves DEF AckFound, HasVersion
<1>6. ASSUME NEW t \in Threads, UpdateMessage(t) PROVE RowsMove
  <2>1. PICK i \in Index : i = held[t].index /\ rows[i] # Nil
    BY <1>6, Typed DEF UpdateMessage, Applies, HasVersion
  <2>2. PICK blob \in Contents : rows' = [rows EXCEPT ![i] = Updated(t, rows[i], blob)]
    BY <1>6, <2>1 DEF UpdateMessage
  <2>3. rows[i] \in Row /\ rows[i].version \in Nat
    BY <2>1, Typed
  <2>4. Updated(t, rows[i], blob).version = rows[i].version + 1
    BY <2>3 DEF Updated, Row
  <2>5. rows'[i].version = rows[i].version + 1 /\ \A j \in Index : j # i => rows'[j] = rows[j]
    BY <2>2, <2>4, Typed
  <2> QED
    BY <2>1, <2>3, <2>5 DEF RowsMove, SameRow
<1>7. ASSUME NEW i \in Index, Expire(i) PROVE RowsMove
  <2>1. rows[i] \in Row /\ rows[i] # Nil /\ rows' = [rows EXCEPT ![i] = [rows[i] EXCEPT !.visible = TRUE]]
    BY <1>7, Typed DEF Expire, Unacked
  <2>2. /\ rows'[i] = [rows[i] EXCEPT !.visible = TRUE]
        /\ \A j \in Index : j # i => rows'[j] = rows[j]
    BY <2>1, Typed
  <2>3. SameRow(i)
    BY <2>1, <2>2 DEF SameRow, Row
  <2> QED
    BY <2>1, <2>2, <2>3 DEF RowsMove, SameRow
<1>8. CASE DeleteBucket
  BY <1>8 DEF DeleteBucket, RowsMove
<1>9. CASE UNCHANGED vars
  BY <1>9, <1>s DEF vars, tables
<1> QED
  BY <1>1, <1>2, <1>3, <1>4, <1>5, <1>6, <1>7, <1>8, <1>9 DEF Next

\* A thread that is about to put was so before, or claims its index from the monoton.
LEMMA StaysKnown ==
  ASSUME OwnerInv, [Next]_vars, ~CreateAgain
  PROVE  FreshShrinks
<1> USE DEF OwnerInv
<1>1. ASSUME NEW t \in Threads, NextMonotonic(t) PROVE FreshShrinks
  <2>1. /\ monoton' = monoton + 1 /\ slot' = [slot EXCEPT ![t] = monoton]
        /\ pc' = [pc EXCEPT ![t] = "put"]
    BY <1>1 DEF NextMonotonic, Goto
  <2>2. \A u \in Threads : pc'[u] = "put" => slot'[u] = monoton \/ (pc[u] = "put" /\ slot'[u] = slot[u])
    BY <2>1, Typed
  <2>3. monoton >= monoton /\ \A i \in Index : i >= monoton + 1 => i >= monoton
    BY Typed
  <2> QED
    BY <2>1, <2>2, <2>3 DEF FreshShrinks, Fresh
<1>2. CASE monoton' = monoton /\ \A u \in Threads : pc'[u] = "put" => pc[u] = "put" /\ slot'[u] = slot[u]
  BY <1>2 DEF FreshShrinks, Fresh
<1>3. ASSUME NEW t \in Threads,
             \/ RepairerCollects(t) \/ PutMessage(t) \/ CountUp(t) \/ FindMessage(t) \/ RawConsumeMessage(t)
             \/ DeadLetter(t) \/ AckReceipt(t) \/ AckFound(t) \/ CountDown(t)
             \/ UpdateMessage(t) \/ RereadMessage(t) \/ Crash(t)
      PROVE  FreshShrinks
  <2>1. monoton' = monoton
    BY <1>3 DEF RepairerCollects, PutMessage, CountUp, FindMessage, RawConsumeMessage, DeadLetter,
      AckReceipt, AckFound, CountDown, UpdateMessage, RereadMessage, Crash, tables
  <2>2. CASE Ends(t)
    BY <1>2, <2>1, <2>2, EndKeepsTypes
  <2>3. CASE ~Ends(t)
    BY <1>2, <1>3, <2>1, <2>3, Typed DEF RepairerCollects, PutMessage, CountUp, FindMessage, RawConsumeMessage,
      DeadLetter, AckReceipt, AckFound, CountDown, UpdateMessage, RereadMessage, Crash, Goto, Labels
  <2> QED
    BY <2>2, <2>3
<1>4. CASE (\E i \in Index : Expire(i)) \/ DeleteBucket \/ UNCHANGED vars
  BY <1>2, <1>4 DEF Expire, DeleteBucket, vars, tables, threads
<1> QED
  BY <1>1, <1>3, <1>4 DEF Next

LEMMA AsReadStays ==
  ASSUME OwnerInv, TypeInv', RowsMove, FreshShrinks, NEW m \in Message, AsRead(m)
  PROVE  AsRead(m)'
<1> DEFINE i == m.index
<1>1. i \in Index /\ m.version \in Nat
  BY DEF Message
<1>2. ~Fresh(i)' /\ ~Fresh(i)
  BY <1>1 DEF AsRead, FreshShrinks
<1>3. ASSUME rows'[i] # Nil
      PROVE  /\ m.version <= rows'[i].version
             /\ m.version = rows'[i].version =>
                  ~rows'[i].acked /\ rows'[i].count = m.count /\ rows'[i].blob = m.blob
  <2>1. rows[i] # Nil /\ (SameRow(i) \/ rows'[i].version > rows[i].version)
    BY <1>1, <1>2, <1>3 DEF RowsMove
  <2>2. rows[i].version \in Nat /\ rows'[i].version \in Nat
    BY <1>1, <1>3, <2>1 DEF OwnerInv, TypeInv, TypeOK, Row
  <2> QED
    BY <1>1, <2>1, <2>2 DEF AsRead, SameRow
<1> QED
  BY <1>2, <1>3 DEF AsRead

\* A thread carries what it did, or a message as it is.
CarriesOn(t) ==
  \/ Carries(t) /\ found'[t] = found[t]
  \/ /\ UNCHANGED rows
     /\ \E i \in Unacked : found'[t] = MessageAt(i) /\ (t \in Clients => ~BeingUpdated(i))
                           /\ (t \notin Clients => rows[i].count = 0)

LEMMA CarryOn ==
  ASSUME UpdatesInTime, OwnerInv, [Next]_vars, NEW u \in Threads, Carries(u)'
  PROVE  CarriesOn(u)
<1> USE DEF OwnerInv, CarriesOn
<1>0. \A t \in Repairers : t \notin Clients /\ t \in Threads
  BY ThreadsAssumption DEF Threads
<1>1. ASSUME NEW t \in Threads, RepairerCollects(t) \/ FindMessage(t) PROVE CarriesOn(u)
  BY <1>0, <1>1, Typed DEF RepairerCollects, FindMessage, Goto, Carries, tables
<1>2. ASSUME NEW t \in Threads, NextMonotonic(t) \/ PutMessage(t) \/ DeadLetter(t) \/ AckReceipt(t) \/ UpdateMessage(t)
      PROVE  CarriesOn(u)
  BY <1>2, ThreadsAssumption, Typed DEF NextMonotonic, ReadyToPut, PutMessage, DeadLetter, AckReceipt, UpdateMessage, Goto, Carries
<1>3. ASSUME NEW t \in Threads, Ends(t) PROVE CarriesOn(u)
  BY <1>3, EndKeepsTypes DEF Carries
<1>4. ASSUME NEW t \in Threads,
             CountUp(t) \/ RawConsumeMessage(t) \/ AckFound(t) \/ CountDown(t) \/ RereadMessage(t) \/ Crash(t), ~Ends(t)
      PROVE  CarriesOn(u)
  BY <1>4, Typed DEF CountUp, RawConsumeMessage, AckFound, CountDown, RereadMessage, Crash, Goto, Carries
<1>5. CASE (\E i \in Index : Expire(i)) \/ DeleteBucket \/ CreateAgain \/ UNCHANGED vars
  BY <1>5 DEF Expire, DeleteBucket, CreateAgain, vars, threads, Carries
<1> QED
  BY <1>1, <1>2, <1>3, <1>4, <1>5 DEF Next

LEMMA FoundStaysAsRead ==
  ASSUME UpdatesInTime, OwnerInv, FoundAsRead, [Next]_vars, TypeInv'
  PROVE  FoundAsRead'
<1> SUFFICES ASSUME NEW t \in Threads, Carries(t)' PROVE AsRead(found[t])'
  BY DEF FoundAsRead
<1>0. CASE CreateAgain
  BY <1>0 DEF CreateAgain, threads, Carries
<1>1. CASE ~CreateAgain
  <2>1. PICK m : m = found'[t] /\ AsRead(m) /\ m \in Message
    <3>1. CASE Carries(t) /\ found'[t] = found[t]
      BY <3>1, Typed DEF FoundAsRead, OwnerInv
    <3>2. ASSUME NEW i \in Unacked, found'[t] = MessageAt(i) PROVE AsRead(found'[t]) /\ found'[t] \in Message
      <4>1. i \in Index /\ rows[i] # Nil /\ ~rows[i].acked
        BY DEF Unacked
      <4>2. MessageAt(i) \in Message /\ rows[i].version \in Nat
        BY <4>1, MessageAtTyped, Typed DEF OwnerInv, TypeInv
      <4>3. AsRead(MessageAt(i))
        BY <4>1, <4>2 DEF AsRead, MessageAt, OwnerInv, FreshUnknown
      <4> QED
        BY <3>2, <4>2, <4>3
    <3> QED
      BY <3>1, <3>2, CarryOn DEF CarriesOn
  <2>2. AsRead(m)'
    BY <1>1, <2>1, MovesOn, StaysKnown, AsReadStays
  <2> QED
    BY <2>1, <2>2 DEF AsRead, Fresh
<1> QED
  BY <1>0, <1>1

-----------------------------------------------------------------------------
(* Receipts are of what their holders were given *)

\* A client that keeps its receipt: if it would be accepted it would have been, of the
\* same row, and the client is not between the statements of an update.
LEMMA ReceiptStays ==
  ASSUME CurrentInv, OwnerInv', RowsMove, generation' = generation,
         NEW c \in Clients, held'[c] = held[c], Applies(c)'
  PROVE  pc[c] # "reread" /\ Holds(c, held[c].blob)'
<1> USE DEF CurrentInv, OwnerInv
<1> DEFINE i == held[c].index
<1>1. /\ held[c] # Nil /\ i \in Index /\ held[c].version \in Nat
      /\ rows'[i] # Nil /\ rows'[i].version = held[c].version /\ rows'[i].tag = held[c].tag
  BY Typed DEF Applies, HasVersion
<1>2. OfNow(c)
  BY <1>1 DEF OfNow, TagsOfNow
<1>3. rows[i] # Nil /\ (SameRow(i) \/ rows'[i].version > rows[i].version)
  BY <1>1, <1>2 DEF FreshUnknown, RowsMove
<1>4. held[c].version <= rows[i].version /\ rows[i].version \in Nat /\ rows'[i].version \in Nat
  BY <1>1, <1>2, <1>3, Typed DEF NotAhead
<1>5. SameRow(i) /\ rows[i].version = held[c].version
  BY <1>1, <1>3, <1>4 DEF SameRow
<1>6. Applies(c)
  BY <1>1, <1>2, <1>3, <1>5 DEF Applies, HasVersion, TagsOfNow, OfNow
<1>7. pc[c] # "reread"
  BY <1>1, <1>3, <1>4, <1>5 DEF UpdatesUndisturbed
<1> QED
  BY <1>5, <1>6, <1>7 DEF ReceiptsAreCurrent, Holds, SameRow

\* While a client is between the statements of its update nobody changes its row.
LEMMA UntouchedWhileUpdated ==
  ASSUME UpdatesInTime, CurrentInv, OwnerInv', [Next]_vars,
         NEW c \in Clients, pc[c] = "reread", pc'[c] = "reread",
         NEW i \in Index, i = held[c].index, rows[i] # Nil, rows'[i] # Nil
  PROVE  SameRow(i) /\ held'[c] = held[c] /\ found'[c] = found[c]
<1> USE DEF CurrentInv, OwnerInv
<1>s. rows' = rows => SameRow(i)
  BY DEF SameRow
<1>t. \A j \in Index : \A row : j # i /\ rows' = [rows EXCEPT ![j] = row] => SameRow(i)
  BY Typed DEF SameRow
<1>c. c \in Threads
  BY Typed
<1>1. ASSUME NEW t \in Threads,
             RepairerCollects(t) \/ NextMonotonic(t) \/ CountUp(t) \/ FindMessage(t) \/ DeadLetter(t)
             \/ CountDown(t) \/ RereadMessage(t) \/ Crash(t)
      PROVE  SameRow(i) /\ held'[c] = held[c] /\ found'[c] = found[c]
  <2>1. t # c
    BY <1>1, <1>c, EndKeepsTypes, ThreadsAssumption, Typed
    DEF RepairerCollects, NextMonotonic, ReadyToPut, CountUp, FindMessage, DeadLetter, CountDown,
        RereadMessage, Crash, Goto
  <2>2. rows' = rows /\ held'[c] = held[c] /\ found'[c] = found[c]
    BY <1>1, <2>1, <1>c, EndKeepsTypes, Typed
    DEF RepairerCollects, NextMonotonic, CountUp, FindMessage, DeadLetter, CountDown,
        RereadMessage, Crash, tables
  <2> QED
    BY <1>s, <2>2
<1>2. ASSUME NEW t \in Threads, PutMessage(t)
      PROVE  SameRow(i) /\ held'[c] = held[c] /\ found'[c] = found[c]
  <2>1. slot[t] \in Index /\ slot[t] # i
    BY <1>2 DEF PutMessage, TypeInv, InHand
  <2> QED
    BY <1>2, <1>t, <2>1 DEF PutMessage
<1>3. ASSUME NEW t \in Threads, RawConsumeMessage(t) \/ AckFound(t)
      PROVE  SameRow(i) /\ held'[c] = held[c] /\ found'[c] = found[c]
  <2> DEFINE j == found[t].index
  <2>1. Carries(t) /\ j \in Index /\ t # c
    BY <1>3, Typed DEF RawConsumeMessage, AckFound, Carries
  <2>2. j = i => ~HasVersion(j, found[t].version)
    BY <2>1, Typed DEF UpdatesUndisturbed, HasVersion
  <2>3. found'[c] = found[c] /\ held'[c] = held[c]
    BY <1>3, <1>c, <2>1, EndKeepsTypes, Typed DEF RawConsumeMessage, AckFound, Goto
  <2>4. CASE RawConsumeMessage(t)
    BY <1>s, <1>t, <2>1, <2>2, <2>3, <2>4 DEF RawConsumeMessage
  <2>5. CASE AckFound(t)
    BY <1>s, <1>t, <2>1, <2>2, <2>3, <2>5 DEF AckFound
  <2> QED
    BY <1>3, <2>4, <2>5
<1>4. ASSUME NEW t \in Threads, AckReceipt(t) \/ UpdateMessage(t)
      PROVE  SameRow(i) /\ held'[c] = held[c] /\ found'[c] = found[c]
  <2> DEFINE j == held[t].index
  <2>1. t \in Clients /\ Applies(t) /\ t # c /\ j \in Index
    BY <1>4, Typed DEF AckReceipt, UpdateMessage, Applies
  <2>2. j # i
    BY <2>1 DEF UpdatesAlone
  <2>3. found'[c] = found[c] /\ held'[c] = held[c]
    BY <1>4, <1>c, <2>1, Typed DEF AckReceipt, UpdateMessage
  <2> QED
    BY <1>4, <1>t, <2>1, <2>2, <2>3 DEF AckReceipt, UpdateMessage
<1>5. ASSUME NEW j \in Index, Expire(j)
      PROVE  SameRow(i) /\ held'[c] = held[c] /\ found'[c] = found[c]
  <2>1. rows[j] \in Row /\ rows' = [rows EXCEPT ![j] = [rows[j] EXCEPT !.visible = TRUE]] /\ UNCHANGED <<held, found>>
    BY <1>5, Typed DEF Expire, Unacked, threads
  <2>2. CASE j = i
    <3>1. rows'[i] = [rows[i] EXCEPT !.visible = TRUE] /\ rows[i] \in Row
      BY <2>1, <2>2, Typed
    <3> QED
      BY <2>1, <3>1 DEF SameRow, Row
  <2> QED
    BY <1>t, <2>1, <2>2
<1>6. CASE DeleteBucket \/ CreateAgain
  BY <1>6 DEF DeleteBucket, CreateAgain
<1>7. CASE UNCHANGED vars
  BY <1>7, <1>s DEF vars, tables, threads
<1> QED
  BY <1>1, <1>2, <1>3, <1>4, <1>5, <1>6, <1>7 DEF Next

\* What a client is between the statements of its update, and stays there
LEMMA StillUndisturbed ==
  ASSUME UpdatesInTime, CurrentInv, OwnerInv', RowsMove, [Next]_vars, generation' = generation,
         NEW c \in Clients, pc[c] = "reread", pc'[c] = "reread"
  PROVE  /\ OfNow(c)'
         /\ rows'[held'[c].index] # Nil =>
              /\ Holds(c, found[c].blob)'
              /\ held'[c].version < rows'[held'[c].index].version
              /\ \A t \in Threads : Carries(t)' /\ found'[t].index = held'[c].index =>
                   found'[t].version < rows'[held'[c].index].version
<1> USE DEF CurrentInv, OwnerInv
<1>0. PICK i \in Index : i = held[c].index
  BY Typed DEF UpdatesUndisturbed, OfNow
<1>1. OfNow(c) /\ ~Fresh(i)
  BY <1>0 DEF UpdatesUndisturbed, FreshUnknown
<1>2. CASE rows'[i] # Nil
  <2>1. rows[i] # Nil
    BY <1>1, <1>2 DEF RowsMove
  <2>2. SameRow(i) /\ held'[c] = held[c] /\ found'[c] = found[c]
    BY <1>0, <1>2, <2>1, UntouchedWhileUpdated
  <2>3. /\ Holds(c, found[c].blob) /\ held[c].version < rows[i].version
        /\ \A t \in Threads : Carries(t) /\ found[t].index = i => found[t].version < rows[i].version
    BY <1>0, <2>1 DEF UpdatesUndisturbed
  <2>4. ASSUME NEW t \in Threads, Carries(t)', found'[t].index = i
        PROVE  found'[t].version < rows'[i].version
    <3>1. CASE Carries(t) /\ found'[t] = found[t]
      BY <2>2, <2>3, <2>4, <3>1 DEF SameRow
    <3>2. ASSUME NEW j \in Unacked, found'[t] = MessageAt(j), t \in Clients => ~BeingUpdated(j),
                 t \notin Clients => rows[j].count = 0
          PROVE  FALSE
      <4>1. j = i
        BY <2>4, <3>2 DEF MessageAt
      <4>2. BeingUpdated(i)
        BY <1>0 DEF BeingUpdated
      <4>3. rows[i].count = held[c].delivery /\ held[c].delivery >= 1
        BY <1>0, <1>1, <2>3 DEF Holds, Delivered, OfNow
      <4> QED
        BY <3>2, <4>1, <4>2, <4>3
    <3> QED
      BY <2>4, <3>1, <3>2, CarryOn DEF CarriesOn
  <2> QED
    BY <1>0, <1>1, <2>2, <2>3, <2>4 DEF Holds, SameRow, OfNow
<1>3. CASE rows'[i] = Nil
  <2>1. held'[c] = held[c]
    <3>1. \A t \in Threads : RawConsumeMessage(t) \/ RereadMessage(t) => t # c
      BY EndKeepsTypes DEF RawConsumeMessage, RereadMessage
    <3> QED
      BY <3>1, Typed DEF Next, RepairerCollects, NextMonotonic, PutMessage, CountUp, FindMessage,
        RawConsumeMessage, DeadLetter, AckReceipt, AckFound, CountDown, UpdateMessage, RereadMessage,
        Crash, Expire, DeleteBucket, CreateAgain, vars
  <2> QED
    BY <1>0, <1>1, <1>3, <2>1 DEF OfNow
<1> QED
  BY <1>2, <1>3

\* A client that is given a receipt by its delivery
LEMMA ConsumedIsCurrent ==
  ASSUME CurrentInv, OwnerInv', NEW c \in Clients, RawConsumeMessage(c)
  PROVE  held'[c] = held[c] \/ (held'[c].delivery >= 1 /\ Holds(c, held[c].blob)')
<1> USE DEF CurrentInv, OwnerInv
<1> DEFINE m == found[c]
           i == m.index
           version == m.version + 1
           count == m.count + 1
           row == [rows[i] EXCEPT !.visible = FALSE, !.version = version, !.count = count]
           receipt == [index |-> i, tag |-> rows[i].tag, version |-> version,
                       delivery |-> count, blob |-> m.blob]
<1>1. Carries(c) /\ m \in Message /\ i \in Index
  BY Typed DEF RawConsumeMessage, Carries
<1>2. CASE HasVersion(i, m.version) /\ ~rows[i].acked
  <2>1. rows' = [rows EXCEPT ![i] = row] /\ held' = [held EXCEPT ![c] = receipt]
    BY <1>1, <1>2 DEF RawConsumeMessage
  <2>2. rows[i] \in Row /\ ~rows[i].acked /\ rows[i].blob = m.blob
    BY <1>1, <1>2, Typed DEF HasVersion, FoundAsRead, AsRead
  <2>3. count >= 1
    BY <1>1 DEF Message
  <2>4. receipt.index = i /\ receipt.delivery = count /\ receipt.blob = m.blob
    OBVIOUS
  <2>5. ~row.acked /\ row.count = count /\ row.blob = m.blob
    BY <2>2 DEF Row
  <2> HIDE DEF row, receipt, count, version
  <2>6. rows'[i] = row /\ held'[c] = receipt
    BY <1>1, <2>1, Typed
  <2> HIDE DEF m, i
  <2> QED
    BY <2>3, <2>4, <2>5, <2>6 DEF Holds
<1>3. CASE ~(HasVersion(i, m.version) /\ ~rows[i].acked)
  BY <1>3 DEF RawConsumeMessage
<1> QED
  BY <1>2, <1>3

\* A client that is given a receipt for the message as it has updated it
LEMMA RereadIsCurrent ==
  ASSUME CurrentInv, OwnerInv', NEW c \in Clients, RereadMessage(c)
  PROVE  \/ held'[c] = held[c] /\ rows'[held[c].index] = Nil
         \/ held'[c].delivery = held[c].delivery /\ Holds(c, held[c].blob)'
<1> USE DEF CurrentInv, OwnerInv
<1>0. PICK i \in Index : i = held[c].index
  BY Typed DEF RereadMessage, UpdatesUndisturbed, OfNow
<1>1. rows' = rows /\ pc[c] = "reread" /\ held[c] \in Receipt
  BY Typed DEF RereadMessage, tables, UpdatesUndisturbed, OfNow
<1>2. CASE rows[i] = Nil
  BY <1>0, <1>1, <1>2 DEF RereadMessage
<1>3. CASE rows[i] # Nil
  <2> DEFINE receipt == [held[c] EXCEPT !.version = rows[i].version, !.tag = rows[i].tag, !.blob = found[c].blob]
  <2>1. held' = [held EXCEPT ![c] = receipt]
    BY <1>0, <1>3, Typed DEF RereadMessage
  <2>2. receipt.index = i /\ receipt.delivery = held[c].delivery /\ receipt.blob = found[c].blob
    BY <1>0, <1>1 DEF Receipt
  <2>3. Holds(c, found[c].blob)
    BY <1>0, <1>1, <1>3 DEF UpdatesUndisturbed
  <2> HIDE DEF receipt
  <2>4. held'[c] = receipt
    BY <2>1, Typed
  <2> QED
    BY <1>0, <1>1, <2>2, <2>3, <2>4 DEF Holds
<1> QED
  BY <1>2, <1>3

\* Nobody else gives a client a receipt.
LEMMA ReceiptGiven ==
  ASSUME TypeInv, [Next]_vars, NEW c \in Clients, ~RawConsumeMessage(c), ~RereadMessage(c)
  PROVE  held'[c] = held[c]
<1>1. ASSUME NEW t \in Threads, RawConsumeMessage(t) \/ RereadMessage(t) PROVE held'[c] = held[c]
  <2>1. t # c
    BY <1>1
  <2>2. held' = held \/ \E receipt : held' = [held EXCEPT ![t] = receipt]
    BY <1>1 DEF RawConsumeMessage, RereadMessage
  <2> QED
    BY <2>1, <2>2, Typed
<1>2. ASSUME NEW t \in Threads,
             \/ RepairerCollects(t) \/ NextMonotonic(t) \/ PutMessage(t) \/ CountUp(t) \/ FindMessage(t)
             \/ DeadLetter(t) \/ AckReceipt(t) \/ AckFound(t) \/ CountDown(t) \/ UpdateMessage(t) \/ Crash(t)
      PROVE  held' = held
  BY <1>2 DEF RepairerCollects, NextMonotonic, PutMessage, CountUp, FindMessage, DeadLetter, AckReceipt,
    AckFound, CountDown, UpdateMessage, Crash
<1>3. CASE (\E i \in Index : Expire(i)) \/ DeleteBucket \/ CreateAgain \/ UNCHANGED vars
  BY <1>3 DEF Expire, DeleteBucket, CreateAgain, vars
<1> QED
  BY <1>1, <1>2, <1>3 DEF Next

LEMMA GenerationKept ==
  ASSUME [Next]_vars, ~CreateAgain
  PROVE  generation' = generation
BY DEF Next, RepairerCollects, NextMonotonic, PutMessage, CountUp, FindMessage,
  RawConsumeMessage, DeadLetter, AckReceipt, AckFound, CountDown, UpdateMessage, RereadMessage,
  Crash, Expire, DeleteBucket, tables, vars

LEMMA ReceiptsStayCurrent ==
  ASSUME CurrentInv, OwnerInv', [Next]_vars
  PROVE  ReceiptsAreCurrent' /\ Delivered'
<1> USE DEF CurrentInv
<1>1. ASSUME NEW c \in Clients, Applies(c)' PROVE Holds(c, held[c].blob)'
  <2>1. CASE CreateAgain
    BY <1>1, <2>1, Typed DEF CreateAgain, Applies, HasVersion, OwnerInv
  <2>2. CASE ~CreateAgain /\ held'[c] = held[c]
    BY <1>1, <2>2, MovesOn, GenerationKept, ReceiptStays
  <2>3. CASE RawConsumeMessage(c) /\ held'[c] # held[c]
    BY <2>3, ConsumedIsCurrent
  <2>4. CASE RereadMessage(c) /\ held'[c] # held[c]
    BY <2>4, RereadIsCurrent
  <2> QED
    BY <2>1, <2>2, <2>3, <2>4, ReceiptGiven DEF OwnerInv
<1>2. ReceiptsAreCurrent'
  BY <1>1 DEF ReceiptsAreCurrent, Holds
<1>3. ASSUME NEW c \in Clients, held'[c] # Nil PROVE held'[c].delivery >= 1
  <2>1. CASE held'[c] = held[c]
    BY <1>3, <2>1 DEF Delivered
  <2>2. CASE RawConsumeMessage(c) /\ held'[c] # held[c]
    BY <2>2, ConsumedIsCurrent
  <2>3. CASE RereadMessage(c) /\ held'[c] # held[c]
    <3>1. held[c] # Nil
      BY <2>3 DEF RereadMessage, UpdatesUndisturbed, OfNow
    <3> QED
      BY <2>3, <3>1, RereadIsCurrent DEF Delivered
  <2> QED
    BY <2>1, <2>2, <2>3, ReceiptGiven DEF OwnerInv
<1> QED
  BY <1>2, <1>3 DEF Delivered

\* The first statement of an update
LEMMA UpdateUndisturbed ==
  ASSUME CurrentInv, OwnerInv', NEW c \in Clients, UpdateMessage(c)
  PROVE  /\ OfNow(c)'
         /\ rows'[held'[c].index] # Nil =>
              /\ Holds(c, found[c].blob)'
              /\ held'[c].version < rows'[held'[c].index].version
              /\ \A t \in Threads : Carries(t)' /\ found'[t].index = held'[c].index =>
                   found'[t].version < rows'[held'[c].index].version
<1> USE DEF CurrentInv, OwnerInv
<1>1. PICK i \in Index : /\ i = held[c].index /\ rows[i] \in Row /\ rows[i] # Nil /\ held[c] \in Receipt
                         /\ rows[i].version = held[c].version /\ rows[i].tag = held[c].tag
  BY Typed DEF UpdateMessage, Applies, HasVersion
<1>2. PICK blob \in Contents :
        /\ rows' = [rows EXCEPT ![i] = Updated(c, rows[i], blob)]
        /\ found' = [found EXCEPT ![c] = [MessageAt(i) EXCEPT !.blob = blob]]
  BY <1>1 DEF UpdateMessage
<1>3. pc' = [pc EXCEPT ![c] = "reread"] /\ UNCHANGED <<held, generation>>
  BY DEF UpdateMessage, Goto
<1>4. ~rows[i].acked /\ rows[i].count = held[c].delivery /\ rows[i].blob = held[c].blob
  BY <1>1 DEF UpdateMessage, ReceiptsAreCurrent
<1> DEFINE row == Updated(c, rows[i], blob)
<1>5. /\ ~row.acked /\ row.count = rows[i].count /\ row.blob = blob
      /\ row.version = rows[i].version + 1
  BY <1>1, <1>4 DEF Updated, Row
<1>6. rows'[i] = row /\ found'[c].blob = blob
  BY <1>1, <1>2, Typed DEF MessageAt
<1> HIDE DEF row
<1>7. OfNow(c)'
  BY <1>1, <1>3 DEF OfNow, TagsOfNow, UpdateMessage, Applies
<1>8. ASSUME NEW t \in Threads, Carries(t)', found'[t].index = i
      PROVE  found'[t].version < rows[i].version + 1
  <2>1. Carries(t) /\ found'[t] = found[t]
    BY <1>1, <1>2, <1>3, <1>8, Typed DEF Carries
  <2>2. found[t].version <= rows[i].version /\ found[t].version \in Nat /\ rows[i].version \in Nat
    BY <1>1, <1>8, <2>1, Typed DEF FoundAsRead, AsRead
  <2> QED
    BY <2>1, <2>2
<1>9. held[c].version < rows[i].version + 1
  BY <1>1, Typed
<1> QED
  BY <1>1, <1>3, <1>4, <1>5, <1>6, <1>7, <1>8, <1>9 DEF Holds

LEMMA UpdatesStayUndisturbed ==
  ASSUME UpdatesInTime, CurrentInv, OwnerInv', [Next]_vars
  PROVE  UpdatesUndisturbed'
<1> SUFFICES ASSUME NEW c \in Clients, pc'[c] = "reread"
             PROVE  /\ OfNow(c)'
                    /\ rows'[held'[c].index] # Nil =>
                         /\ Holds(c, found[c].blob)'
                         /\ held'[c].version < rows'[held'[c].index].version
                         /\ \A t \in Threads : Carries(t)' /\ found'[t].index = held'[c].index =>
                              found'[t].version < rows'[held'[c].index].version
  BY DEF UpdatesUndisturbed
<1>1. CASE pc[c] = "reread"
  <2>1. ~CreateAgain
    BY <1>1, Typed DEF CreateAgain, CurrentInv, OwnerInv
  <2> QED
    BY <1>1, <2>1, MovesOn, GenerationKept, StillUndisturbed DEF CurrentInv
<1>2. CASE pc[c] # "reread"
  <2>1. ASSUME NEW t \in Threads, Ends(t) PROVE FALSE
    BY <1>2, <2>1, EndKeepsTypes, Typed DEF CurrentInv, OwnerInv
  <2>2. UpdateMessage(c)
    <3> USE DEF CurrentInv, OwnerInv
    <3>1. ASSUME NEW t \in Threads, UpdateMessage(t) PROVE t = c
      BY <1>2, <3>1, Typed DEF UpdateMessage, Goto
    <3>2. ASSUME NEW t \in Threads,
                 \/ RepairerCollects(t) \/ NextMonotonic(t) \/ PutMessage(t) \/ FindMessage(t)
                 \/ DeadLetter(t) \/ AckReceipt(t)
          PROVE  FALSE
      BY <1>2, <3>2, Typed DEF RepairerCollects, NextMonotonic, PutMessage, FindMessage, DeadLetter, AckReceipt, Goto
    <3>3. ASSUME NEW t \in Threads,
                 CountUp(t) \/ RawConsumeMessage(t) \/ AckFound(t) \/ CountDown(t) \/ RereadMessage(t) \/ Crash(t)
          PROVE  FALSE
      BY <1>2, <2>1, <3>3, Typed DEF CountUp, RawConsumeMessage, AckFound, CountDown, RereadMessage, Crash, Goto
    <3>4. CASE (\E i \in Index : Expire(i)) \/ DeleteBucket \/ CreateAgain \/ UNCHANGED vars
      BY <1>2, <3>4 DEF Expire, DeleteBucket, CreateAgain, vars, threads
    <3> QED
      BY <3>1, <3>2, <3>3, <3>4 DEF Next
  <2> QED
    BY <2>2, UpdateUndisturbed
<1> QED
  BY <1>1, <1>2

LEMMA CurrentNext ==
  ASSUME UpdatesInTime, CurrentInv, [Next]_vars
  PROVE  CurrentInv'
<1>1. OwnerInv' /\ TypeInv'
  BY OwnerNext DEF CurrentInv, OwnerInv
<1> QED
  BY <1>1, FoundStaysAsRead, ReceiptsStayCurrent, UpdatesStayUndisturbed DEF CurrentInv

\* A receipt that is accepted is of the latest delivery of a message that nobody
\* has acknowledged, with the content its holder knows: no acknowledgement or
\* update made with it hits a later delivery, a content of somebody else, or a
\* message of another queue of the same name (QueueResource.ackMessage and
\* updateMessage, MessageRepositoryImpl.updateMessage).
THEOREM ReceiptsAreCurrentAlways ==
  ASSUME UpdatesInTime
  PROVE  Spec => []ReceiptsAreCurrent
<1>1. CurrentInv => ReceiptsAreCurrent
  BY DEF CurrentInv
<1>2. Init => CurrentInv
  BY InitCurrent
<1>3. CurrentInv /\ [Next]_vars => CurrentInv'
  BY CurrentNext
<1> QED
  BY <1>1, <1>2, <1>3, PTL DEF Spec

-----------------------------------------------------------------------------
(* No content that was accepted is lost *)

SurvivalInv == CurrentInv /\ ContentsWritten /\ Covered /\ UpdatesSurvive

\* How a thread comes to the statements that drop a message, or write a content
LEMMA ThreadSteps ==
  ASSUME TypeInv, [Next]_vars, NEW t \in Threads
  PROVE  /\ pc'[t] = "ackDead" => found'[t] = found[t] /\ (pc[t] = "ackDead" \/ DeadLetter(t))
         /\ pc'[t] = "put" =>
              found'[t] = found[t] /\ ((pc[t] = "put" /\ slot'[t] = slot[t]) \/ NextMonotonic(t))
         /\ pc'[t] \in {"countUp", "ackOriginal"} /\ t \in Repairers =>
              found'[t] = found[t] /\ (pc[t] \in {"countUp", "ackOriginal"} \/ PutMessage(t))
         /\ pc'[t] = "reread" => (pc[t] = "reread" /\ found'[t] = found[t]) \/ UpdateMessage(t)
<1> DEFINE Same == pc'[t] = pc[t] /\ found'[t] = found[t] /\ slot'[t] = slot[t]
           Idle == pc'[t] \in {"idle", "claim", "consume", "deadLetter", "countDown"}
<1>1. ASSUME NEW u \in Threads, Ends(u) PROVE Same \/ Idle
  BY <1>1, EndKeepsTypes
<1>2. ASSUME NEW u \in Threads,
             \/ RepairerCollects(u) \/ FindMessage(u) \/ AckReceipt(u) \/ AckFound(u)
             \/ RawConsumeMessage(u) \/ CountDown(u) \/ RereadMessage(u) \/ Crash(u)
      PROVE  Same \/ Idle
  <2>1. CASE Ends(u)
    BY <1>1, <2>1
  <2>2. CASE ~Ends(u)
    BY <1>2, <2>2, Typed DEF RepairerCollects, FindMessage, AckReceipt, AckFound, RawConsumeMessage, CountDown,
      RereadMessage, Crash, Goto
  <2> QED
    BY <2>1, <2>2
<1>3. ASSUME (\E i \in Index : Expire(i)) \/ DeleteBucket \/ CreateAgain \/ UNCHANGED vars
      PROVE  Same
  BY <1>3 DEF Expire, DeleteBucket, CreateAgain, vars, threads
<1>4. ASSUME NEW u \in Threads, u # t, NextMonotonic(u) \/ PutMessage(u) \/ DeadLetter(u) \/ UpdateMessage(u)
      PROVE  Same
  BY <1>4, Typed DEF NextMonotonic, PutMessage, DeadLetter, UpdateMessage, Goto
<1>5. ASSUME NEW u \in Threads, CountUp(u) PROVE Same \/ Idle \/ (u = t /\ t \in Repairers)
  BY <1>1, <1>5, Typed DEF CountUp, Goto
<1>6. CASE CountUp(t) /\ t \in Repairers
  BY <1>6, Typed DEF CountUp, Goto
<1>7. CASE NextMonotonic(t) \/ PutMessage(t) \/ DeadLetter(t) \/ UpdateMessage(t)
  BY <1>7, Typed DEF NextMonotonic, PutMessage, DeadLetter, UpdateMessage, Goto
<1>8. (Same \/ Idle) \/ (CountUp(t) /\ t \in Repairers)
        \/ NextMonotonic(t) \/ PutMessage(t) \/ DeadLetter(t) \/ UpdateMessage(t)
  <2> HIDE DEF Same, Idle
  <2>1. ASSUME NEW u \in Threads,
               NextMonotonic(u) \/ PutMessage(u) \/ DeadLetter(u) \/ UpdateMessage(u)
        PROVE  Same \/ NextMonotonic(t) \/ PutMessage(t) \/ DeadLetter(t) \/ UpdateMessage(t)
    BY <1>4, <2>1
  <2>2. ASSUME NEW u \in Threads, CountUp(u) PROVE Same \/ Idle \/ (CountUp(t) /\ t \in Repairers)
    BY <1>5, <2>2
  <2> QED
    BY <1>2, <1>3, <2>1, <2>2 DEF Next
<1>9. CASE Same \/ Idle
  BY <1>9
<1> HIDE DEF Same, Idle
<1> QED
  BY <1>6, <1>7, <1>8, <1>9

\* A content is owed since it was written, and what is written counts up.
LEMMA OwedSteps ==
  ASSUME TypeInv, [Next]_vars
  PROVE  /\ writes' = writes \/ writes' = writes + 1
         /\ \A blob \in owed' : blob \in owed \/ (blob = writes + 1 /\ writes' = writes + 1)
<1>1. ASSUME NEW t \in Threads, PutMessage(t) \/ UpdateMessage(t)
      PROVE  /\ writes' = writes \/ writes' = writes + 1
             /\ \A blob \in owed' : blob \in owed \/ (blob = writes + 1 /\ writes' = writes + 1)
  BY <1>1 DEF PutMessage, UpdateMessage, Write
<1>2. ASSUME NEW t \in Threads,
             \/ RepairerCollects(t) \/ NextMonotonic(t) \/ CountUp(t) \/ FindMessage(t) \/ RawConsumeMessage(t)
             \/ DeadLetter(t) \/ AckReceipt(t) \/ AckFound(t) \/ CountDown(t) \/ RereadMessage(t) \/ Crash(t)
      PROVE  writes' = writes /\ owed' \subseteq owed
  BY <1>2 DEF RepairerCollects, NextMonotonic, CountUp, FindMessage, RawConsumeMessage, DeadLetter, AckReceipt,
    AckFound, CountDown, RereadMessage, Crash, history
<1>3. CASE (\E i \in Index : Expire(i)) \/ DeleteBucket \/ CreateAgain \/ UNCHANGED vars
  BY <1>3 DEF Expire, DeleteBucket, CreateAgain, vars, history
<1> QED
  BY <1>1, <1>2, <1>3 DEF Next

\* Only a put and an update write a content into a row.
LEMMA ContentsKept ==
  ASSUME TypeInv, [Next]_vars, NEW i \in Index, rows'[i] # Nil
  PROVE  \/ rows[i] # Nil /\ rows'[i].blob = rows[i].blob
         \/ \E t \in Threads : PutMessage(t) /\ i = slot[t]
         \/ \E t \in Clients : UpdateMessage(t) /\ i = held[t].index
<1> DEFINE Kept == rows[i] # Nil /\ rows'[i].blob = rows[i].blob
<1>s. rows' = rows => Kept
  OBVIOUS
<1>t. \A j \in Index : \A row :
        rows' = [rows EXCEPT ![j] = row] /\ (j = i => rows[i] # Nil /\ row.blob = rows[i].blob) => Kept
  BY Typed
<1>1. ASSUME NEW t \in Threads,
             \/ RepairerCollects(t) \/ NextMonotonic(t) \/ CountUp(t) \/ FindMessage(t) \/ DeadLetter(t)
             \/ CountDown(t) \/ RereadMessage(t) \/ Crash(t)
      PROVE  Kept
  BY <1>1, <1>s DEF RepairerCollects, NextMonotonic, CountUp, FindMessage, DeadLetter, CountDown,
    RereadMessage, Crash, tables
<1>2. ASSUME NEW t \in Threads, PutMessage(t), i # slot[t] PROVE Kept
  <2>1. slot[t] \in Index
    BY <1>2 DEF PutMessage, TypeInv, InHand
  <2> QED
    BY <1>2, <1>t, <2>1 DEF PutMessage
<1>3. ASSUME NEW t \in Threads, RawConsumeMessage(t) PROVE Kept
  <2> DEFINE m == found[t]
             j == m.index
             version == m.version + 1
             count == m.count + 1
             row == [rows[j] EXCEPT !.visible = FALSE, !.version = version, !.count = count]
  <2>1. m \in Message /\ j \in Index
    BY <1>3, Typed DEF RawConsumeMessage, Carries
  <2>2. CASE HasVersion(j, m.version) /\ ~rows[j].acked
    <3>1. rows' = [rows EXCEPT ![j] = row]
      BY <1>3, <2>1, <2>2 DEF RawConsumeMessage
    <3>2. rows[j] \in Row /\ rows[j] # Nil
      BY <2>1, <2>2, Typed DEF HasVersion
    <3> HIDE DEF version, count
    <3>3. row.blob = rows[j].blob
      BY <3>2 DEF Row
    <3> HIDE DEF row, j
    <3> QED
      BY <1>t, <2>1, <3>1, <3>2, <3>3
  <2>3. CASE ~(HasVersion(j, m.version) /\ ~rows[j].acked)
    BY <1>3, <1>s, <2>3 DEF RawConsumeMessage
  <2> QED
    BY <2>2, <2>3
<1>4. \A j \in Index : rows[j] # Nil /\ rows' = [rows EXCEPT ![j] = Acked(rows[j])] => Kept
  <2> SUFFICES ASSUME NEW j \in Index, rows[j] # Nil, rows' = [rows EXCEPT ![j] = Acked(rows[j])] PROVE Kept
    OBVIOUS
  <2>1. rows[j] \in Row
    BY Typed
  <2>2. Acked(rows[j]).blob = rows[j].blob
    BY <2>1 DEF Acked, Row
  <2> QED
    BY <1>t, <2>2
<1>5. ASSUME NEW t \in Threads, AckReceipt(t) PROVE Kept
  BY <1>4, <1>5, Typed DEF AckReceipt, Applies, HasVersion
<1>6. ASSUME NEW t \in Threads, AckFound(t) PROVE Kept
  <2>1. found[t].index \in Index
    BY <1>6, Typed DEF AckFound, Carries
  <2> QED
    BY <1>4, <1>6, <1>s, <2>1 DEF AckFound, HasVersion
<1>7. ASSUME NEW t \in Threads, UpdateMessage(t), i # held[t].index PROVE Kept
  <2>1. held[t].index \in Index
    BY <1>7, Typed DEF UpdateMessage, Applies
  <2> QED
    BY <1>7, <1>t, <2>1 DEF UpdateMessage
<1>8. ASSUME NEW j \in Index, Expire(j) PROVE Kept
  <2> DEFINE row == [rows[j] EXCEPT !.visible = TRUE]
  <2>1. rows[j] \in Row /\ rows[j] # Nil /\ rows' = [rows EXCEPT ![j] = row]
    BY <1>8, Typed DEF Expire, Unacked
  <2>2. row.blob = rows[j].blob
    BY <2>1 DEF Row
  <2> HIDE DEF row
  <2> QED
    BY <1>t, <2>1, <2>2
<1>9. ASSUME DeleteBucket \/ CreateAgain \/ UNCHANGED vars PROVE Kept
  BY <1>9, <1>s DEF DeleteBucket, CreateAgain, vars, tables
<1>10. \A t \in Threads : UpdateMessage(t) => t \in Clients
  BY DEF UpdateMessage
<1> HIDE DEF Kept
<1>11. \/ Kept
       \/ \E t \in Threads : PutMessage(t) /\ i = slot[t]
       \/ \E t \in Clients : UpdateMessage(t) /\ i = held[t].index
  BY <1>1, <1>2, <1>3, <1>5, <1>6, <1>7, <1>8, <1>9, <1>10 DEF Next
<1> QED
  BY <1>11 DEF Kept

\* The content a put writes, and the one an update writes
LEMMA PutContent ==
  ASSUME TypeInv, NEW t \in Threads, PutMessage(t)
  PROVE  /\ slot[t] \in Index /\ rows[slot[t]] = Nil
         /\ rows'[slot[t]] # Nil /\ ~rows'[slot[t]].acked
         /\ \/ t \in Publishers /\ rows'[slot[t]].blob = writes + 1 /\ writes' = writes + 1
               /\ owed' = owed \union {writes + 1}
            \/ t \in Repairers /\ rows'[slot[t]].blob = found[t].blob /\ writes' = writes /\ owed' = owed
<1>1. PICK i \in Index : i = slot[t] /\ rows[i] = Nil
  BY DEF PutMessage, TypeInv, InHand
<1>2. PICK blob \in Contents, visible \in BOOLEAN :
        /\ rows' = [rows EXCEPT ![i] = NewRow(blob, visible)]
        /\ \/ t \in Publishers /\ blob = writes + 1 /\ writes' = writes + 1 /\ owed' = owed \union {writes + 1}
           \/ t \in Repairers /\ blob = found[t].blob /\ writes' = writes /\ owed' = owed
  <2>1. ASSUME t \in Publishers, writes < MaxWrites, writes' = writes + 1, owed' = owed \union {writes + 1},
               rows' = [rows EXCEPT ![i] = NewRow(writes + 1, FALSE)]
        PROVE  \E blob \in Contents, visible \in BOOLEAN :
                 /\ rows' = [rows EXCEPT ![i] = NewRow(blob, visible)]
                 /\ blob = writes + 1 /\ writes' = writes + 1 /\ owed' = owed \union {writes + 1}
    <3>1. writes + 1 \in Contents
      BY <2>1, BoundsAssumption DEF Contents, TypeInv, TypeOK
    <3> QED
      BY <2>1, <3>1
  <2>2. ASSUME t \in Repairers, owed' = owed, writes' = writes,
               rows' = [rows EXCEPT ![i] = NewRow(found[t].blob, TRUE)]
        PROVE  \E blob \in Contents, visible \in BOOLEAN :
                 /\ rows' = [rows EXCEPT ![i] = NewRow(blob, visible)]
                 /\ blob = found[t].blob /\ writes' = writes /\ owed' = owed
    <3>1. found[t].blob \in Contents
      BY <2>2 DEF PutMessage, TypeInv, InHand, Message
    <3> QED
      BY <2>2, <3>1
  <2> QED
    BY <1>1, <2>1, <2>2 DEF PutMessage
<1>3. NewRow(blob, visible) \in Row
  BY DEF NewRow, Row, Tags, TypeInv, TypeOK
<1>4. NewRow(blob, visible).blob = blob /\ ~NewRow(blob, visible).acked
  BY DEF NewRow
<1>5. rows'[i] = NewRow(blob, visible)
  BY <1>2, Typed
<1>6. NewRow(blob, visible) # Nil
  BY <1>3, NilAssumption
<1> QED
  BY <1>1, <1>2, <1>4, <1>5, <1>6

LEMMA UpdateContent ==
  ASSUME CurrentInv, ContentsWritten, NEW c \in Clients, UpdateMessage(c)
  PROVE  LET i == held[c].index
         IN /\ i \in Unacked /\ rows[i].blob = held[c].blob
            /\ i \in Unacked' /\ rows'[i].blob = found'[c].blob
            /\ \/ rows'[i].blob = rows[i].blob /\ owed' = owed /\ writes' = writes
               \/ /\ rows'[i].blob = writes + 1 /\ writes' = writes + 1
                  /\ owed' = (owed \ {rows[i].blob}) \union {writes + 1}
<1> USE DEF CurrentInv, OwnerInv
<1>1. PICK i \in Index : /\ i = held[c].index /\ rows[i] \in Row /\ rows[i] # Nil /\ held[c] \in Receipt
  BY Typed DEF UpdateMessage, Applies, HasVersion
<1>2. ~rows[i].acked /\ rows[i].blob = held[c].blob
  BY <1>1 DEF UpdateMessage, ReceiptsAreCurrent
<1>3. PICK blob \in Contents :
        /\ rows' = [rows EXCEPT ![i] = Updated(c, rows[i], blob)]
        /\ found' = [found EXCEPT ![c] = [MessageAt(i) EXCEPT !.blob = blob]]
        /\ Write(c, blob)
  BY <1>1 DEF UpdateMessage
<1> DEFINE row == Updated(c, rows[i], blob)
<1>4. row.blob = blob /\ ~row.acked
  BY <1>1, <1>2 DEF Updated, Row
<1>5. row # Nil
  <2>1. row \in Row
    <3>1. rows[i].count <= MaxDelivery
      BY <1>1 DEF TypeInv, TypeOK
    <3> QED
      BY <1>1, <3>1, UpdatedRow DEF GoodRow
  <2> QED
    BY <2>1, NilAssumption
<1> HIDE DEF row
<1>6. rows'[i] = row /\ found'[c].blob = blob
  BY <1>1, <1>3, Typed DEF MessageAt, row
<1>7. i \in Unacked /\ i \in Unacked'
  BY <1>1, <1>2, <1>4, <1>5, <1>6 DEF Unacked
<1>8. \/ blob = rows[i].blob /\ owed' = owed /\ writes' = writes
      \/ blob = writes + 1 /\ writes' = writes + 1 /\ owed' = (owed \ {rows[i].blob}) \union {writes + 1}
  BY <1>2, <1>3 DEF Write
<1> QED
  BY <1>1, <1>2, <1>4, <1>6, <1>7, <1>8

LEMMA ContentsStayWritten ==
  ASSUME UpdatesInTime, CurrentInv, CurrentInv', ContentsWritten, [Next]_vars
  PROVE  ContentsWritten'
<1> USE DEF CurrentInv, OwnerInv
<1>0. /\ writes \in Nat /\ writes' \in Nat /\ (writes' = writes \/ writes' = writes + 1)
      /\ \A n \in Nat : n <= writes => n <= writes'
  BY Typed, OwedSteps DEF TypeInv, TypeOK
<1>1. /\ Contents \subseteq Nat /\ owed \subseteq Contents
      /\ \A i \in Index : rows[i] # Nil => rows[i].blob \in Nat
      /\ \A t \in Threads : Carries(t) => found[t].blob \in Nat
      /\ \A c \in Clients : held[c] # Nil => held[c].blob \in Nat
      /\ \A c \in Clients : pc[c] = "reread" => found[c].blob \in Nat
  <2>1. Contents \subseteq Nat /\ owed \subseteq Contents
    BY DEF Contents, TypeInv, TypeOK
  <2>2. \A row \in Row \union Message \union Receipt : row.blob \in Nat
    BY <2>1 DEF Row, Message, Receipt
  <2>3. \A c \in Clients : pc[c] = "reread" => found[c] \in Message
    BY Typed DEF TypeInv, InHand
  <2> QED
    BY <2>1, <2>2, <2>3, Typed
<1>2. ASSUME NEW i \in Index, rows'[i] # Nil PROVE rows'[i].blob <= writes'
  <2>1. CASE rows[i] # Nil /\ rows'[i].blob = rows[i].blob
    BY <1>0, <1>1, <2>1 DEF ContentsWritten
  <2>2. ASSUME NEW t \in Threads, PutMessage(t), i = slot[t] PROVE rows'[i].blob <= writes'
    <3>1. t \in Repairers => Carries(t)
      BY <2>2 DEF PutMessage, Carries
    <3> QED
      BY <1>0, <2>2, <3>1, PutContent DEF ContentsWritten
  <2>3. ASSUME NEW c \in Clients, UpdateMessage(c), i = held[c].index PROVE rows'[i].blob <= writes'
    BY <1>0, <1>2, <2>3, UpdateContent DEF ContentsWritten, Unacked
  <2> QED
    BY <1>2, <2>1, <2>2, <2>3, ContentsKept
<1>3. ASSUME NEW t \in Threads, Carries(t)' PROVE found'[t].blob <= writes'
  <2>1. CASE Carries(t) /\ found'[t] = found[t]
    BY <1>0, <1>1, <2>1 DEF ContentsWritten
  <2>2. ASSUME NEW i \in Unacked, found'[t] = MessageAt(i) PROVE found'[t].blob <= writes'
    <3>1. i \in Index /\ rows[i] # Nil /\ found'[t].blob = rows[i].blob
      BY <2>2 DEF Unacked, MessageAt
    <3> QED
      BY <1>0, <1>1, <3>1 DEF ContentsWritten
  <2> QED
    BY <1>3, <2>1, <2>2, CarryOn DEF CarriesOn
<1>4. ASSUME NEW c \in Clients, held'[c] # Nil PROVE held'[c].blob <= writes'
  <2>1. CASE held'[c] = held[c]
    BY <1>0, <1>1, <1>4, <2>1 DEF ContentsWritten
  <2>2. CASE RawConsumeMessage(c) /\ held'[c] # held[c]
    <3>1. Carries(c) /\ c \in Threads
      BY <2>2, Typed DEF RawConsumeMessage, Carries
    <3>2. held'[c].blob = found[c].blob
      BY <2>2, Typed DEF RawConsumeMessage
    <3> QED
      BY <1>0, <1>1, <3>1, <3>2 DEF ContentsWritten
  <2>3. CASE RereadMessage(c) /\ held'[c] # held[c]
    <3>1. pc[c] = "reread" /\ held[c] \in Receipt
      BY <2>3, Typed DEF RereadMessage, TypeInv, InHand
    <3>2. held'[c].blob = found[c].blob
      <4> DEFINE i == held[c].index
                 receipt == [held[c] EXCEPT !.version = rows[i].version, !.tag = rows[i].tag, !.blob = found[c].blob]
      <4>1. held' = [held EXCEPT ![c] = receipt]
        BY <2>3, Typed DEF RereadMessage
      <4>2. receipt.blob = found[c].blob
        BY <3>1 DEF Receipt
      <4> HIDE DEF receipt
      <4> QED
        BY <4>1, <4>2, Typed
    <3> QED
      BY <1>0, <1>1, <3>1, <3>2 DEF ContentsWritten
  <2> QED
    BY <2>1, <2>2, <2>3, ReceiptGiven
<1>5. ASSUME NEW c \in Clients, pc'[c] = "reread" PROVE found'[c].blob <= writes'
  <2>1. CASE pc[c] = "reread" /\ found'[c] = found[c]
    BY <1>0, <1>1, <2>1 DEF ContentsWritten
  <2>2. CASE UpdateMessage(c)
    <3>1. PICK i \in Index : i = held[c].index /\ i \in Unacked' /\ rows'[i].blob = found'[c].blob
      BY <2>2, UpdateContent, Typed DEF Unacked
    <3> QED
      BY <1>2, <3>1 DEF Unacked
  <2> QED
    BY <1>5, <2>1, <2>2, ThreadSteps, Typed
<1>6. ASSUME NEW blob \in owed' PROVE blob <= writes'
  <2>1. CASE blob \in owed
    <3>1. blob \in Nat /\ blob <= writes
      BY <1>1, <2>1 DEF ContentsWritten
    <3> QED
      BY <1>0, <3>1
  <2>2. CASE blob = writes + 1 /\ writes' = writes + 1
    BY <1>0, <2>2
  <2> QED
    BY <1>6, <2>1, <2>2, OwedSteps
<1> QED
  BY <1>2, <1>3, <1>4, <1>5, <1>6 DEF ContentsWritten

\* A content that is known and not owed stays so.
LEMMA NotOwedAgain ==
  ASSUME CurrentInv, ContentsWritten, [Next]_vars, NEW blob \in Contents, blob <= writes, blob \notin owed
  PROVE  blob \notin owed'
<1>1. writes \in Nat /\ blob # writes + 1
  BY Typed DEF CurrentInv, OwnerInv, Contents
<1> QED
  BY <1>1, OwedSteps DEF CurrentInv, OwnerInv

\* A row keeps a message that is not acknowledged, or its content can do without it.
LEMMA NothingDropped ==
  ASSUME SurvivalInv, [Next]_vars, ~CreateAgain, NEW i \in Unacked, NEW blob, blob = rows[i].blob
  PROVE  (i \in Unacked' /\ rows'[i].blob = blob) \/ CoveredPast(blob, i)'
<1> USE DEF SurvivalInv, CurrentInv, OwnerInv
<1> DEFINE Goal == (i \in Unacked' /\ rows'[i].blob = blob) \/ CoveredPast(blob, i)'
<1>0. i \in Index /\ rows[i] \in Row /\ rows[i] # Nil /\ ~rows[i].acked
      /\ blob \in Contents /\ blob <= writes /\ writes \in Nat
  BY Typed DEF Unacked, Row, ContentsWritten
<1>s. rows'[i] = rows[i] => Goal
  BY DEF Unacked
<1>t. \A j \in Index : \A row : j # i /\ rows' = [rows EXCEPT ![j] = row] => rows'[i] = rows[i]
  BY <1>0, Typed
<1>1. ASSUME NEW t \in Threads,
             \/ RepairerCollects(t) \/ NextMonotonic(t) \/ CountUp(t) \/ FindMessage(t) \/ DeadLetter(t)
             \/ CountDown(t) \/ RereadMessage(t) \/ Crash(t)
      PROVE  Goal
  BY <1>1, <1>s DEF RepairerCollects, NextMonotonic, CountUp, FindMessage, DeadLetter, CountDown,
    RereadMessage, Crash, tables
<1>2. ASSUME NEW t \in Threads, PutMessage(t) PROVE Goal
  <2>1. slot[t] \in Index /\ slot[t] # i
    BY <1>0, <1>2, PutContent
  <2> QED
    BY <1>2, <1>s, <1>t, <2>1 DEF PutMessage
<1>3. ASSUME NEW t \in Threads, RawConsumeMessage(t) PROVE Goal
  <2> DEFINE m == found[t]
             j == m.index
             version == m.version + 1
             count == m.count + 1
             row == [rows[j] EXCEPT !.visible = FALSE, !.version = version, !.count = count]
  <2>1. m \in Message /\ j \in Index /\ version \in Nat /\ count \in Nat
    BY <1>3, Typed DEF RawConsumeMessage, Carries, Message
  <2>2. CASE HasVersion(j, m.version) /\ ~rows[j].acked
    <3>1. rows' = [rows EXCEPT ![j] = row]
      BY <1>3, <2>1, <2>2 DEF RawConsumeMessage
    <3>2. rows[j] \in Row /\ rows[j] # Nil
      BY <2>1, <2>2, Typed DEF HasVersion
    <3> HIDE DEF version, count
    <3>3. row.blob = rows[j].blob /\ row.acked = rows[j].acked /\ row \in Row
      BY <2>1, <3>2 DEF Row
    <3>4. row # Nil
      BY <3>3, NilAssumption
    <3>5. rows'[j] = row
      BY <2>1, <3>1, Typed
    <3> HIDE DEF row, j
    <3> QED
      BY <1>0, <1>s, <1>t, <2>1, <3>1, <3>3, <3>4, <3>5 DEF Unacked
  <2>3. CASE ~(HasVersion(j, m.version) /\ ~rows[j].acked)
    BY <1>3, <1>s, <2>3 DEF RawConsumeMessage
  <2> QED
    BY <2>2, <2>3
<1>4. ASSUME NEW t \in Threads, AckReceipt(t) PROVE Goal
  <2>1. PICK j \in Index : j = held[t].index /\ rows' = [rows EXCEPT ![j] = Acked(rows[j])]
    BY <1>4, Typed DEF AckReceipt, Applies
  <2>2. CASE j = i
    <3>1. t \in Clients /\ Applies(t) /\ pc[t] # "reread" /\ owed' = owed \ {held[t].blob}
      BY <1>4 DEF AckReceipt
    <3>2. held[t].blob = blob
      BY <2>1, <2>2, <3>1 DEF ReceiptsAreCurrent
    <3> QED
      BY <3>1, <3>2 DEF CoveredPast
  <2> QED
    BY <1>s, <1>t, <2>1, <2>2
<1>5. ASSUME NEW t \in Threads, AckFound(t) PROVE Goal
  <2>1. Carries(t) /\ found[t].index \in Index
    BY <1>5, Typed DEF AckFound, Carries
  <2>2. CASE found[t].index = i /\ HasVersion(i, found[t].version)
    <3>1. found[t].blob = blob
      BY <2>1, <2>2 DEF FoundAsRead, AsRead, HasVersion
    <3>2. rows' = [rows EXCEPT ![i] = Acked(rows[i])] /\ owed' = owed
      BY <1>5, <2>2 DEF AckFound, history
    <3>3. CASE pc[t] = "ackDead"
      BY <3>1, <3>2, <3>3 DEF Covered, CoveredPast
    <3>4. CASE pc[t] = "ackOriginal"
      <4>1. t \in Repairers
        BY <3>4 DEF TypeInv, InHand
      <4>2. CoveredPast(blob, i)
        BY <2>2, <3>1, <3>4, <4>1 DEF Covered
      <4>3. \A j \in Unacked : j > i => j \in Unacked' /\ rows'[j].blob = rows[j].blob
        BY <1>0, <3>2, Typed DEF Unacked
      <4> QED
        BY <3>2, <4>2, <4>3 DEF CoveredPast
    <3> QED
      BY <1>5, <3>3, <3>4 DEF AckFound
  <2>3. CASE ~(found[t].index = i /\ HasVersion(i, found[t].version))
    BY <1>5, <1>s, <1>t, <2>1, <2>3 DEF AckFound
  <2> QED
    BY <2>2, <2>3
<1>6. ASSUME NEW t \in Threads, UpdateMessage(t) PROVE Goal
  <2>1. t \in Clients /\ held[t].index \in Index
    BY <1>6, Typed DEF UpdateMessage, Applies
  <2>2. CASE held[t].index = i
    <3>1. CASE rows'[i].blob = rows[i].blob
      BY <1>6, <2>1, <2>2, <3>1, UpdateContent
    <3>2. CASE owed' = (owed \ {rows[i].blob}) \union {writes + 1}
      BY <1>0, <3>2 DEF CoveredPast
    <3> QED
      BY <1>6, <2>1, <2>2, <3>1, <3>2, UpdateContent
  <2>3. CASE held[t].index # i
    BY <1>6, <1>s, <1>t, <2>1, <2>3 DEF UpdateMessage
  <2> QED
    BY <2>2, <2>3
<1>7. ASSUME NEW j \in Index, Expire(j) PROVE Goal
  <2> DEFINE row == [rows[j] EXCEPT !.visible = TRUE]
  <2>1. rows[j] \in Row /\ rows' = [rows EXCEPT ![j] = row]
    BY <1>7, Typed DEF Expire, Unacked
  <2>2. row.blob = rows[j].blob /\ row.acked = rows[j].acked /\ row # Nil
    BY <2>1, NilAssumption DEF Row
  <2>3. rows'[j] = row
    BY <2>1, Typed
  <2> HIDE DEF row
  <2> QED
    BY <1>0, <1>s, <1>t, <2>1, <2>2, <2>3 DEF Unacked
<1>8. ASSUME DeleteBucket \/ UNCHANGED vars PROVE Goal
  BY <1>8, <1>s DEF DeleteBucket, vars, tables
<1> HIDE DEF Goal
<1>9. Goal
  BY <1>1, <1>2, <1>3, <1>4, <1>5, <1>6, <1>7, <1>8 DEF Next
<1> QED
  BY <1>9 DEF Goal

LEMMA OnlyPutsWrite ==
  ASSUME [Next]_vars, writes' # writes
  PROVE  \E t \in Threads : PutMessage(t) \/ UpdateMessage(t)
<1>1. ASSUME NEW t \in Threads,
             \/ RepairerCollects(t) \/ NextMonotonic(t) \/ CountUp(t) \/ FindMessage(t) \/ RawConsumeMessage(t)
             \/ DeadLetter(t) \/ AckReceipt(t) \/ AckFound(t) \/ CountDown(t) \/ RereadMessage(t) \/ Crash(t)
      PROVE  writes' = writes
  BY <1>1 DEF RepairerCollects, NextMonotonic, CountUp, FindMessage, RawConsumeMessage, DeadLetter, AckReceipt,
    AckFound, CountDown, RereadMessage, Crash, history
<1>2. ASSUME (\E i \in Index : Expire(i)) \/ DeleteBucket \/ CreateAgain \/ UNCHANGED vars
      PROVE  writes' = writes
  BY <1>2 DEF Expire, DeleteBucket, CreateAgain, vars, history
<1> QED
  BY <1>1, <1>2 DEF Next

LEMMA CoveredStays ==
  ASSUME SurvivalInv, [Next]_vars, ~CreateAgain,
         NEW i \in Index, NEW blob \in Contents, blob <= writes, CoveredPast(blob, i)
  PROVE  CoveredPast(blob, i)'
<1> USE DEF SurvivalInv
<1>1. CASE blob \notin owed
  BY <1>1, NotOwedAgain DEF CoveredPast
<1>2. ASSUME NEW j \in Unacked, j > i, rows[j].blob = blob PROVE CoveredPast(blob, i)'
  <2>1. CASE j \in Unacked' /\ rows'[j].blob = blob
    BY <1>2, <2>1 DEF CoveredPast
  <2>2. CASE CoveredPast(blob, j)'
    <3>1. j \in Nat /\ i \in Nat /\ Unacked' \subseteq Nat
      BY DEF Unacked, Index
    <3>2. \A k \in Nat : k > j => k > i
      BY <1>2, <3>1
    <3> QED
      BY <2>2, <3>1, <3>2 DEF CoveredPast
  <2> QED
    BY <1>2, <2>1, <2>2, NothingDropped
<1> QED
  BY <1>1, <1>2 DEF CoveredPast

LEMMA StaysCovered ==
  ASSUME UpdatesInTime, SurvivalInv, [Next]_vars, ~CreateAgain, CurrentInv', NEW t \in Threads
  PROVE  /\ pc'[t] = "ackDead" => found'[t].blob \notin owed'
         /\ pc'[t] = "put" /\ t \in Repairers => found'[t].index < slot'[t]
         /\ pc'[t] \in {"countUp", "ackOriginal"} /\ t \in Repairers =>
              \A i \in Index, blob \in Contents :
                i = found'[t].index /\ blob = found'[t].blob => CoveredPast(blob, i)'
<1> USE DEF SurvivalInv, CurrentInv, OwnerInv
<1>0. Carries(t) => /\ found[t].index \in Index /\ found[t].blob \in Contents /\ found[t].blob <= writes
                    /\ ~Fresh(found[t].index)
  BY Typed DEF ContentsWritten, FoundAsRead, AsRead, Message
<1>1. ASSUME pc'[t] = "ackDead" PROVE found'[t].blob \notin owed'
  <2>1. CASE pc[t] = "ackDead" /\ found'[t] = found[t]
    BY <1>0, <2>1, NotOwedAgain DEF Covered, Carries
  <2>2. CASE DeadLetter(t)
    BY <2>2 DEF DeadLetter
  <2> QED
    BY <1>1, <2>1, <2>2, ThreadSteps
<1>2. ASSUME pc'[t] = "put", t \in Repairers PROVE found'[t].index < slot'[t]
  <2>1. CASE pc[t] = "put" /\ slot'[t] = slot[t] /\ found'[t] = found[t]
    BY <1>2, <2>1 DEF Covered
  <2>2. CASE NextMonotonic(t) /\ found'[t] = found[t]
    <3>1. Carries(t) /\ slot'[t] = monoton
      BY <1>2, <2>2, ThreadsAssumption, Typed DEF NextMonotonic, ReadyToPut, Carries
    <3>2. \A i \in Index : ~Fresh(i) => i < monoton
      BY Typed DEF Fresh
    <3> QED
      BY <1>0, <2>2, <3>1, <3>2
  <2> QED
    BY <1>2, <2>1, <2>2, ThreadSteps
<1>3. ASSUME pc'[t] \in {"countUp", "ackOriginal"}, t \in Repairers,
             NEW i \in Index, NEW blob \in Contents, i = found'[t].index, blob = found'[t].blob
      PROVE  CoveredPast(blob, i)'
  <2>1. found'[t] = found[t]
    BY <1>3, ThreadSteps
  <2>2. CASE pc[t] \in {"countUp", "ackOriginal"}
    <3>1. CoveredPast(blob, i)
      BY <1>3, <2>1, <2>2 DEF Covered
    <3>2. blob <= writes
      BY <1>0, <1>3, <2>1, <2>2 DEF Carries
    <3> QED
      BY <3>1, <3>2, CoveredStays
  <2>3. CASE PutMessage(t)
    <3>1. PICK j \in Index : j = slot[t] /\ rows'[j] # Nil /\ ~rows'[j].acked
      BY <2>3, PutContent
    <3>2. rows'[j].blob = blob /\ i < j
      BY <1>3, <2>1, <2>3, <3>1, PutContent, ThreadsAssumption DEF Covered, PutMessage
    <3>3. i \in Nat /\ j \in Nat
      BY DEF Index
    <3> QED
      BY <3>1, <3>2, <3>3 DEF CoveredPast, Unacked
  <2> QED
    BY <1>3, <2>2, <2>3, ThreadSteps
<1> QED
  BY <1>1, <1>2, <1>3

LEMMA SurvivalNext ==
  ASSUME UpdatesInTime, SurvivalInv, [Next]_vars
  PROVE  SurvivalInv'
<1> USE DEF SurvivalInv
<1>1. CurrentInv' /\ ContentsWritten'
  BY CurrentNext, ContentsStayWritten
<1>2. CASE CreateAgain
  <2>1. owed' = {} /\ \A t \in Threads : pc'[t] = "idle"
    BY <1>2 DEF CreateAgain, threads
  <2>2. Covered' /\ UpdatesSurvive'
    BY <2>1 DEF Covered, UpdatesSurvive
  <2> QED
    BY <1>1, <2>2
<1>3. CASE ~CreateAgain
  <2>1. Covered'
    <3>1. \A t \in Threads : Carries(t)' => found'[t].index \in Index /\ found'[t].blob \in Contents
      BY <1>1 DEF CurrentInv, OwnerInv, TypeInv, InHand, Carries, Message
    <3>2. \A t \in Threads : pc'[t] \in {"countUp", "ackOriginal"} /\ t \in Repairers => Carries(t)'
      BY DEF Carries
    <3>3. ASSUME NEW t \in Threads, pc'[t] \in {"countUp", "ackOriginal"}, t \in Repairers
          PROVE  CoveredPast(found[t].blob, found[t].index)'
      <4>1. PICK i \in Index, blob \in Contents : i = found'[t].index /\ blob = found'[t].blob
        BY <3>1, <3>2, <3>3
      <4>2. CoveredPast(blob, i)'
        BY <1>1, <1>3, <3>3, <4>1, StaysCovered
      <4> QED
        BY <4>1, <4>2 DEF CoveredPast
    <3>4. \A t \in Threads : /\ pc'[t] = "ackDead" => found'[t].blob \notin owed'
                             /\ pc'[t] = "put" /\ t \in Repairers => found'[t].index < slot'[t]
      BY <1>1, <1>3, StaysCovered
    <3> QED
      BY <3>3, <3>4 DEF Covered
  <2>2. ASSUME NEW blob \in owed' PROVE \E i \in Unacked' : rows'[i].blob = blob
    <3>1. CASE blob \in owed
      <4>1. PICK i \in Unacked : rows[i].blob = blob
        BY <3>1 DEF UpdatesSurvive
      <4> QED
        BY <1>3, <2>2, <4>1, NothingDropped DEF CoveredPast
    <3>2. CASE blob \notin owed
      <4>1. blob = writes + 1 /\ writes' = writes + 1 /\ writes \in Nat
        BY <2>2, <3>2, OwedSteps, Typed DEF CurrentInv, OwnerInv
      <4>2. \E t \in Threads : PutMessage(t) \/ UpdateMessage(t)
        BY <4>1, OnlyPutsWrite
      <4>3. ASSUME NEW t \in Threads, PutMessage(t) PROVE \E i \in Unacked' : rows'[i].blob = blob
        BY <4>1, <4>3, PutContent DEF Unacked, CurrentInv, OwnerInv
      <4>4. ASSUME NEW t \in Threads, UpdateMessage(t) PROVE \E i \in Unacked' : rows'[i].blob = blob
        <5>1. t \in Clients
          BY <4>4 DEF UpdateMessage
        <5> QED
          BY <4>1, <4>4, <5>1, UpdateContent
      <4> QED
        BY <4>2, <4>3, <4>4
    <3> QED
      BY <3>1, <3>2
  <2>3. UpdatesSurvive'
    BY <2>2 DEF UpdatesSurvive
  <2> QED
    BY <1>1, <2>1, <2>3
<1> QED
  BY <1>2, <1>3

\* What was put, or written by an update that was accepted, is in a message that is
\* not acknowledged, until the client that was given it acknowledges or replaces it
\* or it is given up at its delivery limit: a repair worker acknowledges the original
\* only when its copy is further on, and never a message that was delivered or
\* changed since it read it (RepairWorkerImpl.republishMessage,
\* MessageRepositoryImpl.updateMessage and ackMessage).
THEOREM UpdatesSurviveAlways ==
  ASSUME UpdatesInTime
  PROVE  Spec => []UpdatesSurvive
<1>1. SurvivalInv => UpdatesSurvive
  BY DEF SurvivalInv
<1>2. Init => SurvivalInv
  BY InitCurrent DEF SurvivalInv, UpdatesSurvive, Init
<1>3. SurvivalInv /\ [Next]_vars => SurvivalInv'
  BY SurvivalNext
<1> QED
  BY <1>1, <1>2, <1>3, PTL DEF Spec

-----------------------------------------------------------------------------
(* The size counter *)

\* The counts of the messages, and of the steps that are yet to come, are numbers.
LEMMA CountsTyped ==
  ASSUME TypeInv
  PROVE  /\ IsFiniteSet(Unacked) /\ IsFiniteSet(CountingUp) /\ IsFiniteSet(CountingDown)
         /\ Cardinality(Unacked) \in Nat /\ Cardinality(CountingUp) \in Nat /\ Cardinality(CountingDown) \in Nat
         /\ size \in Int /\ crashes \in Nat
<1>1. IsFiniteSet(Index)
  <2>1. 0 \in Int /\ MaxIndex - 1 \in Int
    BY BoundsAssumption
  <2> QED
    BY <2>1, FS_Interval DEF Index
<1>2. IsFiniteSet(Unacked) /\ IsFiniteSet(CountingUp) /\ IsFiniteSet(CountingDown)
  <2>1. Unacked \in SUBSET Index /\ CountingUp \in SUBSET Threads /\ CountingDown \in SUBSET Threads
    BY DEF Unacked, CountingUp, CountingDown
  <2> QED
    BY <1>1, <2>1, FiniteAssumption, FS_Subset
<1>3. size \in Int /\ crashes \in Nat
  BY DEF TypeInv, TypeOK
<1> QED
  BY <1>2, <1>3, FS_CardinalityType

LEMMA CountsSameWhenSetsSame ==
  ASSUME TypeInv, SizeInv, crashes' = crashes, size' = size,
         Unacked' = Unacked, CountingUp' = CountingUp, CountingDown' = CountingDown
  PROVE  SizeInv'
BY DEF SizeInv, Balance

\* Where a thread goes is all that changes in who is yet to count.
LEMMA CountingMoves ==
  ASSUME TypeInv, NEW t \in Threads, NEW label, pc' = [pc EXCEPT ![t] = label]
  PROVE  /\ CountingUp' = IF label = "countUp" THEN CountingUp \union {t} ELSE CountingUp \ {t}
         /\ CountingDown' = IF label = "countDown" THEN CountingDown \union {t} ELSE CountingDown \ {t}
BY Typed DEF CountingUp, CountingDown

LEMMA NoCountingMoves ==
  ASSUME TypeInv, NEW t \in Threads, NEW label, pc' = [pc EXCEPT ![t] = label],
         label \notin {"countUp", "countDown"}, pc[t] \notin {"countUp", "countDown"}
  PROVE  CountingUp' = CountingUp /\ CountingDown' = CountingDown
BY CountingMoves DEF CountingUp, CountingDown

LEMMA UnackedMoves ==
  ASSUME TypeInv, NEW i \in Index, NEW row, rows' = [rows EXCEPT ![i] = row]
  PROVE  Unacked' = IF row # Nil /\ ~row.acked THEN Unacked \union {i} ELSE Unacked \ {i}
BY Typed DEF Unacked

LEMMA MessagePut ==
  ASSUME TypeInv, NEW t \in Threads, PutMessage(t)
  PROVE  /\ Cardinality(Unacked') = Cardinality(Unacked) + 1
         /\ Cardinality(CountingUp') = Cardinality(CountingUp) + 1
         /\ CountingDown' = CountingDown /\ size' = size /\ crashes' = crashes
<1>1. PICK i \in Index : i = slot[t] /\ rows[i] = Nil /\ rows'[i] # Nil /\ ~rows'[i].acked
  BY PutContent
<1>2. Unacked' = Unacked \union {i} /\ i \notin Unacked
  <2>1. \A j \in Index : j # i => rows'[j] = rows[j]
    BY <1>1, Typed DEF PutMessage
  <2> QED
    BY <1>1, <2>1 DEF Unacked
<1>3. pc[t] = "put" /\ pc' = [pc EXCEPT ![t] = "countUp"] /\ size' = size /\ crashes' = crashes
  BY DEF PutMessage, Goto
<1>4. CountingUp' = CountingUp \union {t} /\ t \notin CountingUp /\ CountingDown' = CountingDown
  BY <1>3, CountingMoves DEF CountingUp, CountingDown
<1> QED
  BY <1>2, <1>3, <1>4, CountsTyped, FS_AddElement

LEMMA MessageAcked ==
  ASSUME TypeInv, NEW t \in Threads, NEW i \in Unacked, rows' = [rows EXCEPT ![i] = Acked(rows[i])],
         pc' = [pc EXCEPT ![t] = "countDown"], pc[t] \notin {"countUp", "countDown"}
  PROVE  /\ Cardinality(Unacked') = Cardinality(Unacked) - 1
         /\ Cardinality(CountingDown') = Cardinality(CountingDown) + 1
         /\ CountingUp' = CountingUp
<1>1. i \in Index /\ rows[i] \in Row
  BY Typed DEF Unacked
<1>2. Acked(rows[i]).acked
  BY <1>1 DEF Acked, Row
<1>3. Unacked' = Unacked \ {i}
  BY <1>1, <1>2, UnackedMoves
<1>4. CountingDown' = CountingDown \union {t} /\ t \notin CountingDown /\ CountingUp' = CountingUp
  BY CountingMoves DEF CountingUp, CountingDown
<1> QED
  BY <1>3, <1>4, CountsTyped, FS_AddElement, FS_RemoveElement

\* A thread that counts, or dies before it has
LEMMA Counted ==
  ASSUME TypeInv, NEW t \in Threads, NEW label, pc' = [pc EXCEPT ![t] = label],
         label \notin {"countUp", "countDown"}
  PROVE  /\ Cardinality(CountingUp') = Cardinality(CountingUp) - (IF pc[t] = "countUp" THEN 1 ELSE 0)
         /\ Cardinality(CountingDown') = Cardinality(CountingDown) - (IF pc[t] = "countDown" THEN 1 ELSE 0)
<1>1. CountingUp' = CountingUp \ {t} /\ CountingDown' = CountingDown \ {t}
  BY CountingMoves
<1>2. (t \in CountingUp <=> pc[t] = "countUp") /\ (t \in CountingDown <=> pc[t] = "countDown")
  BY DEF CountingUp, CountingDown
<1>3. /\ Cardinality(CountingUp \ {t}) =
           IF t \in CountingUp THEN Cardinality(CountingUp) - 1 ELSE Cardinality(CountingUp)
      /\ Cardinality(CountingDown \ {t}) =
           IF t \in CountingDown THEN Cardinality(CountingDown) - 1 ELSE Cardinality(CountingDown)
  BY CountsTyped, FS_RemoveElement
<1>4. Cardinality(CountingUp) \in Nat /\ Cardinality(CountingDown) \in Nat
  BY CountsTyped
<1> QED
  BY <1>1, <1>2, <1>3, <1>4

LEMMA SizeStaysTracked ==
  ASSUME CurrentInv, SizeInv, [Next]_vars
  PROVE  SizeInv'
<1> USE DEF CurrentInv, OwnerInv
<1>0. /\ size \in Int /\ crashes \in Nat /\ Cardinality(Unacked) \in Int
      /\ Cardinality(CountingUp) \in Int /\ Cardinality(CountingDown) \in Int
  BY CountsTyped
<1>1. ASSUME NEW t \in Threads,
             \/ RepairerCollects(t) \/ NextMonotonic(t) \/ FindMessage(t) \/ DeadLetter(t) \/ RereadMessage(t)
      PROVE  SizeInv'
  <2>1. rows' = rows /\ size' = size /\ crashes' = crashes
    BY <1>1 DEF RepairerCollects, NextMonotonic, FindMessage, DeadLetter, RereadMessage, tables, history
  <2>2. \E label : pc' = [pc EXCEPT ![t] = label] /\ label \notin {"countUp", "countDown"}
    BY <1>1 DEF RepairerCollects, NextMonotonic, FindMessage, DeadLetter, RereadMessage, Goto, Ends
  <2>3. pc[t] \notin {"countUp", "countDown"}
    BY <1>1 DEF RepairerCollects, NextMonotonic, ReadyToPut, FindMessage, DeadLetter, RereadMessage
  <2>4. CountingUp' = CountingUp /\ CountingDown' = CountingDown
    BY <2>2, <2>3, NoCountingMoves
  <2> QED
    BY <2>1, <2>4, CountsSameWhenSetsSame DEF Unacked
<1>2. ASSUME NEW t \in Threads, PutMessage(t) PROVE SizeInv'
  BY <1>0, <1>2, MessagePut DEF SizeInv, Balance
<1>3. ASSUME NEW t \in Threads, CountUp(t) \/ CountDown(t) PROVE SizeInv'
  <2>1. pc' = [pc EXCEPT ![t] = "idle"] \/ pc' = [pc EXCEPT ![t] = "ackOriginal"]
    BY <1>3 DEF CountUp, CountDown, Goto, Ends
  <2>c. /\ Cardinality(CountingUp') = Cardinality(CountingUp) - (IF pc[t] = "countUp" THEN 1 ELSE 0)
        /\ Cardinality(CountingDown') = Cardinality(CountingDown) - (IF pc[t] = "countDown" THEN 1 ELSE 0)
    <3>1. CASE pc' = [pc EXCEPT ![t] = "idle"]
      <4> DEFINE label == "idle"
      <4>1. label \notin {"countUp", "countDown"} /\ pc' = [pc EXCEPT ![t] = label]
        BY <3>1
      <4> HIDE DEF label
      <4> QED
        BY <4>1, Counted
    <3>2. CASE pc' = [pc EXCEPT ![t] = "ackOriginal"]
      <4> DEFINE label == "ackOriginal"
      <4>1. label \notin {"countUp", "countDown"} /\ pc' = [pc EXCEPT ![t] = label]
        BY <3>2
      <4> HIDE DEF label
      <4> QED
        BY <4>1, Counted
    <3> QED
      BY <2>1, <3>1, <3>2
  <2>2. Unacked' = Unacked /\ crashes' = crashes
    BY <1>3 DEF CountUp, CountDown, Unacked, history
  <2>3. CASE CountUp(t)
    <3>1. pc[t] = "countUp" /\ size' = size + 1
      BY <2>3 DEF CountUp
    <3>2. Cardinality(CountingUp') = Cardinality(CountingUp) - 1 /\ Cardinality(CountingDown') = Cardinality(CountingDown)
      BY <1>0, <2>c, <3>1
    <3> QED
      BY <1>0, <2>2, <3>1, <3>2 DEF SizeInv, Balance
  <2>4. CASE CountDown(t)
    <3>1. pc[t] = "countDown" /\ size' = size - 1
      BY <2>4 DEF CountDown
    <3>2. Cardinality(CountingUp') = Cardinality(CountingUp) /\ Cardinality(CountingDown') = Cardinality(CountingDown) - 1
      BY <1>0, <2>c, <3>1
    <3> QED
      BY <1>0, <2>2, <3>1, <3>2 DEF SizeInv, Balance
  <2> QED
    BY <1>3, <2>3, <2>4
<1>4. ASSUME NEW t \in Threads, RawConsumeMessage(t) PROVE SizeInv'
  <2> DEFINE m == found[t]
             i == m.index
             version == m.version + 1
             count == m.count + 1
             row == [rows[i] EXCEPT !.visible = FALSE, !.version = version, !.count = count]
  <2>1. m \in Message /\ i \in Index /\ version \in Nat /\ count \in Nat
    BY <1>4, Typed DEF RawConsumeMessage, Carries, Message
  <2>2. pc[t] = "consume" /\ pc' = [pc EXCEPT ![t] = "idle"] /\ size' = size /\ crashes' = crashes
    BY <1>4 DEF RawConsumeMessage, Goto, Ends, history
  <2>3. CountingUp' = CountingUp /\ CountingDown' = CountingDown
    BY <2>2, NoCountingMoves
  <2>4. CASE HasVersion(i, m.version) /\ ~rows[i].acked
    <3>1. rows' = [rows EXCEPT ![i] = row]
      BY <1>4, <2>1, <2>4 DEF RawConsumeMessage
    <3>2. rows[i] \in Row /\ rows[i] # Nil /\ ~rows[i].acked
      BY <2>1, <2>4, Typed DEF HasVersion
    <3> HIDE DEF version, count
    <3>3. row \in Row /\ ~row.acked
      BY <2>1, <3>2 DEF Row
    <3>4. row # Nil
      BY <3>3, NilAssumption
    <3> HIDE DEF row, i
    <3>5. Unacked' = Unacked
      BY <2>1, <3>1, <3>2, <3>3, <3>4, UnackedMoves DEF Unacked
    <3> QED
      BY <2>2, <2>3, <3>5, CountsSameWhenSetsSame
  <2>5. CASE ~(HasVersion(i, m.version) /\ ~rows[i].acked)
    BY <1>4, <2>2, <2>3, <2>5, CountsSameWhenSetsSame DEF RawConsumeMessage, Unacked
  <2> QED
    BY <2>4, <2>5
<1>5. ASSUME NEW t \in Threads, AckReceipt(t) PROVE SizeInv'
  <2>1. /\ t \in Clients /\ pc[t] = "idle" /\ Applies(t) /\ size' = size /\ crashes' = crashes
        /\ pc' = [pc EXCEPT ![t] = "countDown"]
    BY <1>5 DEF AckReceipt, Goto
  <2>2. PICK i \in Index : i = held[t].index /\ rows[i] # Nil /\ rows' = [rows EXCEPT ![i] = Acked(rows[i])]
    BY <1>5, Typed DEF AckReceipt, Applies, HasVersion
  <2>3. i \in Unacked
    BY <2>1, <2>2 DEF ReceiptsAreCurrent, Unacked
  <2>4. pc[t] \notin {"countUp", "countDown"} /\ pc' = [pc EXCEPT ![t] = "countDown"] /\ t \in Threads
    BY <2>1, Typed
  <2>5. /\ Cardinality(Unacked') = Cardinality(Unacked) - 1
        /\ Cardinality(CountingDown') = Cardinality(CountingDown) + 1
        /\ CountingUp' = CountingUp
    BY <2>2, <2>3, <2>4, MessageAcked
  <2> QED
    BY <1>0, <2>1, <2>5 DEF SizeInv, Balance
<1>6. ASSUME NEW t \in Threads, AckFound(t) PROVE SizeInv'
  <2> DEFINE i == found[t].index
  <2>1. Carries(t) /\ i \in Index /\ pc[t] \notin {"countUp", "countDown"} /\ size' = size /\ crashes' = crashes
    BY <1>6, Typed DEF AckFound, Carries, history
  <2>2. CASE HasVersion(i, found[t].version)
    <3>1. rows' = [rows EXCEPT ![i] = Acked(rows[i])] /\ pc' = [pc EXCEPT ![t] = "countDown"]
      BY <1>6, <2>2 DEF AckFound, Goto
    <3>2. i \in Unacked
      BY <2>1, <2>2 DEF FoundAsRead, AsRead, HasVersion, Unacked
    <3>3. /\ Cardinality(Unacked') = Cardinality(Unacked) - 1
          /\ Cardinality(CountingDown') = Cardinality(CountingDown) + 1
          /\ CountingUp' = CountingUp
      BY <2>1, <3>1, <3>2, MessageAcked
    <3> QED
      BY <1>0, <2>1, <3>3 DEF SizeInv, Balance
  <2>3. CASE ~HasVersion(i, found[t].version)
    <3>1. rows' = rows /\ pc' = [pc EXCEPT ![t] = "idle"]
      BY <1>6, <2>3 DEF AckFound, Ends, Goto
    <3>2. CountingUp' = CountingUp /\ CountingDown' = CountingDown
      BY <2>1, <3>1, NoCountingMoves
    <3> QED
      BY <2>1, <3>1, <3>2, CountsSameWhenSetsSame DEF Unacked
  <2> QED
    BY <2>2, <2>3
<1>7. ASSUME NEW t \in Threads, UpdateMessage(t) PROVE SizeInv'
  <2>1. /\ t \in Clients /\ pc[t] = "idle" /\ Applies(t) /\ size' = size /\ crashes' = crashes
        /\ pc' = [pc EXCEPT ![t] = "reread"]
    BY <1>7 DEF UpdateMessage, Goto
  <2>2. CountingUp' = CountingUp /\ CountingDown' = CountingDown
    BY <2>1, NoCountingMoves
  <2>3. PICK i \in Index : i = held[t].index /\ rows[i] # Nil
    BY <2>1, Typed DEF Applies, HasVersion
  <2>4. PICK blob \in Contents : rows' = [rows EXCEPT ![i] = Updated(t, rows[i], blob)]
    BY <1>7, <2>3 DEF UpdateMessage
  <2> DEFINE row == Updated(t, rows[i], blob)
  <2>5. rows[i] \in Row /\ ~rows[i].acked /\ rows[i].count <= MaxDelivery
    BY <2>1, <2>3, Typed DEF ReceiptsAreCurrent, TypeInv, TypeOK
  <2>6. row # Nil
    BY <2>5, UpdatedRow, NilAssumption DEF GoodRow
  <2>7. ~row.acked
    BY <2>5 DEF Updated, Row
  <2> HIDE DEF row
  <2>8. Unacked' = Unacked
    BY <2>3, <2>4, <2>5, <2>6, <2>7, UnackedMoves DEF Unacked, row
  <2> QED
    BY <2>1, <2>2, <2>8, CountsSameWhenSetsSame
<1>8. ASSUME NEW t \in Threads, Crash(t) PROVE SizeInv'
  <2>1. /\ pc' = [pc EXCEPT ![t] = "idle"] /\ rows' = rows /\ size' = size /\ crashes' = crashes + 1
    BY <1>8 DEF Crash, Ends, Goto, tables
  <2>2. /\ Cardinality(CountingUp') = Cardinality(CountingUp) - (IF pc[t] = "countUp" THEN 1 ELSE 0)
        /\ Cardinality(CountingDown') = Cardinality(CountingDown) - (IF pc[t] = "countDown" THEN 1 ELSE 0)
    <3> DEFINE label == "idle"
    <3>1. label \notin {"countUp", "countDown"} /\ pc' = [pc EXCEPT ![t] = label]
      BY <2>1
    <3> HIDE DEF label
    <3> QED
      BY <3>1, Counted
  <2>3. Unacked' = Unacked
    BY <2>1 DEF Unacked
  <2> QED
    BY <1>0, <2>1, <2>2, <2>3 DEF SizeInv, Balance
<1>9. ASSUME NEW i \in Index, Expire(i) PROVE SizeInv'
  <2> DEFINE row == [rows[i] EXCEPT !.visible = TRUE]
  <2>1. rows[i] \in Row /\ i \in Unacked /\ rows' = [rows EXCEPT ![i] = row]
        /\ pc' = pc /\ size' = size /\ crashes' = crashes
    BY <1>9, Typed DEF Expire, Unacked, threads, history
  <2>2. ~row.acked /\ row # Nil
    BY <2>1, NilAssumption DEF Row, Unacked
  <2> HIDE DEF row
  <2>3. Unacked' = Unacked
    BY <2>1, <2>2, UnackedMoves
  <2> QED
    BY <2>1, <2>3, CountsSameWhenSetsSame DEF CountingUp, CountingDown
<1>10. CASE DeleteBucket
  <2>1. Unacked' = Unacked /\ pc' = pc /\ size' = size /\ crashes' = crashes
    BY <1>10 DEF DeleteBucket, Unacked, threads, history
  <2> QED
    BY <2>1, CountsSameWhenSetsSame DEF CountingUp, CountingDown
<1>11. CASE CreateAgain
  <2>1. size' = 0 /\ crashes' = crashes /\ Unacked' = {} /\ CountingUp' = {} /\ CountingDown' = {}
    BY <1>11 DEF CreateAgain, Unacked, CountingUp, CountingDown, threads
  <2> QED
    BY <1>0, <2>1, FS_EmptySet DEF SizeInv, Balance
<1>12. CASE UNCHANGED vars
  <2>1. rows' = rows /\ pc' = pc /\ size' = size /\ crashes' = crashes
    BY <1>12 DEF vars, tables, threads, history
  <2> QED
    BY <2>1, CountsSameWhenSetsSame DEF Unacked, CountingUp, CountingDown
<1> QED
  BY <1>1, <1>2, <1>3, <1>4, <1>5, <1>6, <1>7, <1>8, <1>9, <1>10, <1>11, <1>12 DEF Next

\* What is out of balance is what is yet to be counted, up or down, or never will be.
LEMMA BalanceTracks ==
  ASSUME TypeInv, SizeInv
  PROVE  SizeTracksMessages
<1> DEFINE Counting == {t \in Threads : pc[t] \in {"countUp", "countDown"}}
<1>1. CountingUp \in SUBSET Counting /\ CountingDown \in SUBSET Counting /\ Counting \in SUBSET Threads
  BY DEF CountingUp, CountingDown
<1>2. IsFiniteSet(Counting)
  BY <1>1, FiniteAssumption, FS_Subset
<1> HIDE DEF Counting
<1>3. Cardinality(CountingUp) <= Cardinality(Counting) /\ Cardinality(CountingDown) <= Cardinality(Counting)
  BY <1>1, <1>2, FS_Subset
<1>4. Cardinality(Counting) \in Nat /\ Outstanding = Cardinality(Counting)
  BY <1>2, FS_CardinalityType DEF Outstanding, Counting
<1> QED
  BY <1>3, <1>4, CountsTyped DEF SizeTracksMessages, SizeInv, Balance

\* The size counter of a queue is off by no more than the counting that threads are
\* yet to do and the processes that died before theirs: a message is counted down
\* once, by the one request whose acknowledgement was applied
\* (QueueRepository.getQueueSize, DefaultMessagePublisher.put, ReaderImpl.ackMessage).
THEOREM SizeTracksMessagesAlways ==
  ASSUME UpdatesInTime
  PROVE  Spec => []SizeTracksMessages
<1>1. CurrentInv /\ SizeInv => SizeTracksMessages
  BY BalanceTracks DEF CurrentInv, OwnerInv
<1>2. Init => CurrentInv /\ SizeInv
  <2> SUFFICES ASSUME Init PROVE CurrentInv /\ SizeInv
    OBVIOUS
  <2>1. CurrentInv
    BY InitCurrent
  <2>2. CountingUp = {} /\ CountingDown = {} /\ Unacked = {} /\ size = 0 /\ crashes = 0
    BY DEF Init, CountingUp, CountingDown, Unacked
  <2> QED
    BY <2>1, <2>2, FS_EmptySet DEF SizeInv, Balance
<1>3. (CurrentInv /\ SizeInv) /\ [Next]_vars => (CurrentInv /\ SizeInv)'
  BY CurrentNext, SizeStaysTracked
<1> QED
  BY <1>1, <1>2, <1>3, PTL DEF Spec
=============================================================================
