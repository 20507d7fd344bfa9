-------------------------- MODULE MessageLifecycle --------------------------
(***************************************************************************)
(* The rows of a queue's messages and the receipts of its consumers:       *)
(* put, delivery, change, acknowledgement and republishing of a message,   *)
(* the size counter of the queue, and receipts that outlive the queue.     *)
(* Every statement on the database is an action.                           *)
(*                                                                         *)
(* Which bucket is read, repaired or deleted when is the matter of module  *)
(* BucketQueue; here the queue has one bucket, and a request may take any  *)
(* visible message.                                                        *)
(***************************************************************************)
EXTENDS Integers, FiniteSets

CONSTANTS
  Clients,        \* consumers; each keeps the last receipt it was given
  Publishers,     \* requests to put a message
  Repairers,      \* repair workers
  MaxDelivery,    \* QueueDefinition.maxDeliveryCount
  UpdatesInTime,  \* timing: nobody takes a message between the two statements of its update
  MaxIndex,       \* bound: a queue hands out the indices 0 .. MaxIndex - 1
  MaxWrites,      \* bound: contents that are put, or written by an update
  MaxVersion,     \* bound: no update of a row beyond this version
  MaxBreaks,      \* bound: processes that die in mid-operation, and times the queue is
                  \* deleted and created again
  Nil             \* "no row", "no receipt", "nothing in hand"

ASSUME BoundsAssumption == {MaxIndex, MaxWrites, MaxVersion, MaxBreaks} \subseteq Nat
ASSUME DeliveryAssumption == MaxDelivery \in Nat
ASSUME UpdatesAssumption == UpdatesInTime \in BOOLEAN
ASSUME ThreadsAssumption ==
  /\ Clients \intersect (Publishers \union Repairers) = {}
  /\ Publishers \intersect Repairers = {}

Threads == Clients \union Publishers \union Repairers

ASSUME FiniteAssumption == IsFiniteSet(Threads)

VARIABLES
  (* the tables *)
  rows,        \* message: index |-> row, or Nil
  monoton,     \* the next index
  size,        \* queue_stats: the size counter of the current queue
  generation,  \* how often the queue was created again
  (* the consumers *)
  held,        \* client |-> receipt, or Nil
  (* each thread *)
  pc,
  found,       \* the message in hand, as it was read, or Nil
  slot,        \* the index claimed for a message, or Nil
  (* history, and counters of the bounds *)
  owed,        \* contents accepted that nobody acknowledged, replaced or gave up
  writes,
  crashes

tables == <<rows, monoton, size, generation>>
threads == <<pc, found, slot>>
history == <<owed, writes, crashes>>
vars == <<tables, held, threads, history>>

-----------------------------------------------------------------------------

Index == 0 .. MaxIndex - 1
Contents == 1 .. MaxWrites
Generations == 0 .. MaxBreaks

\* A tag is random: it tells one put from any other.  Rows with an index of
\* their own differ by the queue they were put in.
Tags == Generations

Row == [blob : Contents, tag : Tags, version : Nat, count : Nat, visible : BOOLEAN, acked : BOOLEAN]

Message == [index : Index, blob : Contents, version : Nat, count : Nat]

\* A pop receipt, with what its holder knows: which delivery it was, of which content
Receipt == [index : Index, tag : Tags, version : Nat, delivery : Nat, blob : Contents]

ASSUME NilAssumption == Nil \notin Row \union Message \union Receipt

Init ==
  /\ rows = [i \in Index |-> Nil] /\ monoton = 0 /\ size = 0 /\ generation = 0
  /\ held = [c \in Clients |-> Nil]
  /\ pc = [t \in Threads |-> "idle"]
  /\ found = [t \in Threads |-> Nil]
  /\ slot = [t \in Threads |-> Nil]
  /\ owed = {} /\ writes = 0 /\ crashes = 0

Goto(t, label) == pc' = [pc EXCEPT ![t] = label]

Ends(t) ==
  /\ Goto(t, "idle")
  /\ found' = [found EXCEPT ![t] = Nil]
  /\ slot' = [slot EXCEPT ![t] = Nil]

\* "onlyIf(eq(VERSION, v))"
HasVersion(i, v) == rows[i] # Nil /\ rows[i].version = v

\* The conditions a receipt's holder meets when it uses it
Applies(c) ==
  /\ held[c] # Nil
  /\ HasVersion(held[c].index, held[c].version)
  /\ rows[held[c].index].tag = held[c].tag

BeingUpdated(i) == \E c \in Clients : pc[c] = "reread" /\ held[c].index = i

Unacked == {i \in Index : rows[i] # Nil /\ ~rows[i].acked}

MessageAt(i) ==
  [index |-> i, blob |-> rows[i].blob, version |-> rows[i].version, count |-> rows[i].count]

-----------------------------------------------------------------------------
(* DefaultMessagePublisher.put and RepairWorkerImpl.republishMessage *)

\* A message that is visible, was never delivered and is not acknowledged
RepairerCollects(t) ==
  /\ t \in Repairers /\ pc[t] = "idle"
  /\ \E i \in Unacked :
       /\ rows[i].visible /\ rows[i].count = 0
       /\ found' = [found EXCEPT ![t] = MessageAt(i)]
  /\ Goto(t, "claim")
  /\ UNCHANGED <<tables, held, slot, history>>

ReadyToPut(t) == pc[t] = IF t \in Publishers THEN "idle" ELSE "claim"

\* Fault: the publisher takes the incremented value.
NextMonotonicAfter(t) ==
  /\ ReadyToPut(t) /\ monoton < MaxIndex
  /\ monoton' = monoton + 1
  /\ slot' = [slot EXCEPT ![t] = monoton + 1]
  /\ Goto(t, "put")
  /\ UNCHANGED <<rows, size, generation, held, found, history>>

NextMonotonic(t) ==
  /\ ReadyToPut(t) /\ monoton < MaxIndex
  /\ monoton' = monoton + 1
  /\ slot' = [slot EXCEPT ![t] = monoton]
  /\ Goto(t, "put")
  /\ UNCHANGED <<rows, size, generation, held, found, history>>

NewRow(blob, visible) ==
  [blob |-> blob, tag |-> generation, version |-> 1, count |-> 0, visible |-> visible, acked |-> FALSE]

\* A publisher puts a new content, with an initial invisibility that may be over at
\* once (Expire); a repair worker the one in its hand, visible.
PutMessage(t) ==
  /\ pc[t] = "put" /\ rows[slot[t]] = Nil
  /\ \/ /\ t \in Publishers /\ writes < MaxWrites
        /\ writes' = writes + 1
        /\ rows' = [rows EXCEPT ![slot[t]] = NewRow(writes + 1, FALSE)]
        /\ owed' = owed \union {writes + 1}
     \/ /\ t \in Repairers
        /\ rows' = [rows EXCEPT ![slot[t]] = NewRow(found[t].blob, TRUE)]
        /\ UNCHANGED <<owed, writes>>
  /\ Goto(t, "countUp")
  /\ UNCHANGED <<monoton, size, generation, held, found, slot, crashes>>

\* updateQueueSize(1); a repair worker goes on to acknowledge the original.
CountUp(t) ==
  /\ pc[t] = "countUp"
  /\ size' = size + 1
  /\ IF t \in Repairers THEN Goto(t, "ackOriginal") /\ UNCHANGED <<found, slot>> ELSE Ends(t)
  /\ UNCHANGED <<rows, monoton, generation, held, history>>

-----------------------------------------------------------------------------
(* ReaderImpl.getAndMark and DefaultMessageConsumer.tryConsume *)

\* A visible message is read, and looked at: it may have reached its limit.
FindMessage(t) ==
  /\ t \in Clients /\ pc[t] = "idle"
  /\ \E i \in Unacked :
       /\ rows[i].visible
       /\ UpdatesInTime => ~BeingUpdated(i)
       /\ found' = [found EXCEPT ![t] = MessageAt(i)]
       /\ Goto(t, IF rows[i].count >= MaxDelivery THEN "deadLetter" ELSE "consume")
  /\ UNCHANGED <<tables, held, slot, history>>

\* Fault: the version is not bumped.
RawConsumeUnversioned(t) ==
  /\ pc[t] = "consume"
  /\ LET m == found[t] IN
       IF HasVersion(m.index, m.version) /\ ~rows[m.index].acked
         THEN /\ rows' = [rows EXCEPT ![m.index].visible = FALSE, ![m.index].count = m.count + 1]
              /\ held' = [held EXCEPT ![t] = [index |-> m.index, tag |-> rows[m.index].tag,
                   version |-> m.version, delivery |-> m.count + 1, blob |-> m.blob]]
         ELSE UNCHANGED <<rows, held>>
  /\ Ends(t)
  /\ UNCHANGED <<monoton, size, generation, history>>

\* rawConsumeMessage: invisibility, version and delivery count in one conditional
\* update; if somebody else was faster the reader looks for another message.
RawConsumeMessage(t) ==
  /\ pc[t] = "consume"
  /\ LET m == found[t] IN
       IF HasVersion(m.index, m.version) /\ ~rows[m.index].acked
         THEN /\ rows' = [rows EXCEPT ![m.index].visible = FALSE, ![m.index].version = m.version + 1,
                                      ![m.index].count = m.count + 1]
              /\ held' = [held EXCEPT ![t] = [index |-> m.index, tag |-> rows[m.index].tag,
                   version |-> m.version + 1, delivery |-> m.count + 1, blob |-> m.blob]]
         ELSE UNCHANGED <<rows, held>>
  /\ Ends(t)
  /\ UNCHANGED <<monoton, size, generation, history>>

\* The message is published to the dead letter queue if there is one, and dropped if not.
DeadLetter(t) ==
  /\ pc[t] = "deadLetter"
  /\ owed' = owed \ {found[t].blob}
  /\ Goto(t, "ackDead")
  /\ UNCHANGED <<tables, held, found, slot, writes, crashes>>

-----------------------------------------------------------------------------
(* Acknowledgement *)

Acked(row) == [row EXCEPT !.acked = TRUE, !.version = @ + 1]

\* ReaderImpl.ackMessage: the receipt is compared with the message, and the update
\* is conditional on the version again, so that nothing gets in between.
AckReceipt(t) ==
  /\ t \in Clients /\ pc[t] = "idle" /\ Applies(t)
  /\ rows' = [rows EXCEPT ![held[t].index] = Acked(@)]
  /\ owed' = owed \ {held[t].blob}
  /\ Goto(t, "countDown")
  /\ UNCHANGED <<monoton, size, generation, held, found, slot, writes, crashes>>

\* Fault: the update is not conditional on the version.
AckUnconditional(t) ==
  /\ pc[t] \in {"ackDead", "ackOriginal"}
  /\ LET m == found[t] IN
       IF rows[m.index] # Nil
         THEN /\ rows' = [rows EXCEPT ![m.index] = Acked(@)]
              /\ Goto(t, "countDown") /\ UNCHANGED <<found, slot>>
         ELSE Ends(t) /\ UNCHANGED rows
  /\ UNCHANGED <<monoton, size, generation, held, history>>

\* Fault: the size is counted down whether or not the update was applied.
AckUncounted(t) ==
  /\ pc[t] \in {"ackDead", "ackOriginal"}
  /\ LET m == found[t] IN
       rows' = IF HasVersion(m.index, m.version) THEN [rows EXCEPT ![m.index] = Acked(@)] ELSE rows
  /\ Goto(t, "countDown")
  /\ UNCHANGED <<monoton, size, generation, held, found, slot, history>>

\* MessageRepositoryImpl.ackMessage of a message as it was read before: one that has
\* reached its limit, or the original of one that was republished
AckFound(t) ==
  /\ pc[t] \in {"ackDead", "ackOriginal"}
  /\ LET m == found[t] IN
       IF HasVersion(m.index, m.version)
         THEN /\ rows' = [rows EXCEPT ![m.index] = Acked(@)]
              /\ Goto(t, "countDown") /\ UNCHANGED <<found, slot>>
         ELSE Ends(t) /\ UNCHANGED rows
  /\ UNCHANGED <<monoton, size, generation, held, history>>

\* updateQueueSize(-1)
CountDown(t) ==
  /\ pc[t] = "countDown"
  /\ size' = size - 1
  /\ Ends(t)
  /\ UNCHANGED <<rows, monoton, generation, held, history>>

-----------------------------------------------------------------------------
(* MessageRepositoryImpl.updateMessage *)

\* The row of a message as an update leaves it: its content replaced, or not when it
\* is the one its client knows; invisible anew, though that may be over at once
Updated(t, row, blob) ==
  [row EXCEPT !.version = @ + 1, !.visible = FALSE, !.blob = IF blob = held[t].blob THEN @ ELSE blob]

\* The content the client's update may write: a new one, or none
Write(t, blob) ==
  \/ blob = held[t].blob /\ UNCHANGED <<owed, writes>>
  \/ /\ writes < MaxWrites /\ blob = writes + 1
     /\ writes' = writes + 1
     /\ owed' = (owed \ {held[t].blob}) \union {blob}

\* Fault: the tag of the receipt is not compared.
UpdateIgnoresTag(t) ==
  /\ t \in Clients /\ pc[t] = "idle" /\ held[t] # Nil
  /\ HasVersion(held[t].index, held[t].version) /\ held[t].version < MaxVersion
  /\ \E blob \in Contents :
       /\ Write(t, blob)
       /\ rows' = [rows EXCEPT ![held[t].index] = Updated(t, @, blob)]
       /\ found' = [found EXCEPT ![t] = [MessageAt(held[t].index) EXCEPT !.blob = blob]]
  /\ Goto(t, "reread")
  /\ UNCHANGED <<monoton, size, generation, held, slot, crashes>>

\* One update, conditional on version and tag: not on the acknowledgement.
UpdateMessage(t) ==
  /\ t \in Clients /\ pc[t] = "idle"
  /\ Applies(t) /\ held[t].version < MaxVersion
  /\ \E blob \in Contents :
       /\ Write(t, blob)
       /\ rows' = [rows EXCEPT ![held[t].index] = Updated(t, @, blob)]
       /\ found' = [found EXCEPT ![t] = [MessageAt(held[t].index) EXCEPT !.blob = blob]]
  /\ Goto(t, "reread")
  /\ UNCHANGED <<monoton, size, generation, held, slot, crashes>>

\* The row is read again for the new receipt, whatever happened to it since; a row
\* that is gone is an error.  The response names index, version and tag, no content.
RereadMessage(t) ==
  /\ pc[t] = "reread"
  /\ LET i == held[t].index IN
       held' = IF rows[i] = Nil THEN held
               ELSE [held EXCEPT ![t].version = rows[i].version, ![t].tag = rows[i].tag,
                                 ![t].blob = found[t].blob]
  /\ Ends(t)
  /\ UNCHANGED <<tables, history>>

-----------------------------------------------------------------------------
(* Time, the repair of buckets, the deletion of the queue, and crashes *)

\* Nobody asks whether an acknowledged message is visible.
Expire(i) ==
  /\ i \in Unacked /\ ~rows[i].visible
  /\ rows' = [rows EXCEPT ![i].visible = TRUE]
  /\ UNCHANGED <<monoton, size, generation, held, threads, history>>

\* deleteAllMessages, once all indices have been handed out and what was put is
\* acknowledged
DeleteBucket ==
  /\ monoton = MaxIndex /\ Unacked = {}
  /\ \E i \in Index : rows[i] # Nil
  /\ rows' = [i \in Index |-> Nil]
  /\ UNCHANGED <<monoton, size, generation, held, threads, history>>

\* The queue is deleted and created again under the same id, with a size counter
\* of its own, when its requests are over (QueueLifecycle, RequestsInTime); the
\* clients keep their receipts.
CreateAgain ==
  /\ generation + crashes < MaxBreaks
  /\ \A t \in Threads : pc[t] = "idle"
  /\ rows' = [i \in Index |-> Nil]
  /\ monoton' = 0 /\ size' = 0 /\ generation' = generation + 1
  /\ owed' = {}
  /\ UNCHANGED <<held, threads, writes, crashes>>

\* The node dies, and a client keeps the receipt it had.  Before its first statement
\* on the tables a process that dies is one that goes no further.
Crash(t) ==
  /\ pc[t] \in {"put", "countUp", "ackDead", "ackOriginal", "countDown", "reread"} /\ generation + crashes < MaxBreaks
  /\ crashes' = crashes + 1
  /\ Ends(t)
  /\ UNCHANGED <<tables, held, owed, writes>>

-----------------------------------------------------------------------------

Next ==
  \/ \E t \in Threads :
       \/ RepairerCollects(t) \/ NextMonotonic(t) \/ PutMessage(t) \/ CountUp(t)
       \/ FindMessage(t) \/ RawConsumeMessage(t) \/ DeadLetter(t)
       \/ AckReceipt(t) \/ AckFound(t) \/ CountDown(t)
       \/ UpdateMessage(t) \/ RereadMessage(t)
       \/ Crash(t)
  \/ \E i \in Index : Expire(i)
  \/ DeleteBucket
  \/ CreateAgain

Spec == Init /\ [][Next]_vars

-----------------------------------------------------------------------------
(* Properties *)

\* Rows, receipts and what the threads have in hand keep their types, and no
\* message is delivered more often than its queue allows.
TypeOK ==
  /\ rows \in [Index -> Row \union {Nil}]
  /\ monoton \in 0 .. MaxIndex /\ size \in Int /\ generation \in Generations
  /\ held \in [Clients -> Receipt \union {Nil}]
  /\ pc \in [Threads -> {"idle", "claim", "put", "countUp", "consume", "deadLetter", "ackDead",
                         "ackOriginal", "countDown", "reread"}]
  /\ found \in [Threads -> Message \union {Nil}]
  /\ slot \in [Threads -> Index \union {Nil}]
  /\ owed \subseteq Contents /\ writes \in 0 .. MaxWrites /\ crashes \in Nat /\ generation + crashes <= MaxBreaks
  /\ \A i \in Index : rows[i] # Nil => rows[i].count <= MaxDelivery

\* A delivered message has one owner: no two clients hold receipts that would both
\* be accepted, so an acknowledgement or an update is never made for a delivery
\* that has been superseded ("CONFLICT: PopReceipt is stale", QueueResource).
SoleOwner ==
  \A c, d \in Clients : c # d /\ Applies(c) /\ Applies(d) => held[c].index # held[d].index

\* A receipt that would be accepted is of the latest delivery of a message that is
\* not acknowledged, and its holder knows its content: it is of this queue, not of
\* one deleted under the same name (PopReceipt, MessageTag).
ReceiptsAreCurrent ==
  \A c \in Clients : Applies(c) /\ pc[c] # "reread" =>
    LET row == rows[held[c].index]
    IN ~row.acked /\ row.count = held[c].delivery /\ row.blob = held[c].blob

\* What was put, or written by an update that was accepted, is in a message that
\* will be delivered, until the client that was given it acknowledges or replaces
\* it, or it is given up at its delivery limit: no update is lost to a reader, to
\* a repair worker that republishes what it read before, or to a stale receipt.
UpdatesSurvive == owed \subseteq {rows[i].blob : i \in Unacked}

\* The steps of the size counter that are yet to come
Outstanding == Cardinality({t \in Threads : pc[t] \in {"countUp", "countDown"}})

\* The size of a queue differs from its unacknowledged messages by no more than
\* the counting that is yet to be done and the processes that died before theirs
\* (QueueRepository.getQueueSize, "size" of the queue statistics).
SizeTracksMessages ==
  LET gap == size - Cardinality(Unacked)
  IN gap <= Outstanding + crashes /\ -gap <= Outstanding + crashes
=============================================================================
