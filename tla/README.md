# CassieQ in TLA+

CassieQ is a message queue over Cassandra: queues live in tables, every node of
the service is stateless, and nothing spans two statements on the database. All
the hard behaviour is therefore in the order in which statements of different
requests, workers and nodes interleave. These modules model that order, TLC
checks it on small instances, and TLAPS proves part of it for all of them.

CassieQ is written in Java; the JavaScript in the repository is the vendored
Swagger UI that serves its API documentation, and has no part in this.

Paths below are relative to `src/core/src/main/java/io/paradoxical/cassieq/`.

## The system

| Part | State it keeps | Operations | What makes it correct |
|---|---|---|---|
| Publishers (`DefaultMessagePublisher`, `MessageRepositoryImpl.putMessage`, `MonotonicRepoImpl`) | monoton: the next index; a row per message | claim an index, put a message there | every index is handed out once; a message that was put is not lost |
| Readers (`workers/reader/ReaderImpl`, `PointerBasedInvisStrategy`, `DefaultMessageConsumer`) | reader bucket pointer, invisibility pointer, tombstones | find a visible message behind, else in the bucket; take it; tombstone a bucket and move on; dead-letter | a bucket left behind gets no more messages; an unacknowledged message stays where a reader looks |
| Consumers (`MessageRepositoryImpl`, `ReaderImpl.ackMessage`, `PopReceipt`) | pop receipts; a version, a tag and a delivery count per message; the size counter | acknowledge, change a message, extend its invisibility | a receipt counts for the delivery it belongs to; no accepted content is lost; the size follows the messages |
| Repair workers (`workers/repair/RepairWorkerImpl`) | repair pointer, finalizers | wait for the tombstone's timeout, republish what was never delivered, delete or finalize the bucket, move on | nothing unacknowledged is deleted |
| Queue definitions (`QueueRepositoryImpl`, `QueueDeleter`, `MessageDeletorJobProcessorImpl`) | row with status and version, deletion jobs | create, delete, create again under the same name | an active queue is provisioned; a deletion ends and never touches a newer queue |
| Repair management (`SimpleRepairWorkerManager`) | expected and started workers | claim from a timer and from events, start and stop workers | each active queue is repaired by one node |
| Cluster allocation (`clustering/allocation/Hazelcast*`, `EventableDispatchAllocater`, `eventing/HazelcastEventBus`) | map of claims, its lock, membership | claim a share, remove a departed member | no queue claimed twice; claims settle |
| Manual allocation (`ManualResourceAllocater`) | the instance's number | take a slice of the sorted queues | each queue in one slice |
| Accounts and keys (`AccountResource`, `AccountRepositoryImpl`) | a map of keys per account | create, add and delete keys, delete with all queues | the keys are those that were handed out; no queue without an account |
| Authorization (`discoverable/auth`, `PermissionsResource`) | none: keys, signed requests, signed URLs | authenticate, authorize, sign a URL | a URL is good for what it was asked for, and for nothing else |
| REST resources (`resources/api/v1`) | none | call the above in order | theirs |
| Leadership, debug resource, client, configuration, API documentation | see "Not modelled" | | |

How they interact. Publishers, readers, consumers and repair workers of a queue
never call each other; they share the tables, through reads and conditional
updates. A reader that finishes a bucket writes a tombstone, which is what a
repair worker waits for; the finalizer the repair worker writes is what lets the
invisibility pointer leave an empty bucket. The deletion job reads the repair
and the invisibility pointer to know what is left to delete. Creation and
deletion publish events; every running manager then claims again, under a lock
of the cluster, and is handed its claim after the lock is released. The deletion
of an account starts one deletion per queue in an executor and does not wait.
Every request of a caller is authenticated against the account's keys before it
reaches a queue.

What is hard. A statement decides on what an earlier statement read. A bucket
is closed by a timeout, while a put or a scan may still be on its way. Any
process may die between two statements, and several writes are only meaningful
together. Two workers may serve one queue while its claim moves. The
definition's row is changed by name, while versions of the queue are changed by
id. `PROJECT.json` lists these hazards one by one, at their lines.

## Modules

| Module | Models |
|---|---|
| `BucketQueue` | one queue id: publishers, readers, consumers and repair workers on its tables |
| `AtLeastOnce` | the promise to publishers and consumers, with no buckets, pointers or workers; `BucketQueue` refines it |
| `BucketQueueProofs` | theorems about `BucketQueue`: types, closed buckets, the repair pointer |
| `AtLeastOnceProofs` | theorems about `BucketQueue`: no message is lost, and `AtLeastOnce` is implemented |
| `ReachProofs` | theorem about `BucketQueue`: the invisibility pointer skips no message |
| `QueueLifecycle` | one queue name: definition, versions, deletion jobs |
| `QueueLifecycleProofs` | theorems about `QueueLifecycle` |
| `MessageLifecycle` | the rows of a queue's messages, receipts, updates, the size counter |
| `MessageLifecycleProofs` | theorems about `MessageLifecycle`: types, receipts accepted by one consumer only |
| `ReceiptProofs` | theorems about `MessageLifecycle`: what receipts are worth, updates, the size counter |
| `RepairManagement` | which node repairs which queue: cluster, numbered instances, or every node |
| `RepairManagementProofs` | theorems about `RepairManagement` |
| `Accounts` | accounts, keys, signed URLs, and the requests made with them |
| `AccountsProofs` | theorems about `Accounts` |
| `MC_*` | one for each module with runs: symmetry sets for TLC |

Definitions carry the name of the method they translate (`GetAndMark`,
`TryAdvance`, `ClaimResources`, ...). Each action is one statement on the
database (or one step under the cluster's lock) and the local decision the code
takes on its answer; a program counter per process says which statement is next.
Definitions marked "Fault" are mistakes the code could have made; no
specification uses them, and putting one in the place of the definition after it
must make a property fail.

### BucketQueue

`monoton`, `rows`, `readerPtr`, `invisPtr` and `repairPtr` are the table columns;
`tombstones` and `finalizers` are the special rows, kept apart because
`getMessages` filters them out. A payload is named by the first index it was put
at, so that a republished copy can be recognised. Readers (`rpc`, ...) follow
`nextMessage`: the invisibility strategy (`invisPointer` to `rereadInvis`), the
consumption of what was found (`consume`, `ackDead`, `track`, `respond`), and
the reader's bucket (`readerBucket` to `advance`). Repair workers (`wpc`, ...)
follow `process`.

- `nextMonotonic`'s compare-and-set loop is one atomic step.
- Time is abstract: a message is visible or not, `Expire` may end an
  invisibility at any moment, a wait may end at any moment.
- `PutsInTime` and `ScansInTime` state what the tombstone timeout is there for:
  that no put, and no scan of the invisibility strategy, outlasts it. They are
  assumptions about deployment, and appear in the guard of `WaitForTimeout` only.
  Without the first, `NothingLost` fails; without the second, see `stale_scan`.
- Dead-lettering stands for the decision of `DefaultMessageConsumer` to give a
  message up; the dead letter queue itself is another queue.
- `CrashReader` and `CrashRepairer` end a worker between any two statements. A
  `stop()` of a repair worker is seen at two points only, where it ends the pass
  as a crash does. The `Mortal` set limits who may die.
- `updateMessage`, tags and the queue-size counter are in `MessageLifecycle`.
  The queue is in use: the `isActive` check at the head of `nextMessage` is about
  `QueueLifecycle`.

### MessageLifecycle

The complement of `BucketQueue`: one bucket, and everything that happens to a
row. `rows` has version, tag, delivery count, content, visibility and
acknowledgement; `held` is the last receipt each client was given, as index,
version and tag, with what its holder knows (delivery, content). Consumption
(`FindMessage`, `RawConsumeMessage`), dead lettering (`DeadLetter`, `AckFound`),
acknowledgement by receipt (`AckReceipt`), update (`UpdateMessage`,
`RereadMessage`), put and republishing (`NextMonotonic`, `PutMessage`) are split at
their statements; the size counter moves in statements of its own (`CountUp`,
`CountDown`).

- `owed` is the history variable: contents that were accepted and that nobody
  acknowledged, replaced or gave up.
- `AckReceipt` is one step: the receipt is compared with the row, and the update
  repeats the comparison of the version.
- Tags are drawn at random. The model lets the tags of two queues under one id
  differ, and leaves a collision out.
- `UpdatesInTime` says that nobody takes a message between the update of its row and
  the second read that makes the new receipt.
- `CreateAgain` stands for the whole of `QueueLifecycle`: the tables are new, the
  receipts are not.

### QueueLifecycle

`row` is the definition, `jobs` the deletion jobs, and each version has a
`monoton`, `pointers` and `messages` of its own, as each has its own queue id
(`QueueId.valueOf`). Creators follow `createQueue` through
`tryUpsertQueueDefinition`, deleters follow `QueueDeleter.delete` and the job it
runs, publishers look the queue up, claim an index and put. A caller's definition
always has version 0, so a creation replaces only a version 0; a version 1 that is
being deleted can be created again only when its row is gone.

What readers and repair workers do is reduced to what a deletion job sees of
them: pointers pass closed buckets (`RepairBucket`, `PassInvisBucket`). That a
bucket they pass is closed is `ClosedBucketsStayClosed` of `BucketQueue`.
`RequestsInTime` says that a put ends before its bucket's timeout, and before a
deletion that came after it reads the monoton; `ConsumersInTime` that messages are
acknowledged and buckets deleted before the repair pointer passes.

### RepairManagement

`strategy` and `instance` are the configuration; TLC tries all of them. With
`CLUSTER`, `allocated` is the group's entry of the Hazelcast map (in memory: it goes
with the last member), `lock` the cluster's lock on it, which is freed when its
holder dies. A node has a timer thread and handler threads; the timer claims
inside the manager's monitor, a handler takes the monitor only to hand its claim
over (`Accept`). With `MANUAL` a node takes the slice of its number, with `NONE`
every queue, from the timer only. `expected` is `expectedRepairWorkers`. A read of
the queues may fail (`GetTotalFails`, `AcceptFails`), which ends the timer's
schedule; a claim or a departure may be given up when the lock is not free. Nodes
are incarnations: one that left does not return. Hazelcast itself is external:
membership changes are seen at once by every member, and departures are announced
to every running one. `notifyChanges` is the timer's claim plus a second
`applyChanges`, which changes nothing.

### Accounts

`accounts` is the row of an account, its map of keys by name, or no row.
Administrators' requests read the row (`LookupAccount`), and write the whole map
back (`DeleteAccountKey`, `AddNewKey`) or list the queues, submit their deletions
and delete the row (`SubmitJobs`, `DeleteAccount`); `RunJob` is what the executor
does later. `told` is the history variable: the keys the administrators were told
are valid.

A signature is the pair of the key and of what it signs, so that it is verified by
equality; `UrlAuthorized`, `KeyAuthorized` and `RequestAuthorized` are the three
kinds of credentials, over requests that are parsed already. `Operations` lists the
methods of `QueueResource` with the level each requires. Of what a request then
does only the creation and the deletion of a queue are modelled, in one step
(`Perform`), since they are what an account's deletion races.

- `ChangesInTime`: changes of one account do not overlap. The code has no condition
  on its update, so that nothing less will do.
- `RequestsInTime`: no queue of an account is created while the account is being
  deleted.

## Runs

| Run | Instance | Shows |
|---|---|---|
| `readers` | two mortal readers, two buckets of one | `ClosedBucketsStayClosed`, `NothingLost`, `UnackedWithinReach` when readers race each other, publishers, acknowledgements and expiry |
| `repair` | a reader and a mortal repair worker, buckets of two, three indices | the same with republishing and deletion, `OnlyAckedDeleted`, `TypeOK` |
| `workers` | two repair workers and a reader, two buckets of one | `ImplementsAtLeastOnce` (refinement), `RepairFollowsReader` |
| `live` | a reader and a repair worker, two buckets of one | `EventuallySettled`: every message put is acknowledged or dead-lettered |
| `requests` | two creators, a mortal deleter, a publisher | `StatusMovesForward`, `DeletionSparesActive`, `TypeOK`, with consumers that may be late |
| `deletion` | two creators (one mortal), a deleter, a publisher, a bucket of two | `DeletionEnds`, `NewQueuesAreEmpty` |
| `cluster` | two nodes (one mortal), two queues, one change, one fault, each of the three strategies | `ClaimsAreDisjoint`, `ClaimsSettle`; `TypeOK`, which says too that the map is used under its lock |
| `messages` | two consumers, a publisher, a repair worker, two indices, one death or one new queue | `SoleOwner`, `ReceiptsAreCurrent`, `UpdatesSurvive`, `SizeTracksMessages`, `TypeOK` |
| `accounts` | two accounts, four keys, an administrator, a caller, one URL, three instants | `KeysAsTold`, `UrlsGrantWhatWasAsked`, `QueuesHaveAccounts`, `TypeOK` |

Bounds. `MaxIndex` ends the supply of indices (a worker that needs one then
waits, which `AtBound` excuses). Two buckets are what a move of a pointer relates;
the buckets of two in `repair` and `deletion` make partly filled buckets and
ranges that end inside a bucket happen. Two of a kind make them race. One
incarnation of a queue beyond its first is all the code can create (version 1).
In `RepairManagement`, `MaxChanges` and `MaxFaults` bound what is otherwise unlimited
(queues that come or go; claims and departures given up and reads that fail); one
time-out is enough for a claim to go on without its lock if that were possible.
For `CLUSTER`, whose queues have no order, TLC starts from one active queue; for the
others from any set. In `MessageLifecycle` `MaxWrites` and `MaxIndex` bound contents and
indices, `MaxVersion` the updates of one row, and `MaxBreaks` deaths and new queues
together: two of a kind are what lets a stale receipt meet another's delivery. In
`Accounts` there is one administrator, as `ChangesInTime` excludes what two could do
to one account; the theorem covers any number. `MaxKeys` are two accounts' first
keys, or one account made, changed and made again; three instants put a request
before, at and after the limits of a URL. Deadlock is checked except in `cluster`,
`messages` and `accounts`: there a node whose timer ended may have nothing left to do,
and requests may stop coming.

Fairness. Readers are polled and repair workers scheduled for ever (weak fairness
of each reader and worker); a publisher that has an index puts or gives up; time
passes (`Expire`). A wait that scans of other readers keep interrupting in the
model ends because it is a wait in time (strong fairness of `WaitForTimeout`).
Consumers owe nothing: `EventuallySettled` holds because a message nobody
acknowledges is dead-lettered in the end. A deletion that was accepted runs on, and
so does a publisher with an index; no creation has to come. In `RepairManagement`
each thread is strongly fair: attempts to lock queue up, and the timer leaves the
monitor for the whole of its delay (`scheduleWithFixedDelay`); a node that was
stopped exits.

Three runs show where the code does not do what its comments or documentation say.

- `stale_scan`: without `ScansInTime`, the invisibility strategy reads a bucket
  as empty, then finds its finalizer and passes it; a message delivered in between
  and not acknowledged is behind both pointers.
- `kept_stuck`: with `deleteBucketsAfterFinalization` false, the acknowledged
  original of a republished message has delivery count 0 for ever and stops the
  invisibility pointer; messages behind it are not redelivered.
- `unprovisioned`: creating a queue while its old definition is being deleted
  provisions the old version and activates the new one, without monoton and
  pointers.

More disagreements and limits were met that have no run of their own. Each is
found again by changing the constant that is named, or read off the action.

- `SimpleRepairWorkerManager` overwrites its expected workers before it compares them
  with the old ones (lines 143 and 204), so `SetClaimedRepairWorkers` starts and stops
  none. `RepairManagement` keeps `expected` and `workers` apart for that; `BucketQueue`
  takes its workers as started.
- A repair worker that dies between deleting a bucket and writing its finalizer
  leaves a bucket no pointer passes: `live` with `Mortal = {w1}`.
- Buckets with holes are deleted, which `QueueCreateOptions` says they are not.
- Messages left behind the pointers come back in a queue created later under the
  same id: `deletion` with `ConsumersInTime = FALSE`.
- With two deleters, the job of an old version 0 deletes from the new one: `requests`
  with `Deleters = {d1, d2}`.
- A deleter that dies leaves its job's row, and the next deleter does not delete: a
  queue of the same name begins with what was left. `deletion` with `Mortal = {d1}`
  violates `NewQueuesAreEmpty`.
- A put that outlasts the tombstone's timeout is lost: `repair` with
  `PutsInTime = FALSE`.
- A client whose updated message is taken by another before the second read of
  `updateMessage` is given the other's receipt: `messages` with
  `UpdatesInTime = FALSE` violates `SoleOwner`, `ReceiptsAreCurrent` and
  `SizeTracksMessages`, and with `MaxWrites = 3` and `MaxVersion = 6` also
  `UpdatesSurvive`: the client's next update goes to a message the other has
  acknowledged. `QueueResource` (lines 248 and 321) documents that such a receipt is
  refused as stale.
- Two overlapping changes of an account's keys lose one of them: `accounts` with
  `Administrators = {t1, t2}` and `ChangesInTime = FALSE` violates `KeysAsTold`. A queue
  created after the deletions of its account's queues were submitted stays:
  `RequestsInTime = FALSE` violates `QueuesHaveAccounts`.
- A deletion job outlives its account, and deletes a queue of the same name in an
  account created later under the same name (`RunJob`).
- A manual instance number equal to the count passes the check
  (`ManualResourceAllocater`, line 54), and its slice overlaps the last one's
  (`Slice`); the share there is divided as integers before it is rounded up (line 63).
- The dead letter queue cannot be set over REST, so a message at its delivery limit
  is dropped (`DeadLetter`). `rawConsumeMessage` returns the message with the delivery
  count it had before (`MessageRepositoryImpl`, line 110).

## Proofs

The theorems hold for every value of the constants that satisfies the named
assumptions of the module (`ASSUME`), which TLC evaluates in each run. A timing
assumption is used only where the theorem names it.

`BucketQueueProofs`, with no timing assumption:

- `TypeCorrect`: `Spec => []TypeOK`. `TypeOK` is not inductive; `TypeInv` adds that a
  reader at a label that uses its message has one, and that a worker about to put
  has claimed an index.
- `ClosedBucketsStayClosedAlways`: no bucket is tombstoned, finalized or left
  behind while one of its indices can still be handed out.
- `RepairFollowsReaderAlways`: the repair pointer is at most one bucket beyond the
  reader's, and no tombstone is beyond the reader.

The last two follow from one inductive invariant, `CloseInv`. The reader decides to
tombstone on a count of rows and a monoton it read some steps before, and the repair
worker on a tombstone it read; so the invariant says, for each label, what was
true when the decision was made and is still true, since it is about quantities
that only grow: rows and indices about to become rows are below the monoton
(`RowsAreHandedOut` and its companions), a reader about to tombstone or advance
holds a closed bucket, its bucket is never ahead of `readerPtr`, and a repair
worker past its tombstone holds a bucket the reader has reached. A full bucket is closed
(`FullBucketIsClosed`), and so is one the monoton has passed (`PastBucketIsClosed`).
`InitClosed`, `NextClosed` and the two theorems are its three facts.

`AtLeastOnceProofs`, assuming `PutsInTime`:

- `NothingLostAlways`, `OnlyAckedDeletedAlways`, and `ImplementsContract`: `BucketQueue`
  implements `AtLeastOnce` (`Spec => ImplementsAtLeastOnce`, the refinement the `workers`
  run checks).

`NothingLost` is not inductive: a repair worker acknowledges, and deletes, on the
strength of what it read before. `KeepInv`, on top of `TypeInv` and `CloseInv`, says
what each process has found out and why it is still true when it acts on it:

- an index is claimed by one publisher or repair worker, and has no row
  (`ClaimsApart`), so a put never hits a row of somebody else;
- the payload a reader or repair worker read at an index is the only one ever at that
  index (`Seen`, in `ReadersKnow` and `RepairersKnow`), and a version given to a
  consumer was given once (`Given`, in `ReadersKnow` and `ReceiptsKnow`), so an
  acknowledgement settles the payload its holder thinks of, or changes nothing;
- a repair worker about to acknowledge an original has a copy further on, or the
  payload is settled (`Spared`);
- a repair worker past the wait has a bucket nothing is put into any more (`Complete`),
  and one about to delete has a bucket all acknowledged besides (`DeletersSure`). Both
  stay true once true (`CompleteStays`). The wait gives the first of them, and this
  is where `PutsInTime` is used; a full bucket is complete without waiting.

`Evolves` and `NothingDropped` say what any step may do to the rows; each action is
shown to be of that kind once (`NextEvolves`), and every part of the invariant is then
proved from these two. The refinement is proved action by action: a step maps to a
put, an acknowledgement, a dead letter, the disposal of a settled payload, or a copy
of a published one (`ContractSteps`), or leaves what is stored as it was
(`ContractStep`). `NilAssumption` (no row and no message is `Nil`) is the only
assumption on constants that was added for these proofs.

`ReachProofs`, assuming `PutsInTime` and `ScansInTime`:

- `UnackedWithinReachAlways`. The invariant `ReachInv` is stronger than the property:
  every bucket behind the invisibility pointer is `Settled`, that is complete and all
  acknowledged, whatever the reader pointer is. Since that is stable, the same holds of
  every place a reader remembers: the pointer it read, the place it is about to move
  the pointer to, and the message it took through the strategy (`Remembers`). So it does
  not matter in which order racing readers move the pointer back and on. A reader
  moves on past a bucket that is full and acknowledged, or that is acknowledged and
  then has a finalizer. For the latter `ScanSure` says that at the time of the first read
  the bucket was settled or no worker was past its wait for it: then `ScansInTime`
  keeps the worker waiting until the second read is done. Without it the property is
  false: this is the run `stale_scan`.

`RepairManagementProofs`, for any nodes, handlers, queues and each strategy:

- `TypeCorrect`: types, and that a thread works on the cluster's map only while it
  holds the lock. That part is inductive with the types because the lock is taken
  before the label is entered, and given up by the step that leaves it or by the
  death of the holder.
- `ClaimsAreDisjointAlways`: no queue is in two claims. `ClaimsOwnOrFree` says that a
  claim is made of what the node held and of what nobody holds; since the claim is
  computed and written in one step under the lock, disjointness is inductive on top
  of the types.

`AccountsProofs`:

- `TypeCorrect`, with no timing assumption; `TypeInv` adds what a request has in hand
  between its statements.
- `KeysAsToldAlways`, assuming `ChangesInTime`. The invariant `ToldInv` adds that a key
  is made once and held under one name (`KeysOnce`, else the deletion of one name
  would leave the key), that requests under way are about different accounts
  (`ChangesApart`), and so that the map each of them read is the one that is there
  (`ReadIsCurrent`).
- `UrlsGrantWhatWasAskedAlways`, from the previous one: `SignatureMatches` says that a
  signature verifies exactly for the account and key it was made with, and only if
  "None" is not among its levels.
- `QueuesHaveAccountsAlways`, assuming `RequestsInTime`: `DeletionIsComplete` says that
  when the row is about to go, each queue of the account has its job and nobody is
  about to create one.

`QueueLifecycleProofs`; the first three with no timing assumption:

- `TypeCorrect`; `TypeOK` is inductive as it stands.
- `StatusMovesForwardAlways`, an action property: every statement that writes the
  status is conditional on the status it follows, so each step is looked at alone
  with nothing but the types.
- `DeletionSparesActiveAlways`, for one deleter at a time, which may die and begin
  again: `OnItsWay` says for each of its statements what the definition is, namely
  the version it found until the status is marked, then that one in `Deleting` or a
  later version. With two deleters the property is false (see above).
- `NewQueuesAreEmptyAlways`, an action property, assuming `RequestsInTime`,
  `ConsumersInTime`, and one deleter that does not die. Those are the hypotheses the
  `deletion` run has.
  The invariant `EmptyInv` is about version 0, the one created from nothing: it is in
  service, or its deleter is at work on it, or nothing is left of it but the first
  value of a monoton or pointers that a creator ensured too late (`RestInv`). While it is
  in service its messages are below the monoton and in buckets the repair pointer has
  not passed (`Running`), so the range that the job reads in three statements leaves out
  no message, stored or yet to be put (`Ranged`), and each table is empty once its statement
  is done (`WorkInv`). One creator at a time provisions it (`ProvisionInv`), and its job is
  new to the deleter that inserts it (`JobInv`). The deleter must not die: its job's row stays, the next
  deleter finds it and does not delete, and once the row of the definition is gone
  too a queue of the same name and version begins with what was left. TLC finds this
  with `Mortal = {d1}` in `MC_QueueLifecycle_deletion.cfg`.

`MessageLifecycleProofs`:

- `TypeCorrect`, with no timing assumption; `InHand` says what a thread has in hand at
  each statement, and that a reader about to consume holds a message below its limit.
- `SoleOwnerAlways`, assuming `UpdatesInTime`. `SoleOwner` alone says nothing about
  receipts to come. `OwnerInv` adds that versions of a row only grow, so that a receipt
  or a message read before is never ahead of its row (`NotAhead`), that an index is
  unknown to every receipt and reader until its message is there (`FreshUnknown`,
  `SlotsApart`), that rows have the tag of the current queue and no receipt a later
  one (`TagsOfNow`), and that a client between the two statements of its update is
  alone with its message (`UpdatesAlone`): this is what the second read relies on, and
  where `UpdatesInTime` is needed. `FallBehind` is the key lemma: a client that keeps
  its receipt while rows change can only fall behind.

`ReceiptProofs`, assuming `UpdatesInTime`:

- `ReceiptsAreCurrentAlways`. `CurrentInv` adds to `OwnerInv` what a thread has read of a
  row it is about to write: the row is as it was read, or its version has moved on
  (`FoundAsRead`), so a conditional update applies to exactly what was read. Between the
  two statements of an update the row is as the client left it, and what all others have
  read of it is out of date (`UpdatesUndisturbed`).
- `UpdatesSurviveAlways`. `SurvivalInv` adds to `CurrentInv` that nobody has seen a
  content yet to be written (`ContentsWritten`, contents are numbered by `writes`),
  and that a message being given up or republished is one its content does without
  (`Covered`): it is owed no longer, or the copy is further on, which was put before
  the original is acknowledged.
- `SizeTracksMessagesAlways`. `SizeInv` is an equation with a slack: the counter, plus
  the counting up to come, minus the counting down to come, is the number of
  unacknowledged messages up to the number of deaths. It needs finitely many threads
  (`FiniteAssumption`), and `CurrentInv` because a message acknowledged twice would be
  counted twice.

Every invariant and every action property that a passing run checks is stated by a
theorem. Only model-checked: the liveness properties `EventuallySettled`,
`ClaimsSettle` and `DeletionEnds` (fairness and `ENABLED` are beyond the prover).

## Not modelled

- Swagger UI: all `.js` files of the repository (`src/core/src/main/resources/assets`)
  are vendored copies of Swagger UI, jQuery plug-ins, Handlebars and the like, with no
  code of CassieQ among them. They render the API documentation in a browser and
  share no state with the queues, so there is nothing of this system to state about
  them.
- Leadership (`HazelcastLeadershipProvider`): nothing in the service asks who leads; no
  class but `LeadershipModule` refers to it.
- Debug resource: it sets pointers by hand; no property survives an arbitrary
  pointer, and none is promised.
- Parsing of headers and of queries, the cryptography of signatures, request
  validation, response texts: `Accounts` starts from parsed requests. An empty set of
  levels is left out, because `EnumSet.copyOf` throws on it before a URL is made.
- Statistics other than the size of a queue, metrics, configuration, start-up, the
  client library: no protocol of their own.
- Hazelcast and Cassandra: external; a conditional update or a read is atomic, and a
  statement either applies or does not. A conditional update whose answer is
  lost is modelled as the death of its caller.
- Two messages with one tag: tags are random, and a collision is left out.

## Plan

1. `QueueLifecycle` as the abstract specification of a queue's life, refined by the
   composition with `Accounts`.
2. Proofs: weaker hypotheses for `NewQueuesAreEmpty`, with a deleter that dies before
   it has inserted its job.
