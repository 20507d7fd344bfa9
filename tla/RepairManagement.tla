-------------------------- MODULE RepairManagement --------------------------
(***************************************************************************)
(* Which node repairs which queue: SimpleRepairWorkerManager over each of  *)
(* the three allocators a service can be configured with.                  *)
(*                                                                         *)
(* CLUSTER: every node claims a share of the active queues in a map of the *)
(* Hazelcast cluster, under the cluster's lock on it.  A node claims from  *)
(* its timer, and from any number of handlers: of queues added or deleted, *)
(* of members that came or left.  The timer's claim runs in the manager's  *)
(* monitor from end to end; a handler takes the monitor only for its last  *)
(* step, after the lock is released.                                       *)
(* MANUAL: every node has a number, and takes that slice of the queues.    *)
(* NONE: every node takes them all.  Both claim from the timer only.       *)
(*                                                                         *)
(* The claim is handed to the node's manager, which keeps the workers it   *)
(* expects.                                                                *)
(***************************************************************************)
EXTENDS Integers, FiniteSets, FiniteSetsExt

CONSTANTS
  Nodes,           \* incarnations of a node: one that left does not come back
  Mortal,          \* the nodes that may leave the cluster
  Handlers,        \* threads of a node that handle events
  Queues,          \* queue ids, in the order of their names
  Allocators,      \* AllocationConfig.manualAllocatorsCount
  MaxChanges,      \* bound: queues created and deleted
  MaxFaults,       \* bound: reads of the queues that fail, and claims and departures
                   \* given up because the lock was not free in time
  None             \* "no holder", "no map entry", "no instance number"

ASSUME BoundsAssumption == {MaxChanges, MaxFaults} \subseteq Nat
ASSUME HandlersAssumption == "timer" \notin Handlers
ASSUME MortalAssumption == Mortal \subseteq Nodes
ASSUME QueuesAssumption == Queues \subseteq Nat /\ IsFiniteSet(Queues)
ASSUME NoneAssumption == None \notin Nodes \X (Handlers \union {"timer"})
ASSUME AllocatorsAssumption == Allocators \in Nat \ {0}

Threads == Handlers \union {"timer"}

VARIABLES
  (* the configuration of the service, and of each node *)
  strategy,   \* AllocationConfig.strategy
  instance,   \* AllocationConfig.manualAllocatorInstanceNumber, or None
  (* the database, and counters of the bounds *)
  active,     \* the queues whose definition is active
  changes, failures, timeouts,
  (* the cluster *)
  members,    \* of the cluster
  departed,   \* nodes that have left
  allocated,  \* the group's entry of the map: member |-> queues, or None
  lock,       \* the holder of the lock on it, or None
  (* each node *)
  running,    \* the manager is started
  ticking,    \* its timer is scheduled
  events,     \* queue events and arrivals to handle
  left,       \* departures to handle
  expected,   \* expectedRepairWorkers
  workers,    \* the queues whose repair worker is started
  (* each thread *)
  tpc, gone, total, claimed

config == <<strategy, instance>>
database == <<config, active, changes, failures, timeouts>>
cluster == <<members, departed, allocated, lock>>
manager == <<running, ticking, expected, workers>>
inbox == <<events, left>>
threads == <<tpc, gone, total, claimed>>
vars == <<database, cluster, manager, inbox, threads>>

-----------------------------------------------------------------------------

Strategies == {"CLUSTER", "MANUAL", "NONE"}

Init ==
  /\ strategy \in Strategies
  /\ instance \in [Nodes -> IF strategy = "MANUAL" THEN 0 .. Allocators + 1 \union {None} ELSE {None}]
  /\ active \in SUBSET Queues /\ changes = 0 /\ failures = 0 /\ timeouts = 0
  /\ members = {} /\ departed = {} /\ allocated = None /\ lock = None
  /\ running = [n \in Nodes |-> FALSE]
  /\ ticking = [n \in Nodes |-> FALSE]
  /\ events = [n \in Nodes |-> 0]
  /\ left = [n \in Nodes |-> {}]
  /\ expected = [n \in Nodes |-> {}]
  /\ workers = [n \in Nodes |-> {}]
  /\ tpc = [n \in Nodes |-> [t \in Threads |-> "idle"]]
  /\ gone = [n \in Nodes |-> [t \in Threads |-> None]]
  /\ total = [n \in Nodes |-> [t \in Threads |-> {}]]
  /\ claimed = [n \in Nodes |-> [t \in Threads |-> {}]]

Goto(n, t, label) == tpc' = [tpc EXCEPT ![n][t] = label]

\* The manager's monitor is the timer's while it claims.
MonitorFree(n) == tpc[n]["timer"] = "idle"

\* The cluster's allocator is the only one that listens, on the members that run a manager.
Listening(n) == strategy = "CLUSTER" /\ running[n]

Notified == [n \in Nodes |-> events[n] + (IF Listening(n) THEN 1 ELSE 0)]

\* A fault of the bounded kinds can still happen.
MayFail == failures + timeouts < MaxFaults

-----------------------------------------------------------------------------
(* The queues and the cluster *)

\* createQueue and tryMarkForDeletion publish their event after the change.
ChangeQueues ==
  /\ changes < MaxChanges
  /\ \E q \in Queues : active' = IF q \in active THEN active \ {q} ELSE active \union {q}
  /\ changes' = changes + 1
  /\ events' = Notified
  /\ UNCHANGED <<config, failures, timeouts, left, cluster, manager, threads>>

\* A node comes up: the allocator's listeners, then the manager.
Start(n) ==
  /\ n \notin members \union departed
  /\ members' = members \union {n}
  /\ running' = [running EXCEPT ![n] = TRUE]
  /\ ticking' = [ticking EXCEPT ![n] = TRUE]
  /\ events' = Notified
  /\ UNCHANGED <<departed, allocated, lock, expected, workers, left, database, threads>>

\* Shutdown: the workers it expects are stopped and the listeners removed.
Stop(n) ==
  /\ n \in Mortal /\ running[n] /\ MonitorFree(n)
  /\ running' = [running EXCEPT ![n] = FALSE]
  /\ ticking' = [ticking EXCEPT ![n] = FALSE]
  /\ workers' = [workers EXCEPT ![n] = @ \ expected[n]]
  /\ expected' = [expected EXCEPT ![n] = {}]
  /\ events' = [events EXCEPT ![n] = 0]
  /\ left' = [left EXCEPT ![n] = {}]
  /\ UNCHANGED <<database, cluster, threads>>

\* The process exits or dies; the cluster frees the lock it held and tells the
\* members.  What it claimed stays in the map, which lives as long as a member does.
Leave(n) ==
  /\ n \in Mortal \intersect members
  /\ members' = members \ {n}
  /\ departed' = departed \union {n}
  /\ allocated' = IF members = {n} THEN None ELSE allocated
  /\ lock' = IF lock # None /\ lock[1] = n THEN None ELSE lock
  /\ running' = [running EXCEPT ![n] = FALSE]
  /\ ticking' = [ticking EXCEPT ![n] = FALSE]
  /\ expected' = [expected EXCEPT ![n] = {}]
  /\ workers' = [workers EXCEPT ![n] = {}]
  /\ events' = [events EXCEPT ![n] = 0]
  /\ left' = [m \in Nodes |-> IF m = n THEN {}
                              ELSE IF Listening(m) THEN left[m] \union {n} ELSE left[m]]
  /\ tpc' = [tpc EXCEPT ![n] = [t \in Threads |-> "idle"]]
  /\ gone' = [gone EXCEPT ![n] = [t \in Threads |-> None]]
  /\ total' = [total EXCEPT ![n] = [t \in Threads |-> {}]]
  /\ claimed' = [claimed EXCEPT ![n] = [t \in Threads |-> {}]]
  /\ UNCHANGED database

-----------------------------------------------------------------------------
(* Who calls claim *)

\* SimpleRepairWorkerManager.claim from the schedule, and notifyChanges, which
\* differs by a second applyChanges only.
Tick(n) ==
  /\ running[n] /\ ticking[n] /\ tpc[n]["timer"] = "idle"
  /\ Goto(n, "timer", IF strategy = "CLUSTER" THEN "lock" ELSE "total")
  /\ UNCHANGED <<gone, total, claimed, database, cluster, manager, inbox>>

HandleEvent(n, h) ==
  /\ events[n] > 0 /\ tpc[n][h] = "idle"
  /\ events' = [events EXCEPT ![n] = @ - 1]
  /\ Goto(n, h, "lock")
  /\ UNCHANGED <<left, gone, total, claimed, database, cluster, manager>>

\* memberRemoved
HandleDeparture(n, h) ==
  /\ tpc[n][h] = "idle"
  /\ \E m \in left[n] :
       /\ left' = [left EXCEPT ![n] = @ \ {m}]
       /\ gone' = [gone EXCEPT ![n][h] = m]
  /\ Goto(n, h, "lockToRemove")
  /\ UNCHANGED <<events, total, claimed, database, cluster, manager>>

-----------------------------------------------------------------------------
(* HazelcastResourceAllocater *)

\* lockOnMap
Lock(n, t) ==
  /\ tpc[n][t] \in {"lock", "lockToRemove"} /\ lock = None
  /\ lock' = <<n, t>>
  /\ Goto(n, t, IF tpc[n][t] = "lock" THEN "total" ELSE "remove")
  /\ UNCHANGED <<gone, total, claimed, members, departed, allocated, database, manager, inbox>>

\* Fault: the result of tryLock is not looked at.
LockTimeoutIgnored(n, t) ==
  /\ tpc[n][t] = "lock" /\ lock # None
  /\ Goto(n, t, "total")
  /\ UNCHANGED <<gone, total, claimed, database, cluster, manager, inbox>>

\* The claim is given up.
LockTimeout(n, t) ==
  /\ tpc[n][t] = "lock" /\ lock # None /\ MayFail
  /\ timeouts' = timeouts + 1
  /\ Goto(n, t, "idle")
  /\ UNCHANGED <<gone, total, claimed, config, active, changes, failures, cluster, manager, inbox>>

\* The departure is given up, and its handler goes on to its claim.
DepartureTimeout(n, t) ==
  /\ tpc[n][t] = "lockToRemove" /\ lock # None /\ MayFail
  /\ failures' = failures + 1
  /\ Goto(n, t, "lock")
  /\ gone' = [gone EXCEPT ![n][t] = None]
  /\ UNCHANGED <<total, claimed, config, active, changes, timeouts, cluster, manager, inbox>>

\* Fault: the entry of the member that left is not put back without it.
DepartureForgotten(n, t) ==
  /\ tpc[n][t] = "remove"
  /\ Goto(n, t, "lock")
  /\ gone' = [gone EXCEPT ![n][t] = None]
  /\ lock' = None
  /\ UNCHANGED <<allocated, members, departed, total, claimed, database, manager, inbox>>

\* removeClaimedResources; when nobody has claimed yet the map has no entry for
\* the group, and the exception ends the handler.
RemoveClaimedResources(n, t) ==
  /\ tpc[n][t] = "remove"
  /\ IF allocated = None
       THEN Goto(n, t, "idle") /\ UNCHANGED allocated
       ELSE /\ Goto(n, t, "lock")
            /\ allocated' = [allocated EXCEPT ![gone[n][t]] = {}]
  /\ gone' = [gone EXCEPT ![n][t] = None]
  /\ lock' = None
  /\ UNCHANGED <<members, departed, total, claimed, database, manager, inbox>>

\* inputSupplier: the queues are read from the database, in a cluster under the lock.
GetTotal(n, t) ==
  /\ tpc[n][t] = "total"
  /\ total' = [total EXCEPT ![n][t] = active]
  /\ Goto(n, t, "claim")
  /\ UNCHANGED <<gone, claimed, database, cluster, manager, inbox>>

\* The read throws.  In a cluster the finally block unlocks and hands over an empty
\* claim; the exception ends the schedule of the timer either way.
GetTotalFails(n, t) ==
  /\ tpc[n][t] = "total" /\ MayFail
  /\ failures' = failures + 1
  /\ \/ /\ strategy = "CLUSTER"
        /\ lock' = None
        /\ Goto(n, t, "acceptNothing")
        /\ UNCHANGED ticking
     \/ /\ strategy # "CLUSTER"
        /\ ticking' = [ticking EXCEPT ![n] = FALSE]
        /\ Goto(n, t, "idle")
        /\ UNCHANGED lock
  /\ UNCHANGED <<gone, total, claimed, config, active, changes, timeouts, members, departed,
                 allocated, running, expected, workers, inbox>>

\* Some k elements of a set, or all of them when there are fewer
Limit(S, k) == kSubset(IF Cardinality(S) < k THEN Cardinality(S) ELSE k, S)

Allocation == IF allocated = None THEN [n \in Nodes |-> {}] ELSE allocated

TakenResources == UNION {Allocation[n] : n \in Nodes}

\* The share of a member, rounded up
ClaimMax(queues) == (Cardinality(queues) + Cardinality(members) - 1) \div Cardinality(members)

\* Fault: what the other members hold is available too.
ClaimedFromAll(n, queues) ==
  LET mine == Allocation[n] \intersect queues
      max == ClaimMax(queues)
  IN IF Cardinality(mine) > max THEN kSubset(max, mine)
     ELSE {mine \union more : more \in Limit(queues \ mine, max - Cardinality(mine))}

\* claimResources: the sets a claim may come to, as the order of a hash set decides
ClaimResources(n, queues) ==
  LET mine == Allocation[n] \intersect queues
      max == ClaimMax(queues)
  IN IF Cardinality(mine) > max THEN kSubset(max, mine)
     ELSE {mine \union more : more \in Limit(queues \ TakenResources, max - Cardinality(mine))}

\* claim, under the lock
Claim(n, t) ==
  /\ tpc[n][t] = "claim" /\ strategy = "CLUSTER"
  /\ \E c \in ClaimResources(n, total[n][t]) :
       /\ claimed' = [claimed EXCEPT ![n][t] = c]
       /\ allocated' = [Allocation EXCEPT ![n] = c]
  /\ lock' = None
  /\ total' = [total EXCEPT ![n][t] = {}]
  /\ Goto(n, t, "accept")
  /\ UNCHANGED <<gone, members, departed, database, manager, inbox>>

-----------------------------------------------------------------------------
(* ManualResourceAllocater, and the allocator that passes everything through *)

\* The place of a queue in the sorted list
Position(q, queues) == Cardinality({p \in queues : p < q})

\* Fault: the last slice is as long as the others.
SliceWithoutRest(i, queues) ==
  LET size == Cardinality(queues) \div Allocators
  IN {q \in queues : Position(q, queues) \in size * i .. size * (i + 1) - 1}

\* Slices are of equal length, rounded down; the last allocator takes the rest.
Slice(i, queues) ==
  LET size == Cardinality(queues) \div Allocators
      end == IF i = Allocators - 1 THEN Cardinality(queues) ELSE size * (i + 1)
  IN {q \in queues : Position(q, queues) \in size * i .. end - 1}

\* A node without a number, or with one that is too high, keeps what it has.
ClaimSlice(n) ==
  /\ tpc[n]["timer"] = "claim" /\ strategy = "MANUAL"
  /\ IF instance[n] = None \/ instance[n] > Allocators
       THEN Goto(n, "timer", "idle") /\ UNCHANGED claimed
       ELSE /\ claimed' = [claimed EXCEPT ![n]["timer"] = Slice(instance[n], total[n]["timer"])]
            /\ Goto(n, "timer", "accept")
  /\ total' = [total EXCEPT ![n]["timer"] = {}]
  /\ UNCHANGED <<gone, database, cluster, manager, inbox>>

ClaimAll(n) ==
  /\ tpc[n]["timer"] = "claim" /\ strategy = "NONE"
  /\ claimed' = [claimed EXCEPT ![n]["timer"] = total[n]["timer"]]
  /\ total' = [total EXCEPT ![n]["timer"] = {}]
  /\ Goto(n, "timer", "accept")
  /\ UNCHANGED <<gone, database, cluster, manager, inbox>>

-----------------------------------------------------------------------------
(* SimpleRepairWorkerManager *)

\* applyChanges compares what getClaimedRepairWorkers returns with the field.
ApplyChanges(n, claimedWorkers, field) ==
  workers' = IF running[n]
               THEN [workers EXCEPT ![n] = (@ \ (field \ claimedWorkers)) \union (claimedWorkers \ field)]
               ELSE workers

\* setClaimedRepairWorkers: both sides of the comparison are the new field.
SetClaimedRepairWorkers(n, ids) ==
  LET expectedWorkers == ids \intersect active
  IN /\ expected' = [expected EXCEPT ![n] = expectedWorkers]
     /\ ApplyChanges(n, expectedWorkers, expectedWorkers)

\* An exception ends the schedule of the timer.
ClaimEnds(n, t, thrown) ==
  /\ ticking' = IF thrown /\ t = "timer" THEN [ticking EXCEPT ![n] = FALSE] ELSE ticking
  /\ Goto(n, t, "idle")
  /\ claimed' = [claimed EXCEPT ![n][t] = {}]
  /\ UNCHANGED <<gone, total>>

\* allocationEvent.accept, in the finally block, after the lock is released
Accept(n, t) ==
  /\ tpc[n][t] \in {"accept", "acceptNothing"}
  /\ t = "timer" \/ MonitorFree(n)
  /\ SetClaimedRepairWorkers(n, claimed[n][t])
  /\ ClaimEnds(n, t, tpc[n][t] = "acceptNothing")
  /\ UNCHANGED <<running, database, cluster, inbox>>

\* setClaimedRepairWorkers reads the queues again, and that read throws.
AcceptFails(n, t) ==
  /\ tpc[n][t] \in {"accept", "acceptNothing"}
  /\ t = "timer" \/ MonitorFree(n)
  /\ MayFail
  /\ failures' = failures + 1
  /\ ClaimEnds(n, t, TRUE)
  /\ UNCHANGED <<running, expected, workers, config, active, changes, timeouts, cluster, inbox>>

-----------------------------------------------------------------------------

ThreadStep(n, t) ==
  \/ t = "timer" /\ (Tick(n) \/ ClaimSlice(n) \/ ClaimAll(n))
  \/ t \in Handlers /\ (HandleEvent(n, t) \/ HandleDeparture(n, t))
  \/ Lock(n, t) \/ RemoveClaimedResources(n, t) \/ GetTotal(n, t) \/ Claim(n, t) \/ Accept(n, t)

Next ==
  \/ ChangeQueues
  \/ \E n \in Nodes :
       \/ Start(n) \/ Stop(n) \/ Leave(n)
       \/ \E t \in Threads :
            ThreadStep(n, t) \/ LockTimeout(n, t) \/ DepartureTimeout(n, t)
              \/ GetTotalFails(n, t) \/ AcceptFails(n, t)

Spec == Init /\ [][Next]_vars

(* Threads run; attempts to lock queue up, and the timer leaves the monitor for *)
(* the whole of its delay, so that nobody waits for either for ever.  A node    *)
(* that was stopped exits.                                                      *)
Fairness ==
  /\ \A n \in Nodes, t \in Threads : SF_vars(ThreadStep(n, t))
  /\ \A n \in Mortal : WF_vars(~running[n] /\ Leave(n))

FairSpec == Spec /\ Fairness

-----------------------------------------------------------------------------
(* Properties *)

\* The configuration, the map, the managers and the threads keep their types, and
\* in a cluster a thread works on the map only while it holds the lock.
TypeOK ==
  /\ strategy \in Strategies
  /\ instance \in [Nodes -> Nat \union {None}]
  /\ active \subseteq Queues
  /\ changes \in 0 .. MaxChanges
  /\ failures \in Nat /\ timeouts \in Nat /\ failures + timeouts <= MaxFaults
  /\ members \subseteq Nodes /\ departed \subseteq Nodes \ members
  /\ allocated \in [Nodes -> SUBSET Queues] \union {None}
  /\ lock \in (Nodes \X Threads) \union {None}
  /\ running \in [Nodes -> BOOLEAN] /\ ticking \in [Nodes -> BOOLEAN]
  /\ events \in [Nodes -> Nat]
  /\ left \in [Nodes -> SUBSET Nodes]
  /\ expected \in [Nodes -> SUBSET Queues]
  /\ workers \in [Nodes -> SUBSET Queues]
  /\ tpc \in [Nodes -> [Threads -> {"idle", "lock", "lockToRemove", "remove", "total", "claim",
                                    "accept", "acceptNothing"}]]
  /\ gone \in [Nodes -> [Threads -> Nodes \union {None}]]
  /\ total \in [Nodes -> [Threads -> SUBSET Queues]]
  /\ claimed \in [Nodes -> [Threads -> SUBSET Queues]]
  /\ strategy = "CLUSTER" =>
       \A n \in Nodes, t \in Threads : tpc[n][t] \in {"remove", "total", "claim"} => lock = <<n, t>>

\* No queue is claimed by two members, whatever claims race, time out or die
\* half way, and whoever leaves (HazelcastResourceAllocater.claimResources).
ClaimsAreDisjoint ==
  \A m, n \in Nodes : m # n => Allocation[m] \intersect Allocation[n] = {}

\* Every active queue is claimed by a member whose manager expects its worker,
\* and only by it; no member has more than its share.
SharedOut ==
  members # {} =>
    /\ \A q \in active : \E n \in members : q \in Allocation[n]
    /\ \A n \in members : expected[n] = Allocation[n] \intersect active
    /\ \A n \in members : Cardinality(Allocation[n]) <= ClaimMax(active)

\* The nodes that run are numbered as AllocationConfig asks: one for each slice.
Numbered ==
  LET up == {n \in Nodes : running[n]}
  IN Cardinality(up) = Allocators /\ {instance[n] : n \in up} = 0 .. Allocators - 1

\* One node expects each active queue.
SlicedUp == Numbered => \A q \in active : Cardinality({n \in Nodes : running[n] /\ q \in expected[n]}) = 1

Settled ==
  CASE strategy = "CLUSTER" -> SharedOut
    [] strategy = "MANUAL"  -> SlicedUp
    [] strategy = "NONE"    -> \A n \in Nodes : running[n] => expected[n] = active

\* When queues and members stop changing, and no read of the queues failed and no
\* departure was given up, the claims settle for good: what a member that left had
\* claimed is claimed again, a member that came gets its share, claims handed over
\* in the wrong order are put right by the timer, and the slices of numbered nodes
\* leave out no queue (HazelcastResourceAllocater, ManualResourceAllocater,
\* SimpleRepairWorkerManager.start).
ClaimsSettle == <>[](failures = 0 => Settled)
=============================================================================
