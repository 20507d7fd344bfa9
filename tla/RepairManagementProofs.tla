----------------------- MODULE RepairManagementProofs -----------------------
(***************************************************************************)
(* Theorems about RepairManagement, for any nodes, handlers, queues and    *)
(* bounds, whatever fails, times out, leaves or races.                     *)
(***************************************************************************)
EXTENDS RepairManagement, TLAPS

-----------------------------------------------------------------------------
(* What an allocator may hand out *)

\* A cluster's claim consists of what the member had and of what nobody has
\* (HazelcastResourceAllocater.claimResources).
LEMMA ClaimsOwnOrFree ==
  ASSUME NEW n \in Nodes, NEW queues, NEW c \in ClaimResources(n, queues)
  PROVE  c \subseteq (Allocation[n] \intersect queues) \union (queues \ TakenResources)
<1> DEFINE mine == Allocation[n] \intersect queues
           max == ClaimMax(queues)
<1> HIDE DEF max
<1>1. CASE Cardinality(mine) > max
  <2>1. c \in kSubset(max, mine)
    BY <1>1 DEF ClaimResources, max
  <2> QED
    BY <2>1 DEF kSubset
<1>2. CASE ~(Cardinality(mine) > max)
  <2>1. PICK more \in Limit(queues \ TakenResources, max - Cardinality(mine)) : c = mine \union more
    BY <1>2 DEF ClaimResources, max
  <2>2. more \subseteq queues \ TakenResources
    BY <2>1 DEF Limit, kSubset
  <2> QED
    BY <2>1, <2>2
<1> QED
  BY <1>1, <1>2

\* A slice is made of the queues it is cut from (ManualResourceAllocater.claim).
LEMMA SliceOfQueues ==
  ASSUME NEW i, NEW queues
  PROVE  Slice(i, queues) \subseteq queues
BY DEF Slice

-----------------------------------------------------------------------------
(* Type correctness, and the use of the map under its lock *)

LEMMA TypeInit == Init => TypeOK
BY BoundsAssumption DEF Init, TypeOK, Strategies, Threads

LEMMA TypeNext ==
  ASSUME TypeOK, [Next]_vars
  PROVE  TypeOK'
<1> USE BoundsAssumption, NoneAssumption DEF TypeOK, database, config, cluster, manager, inbox, threads
<1>1. CASE ChangeQueues
  BY <1>1 DEF ChangeQueues, Notified
<1>2. ASSUME NEW n \in Nodes, Start(n)
      PROVE  TypeOK'
  BY <1>2 DEF Start, Notified
<1>3. ASSUME NEW n \in Nodes, Stop(n)
      PROVE  TypeOK'
  BY <1>3 DEF Stop
<1>4. ASSUME NEW n \in Nodes, Leave(n)
      PROVE  TypeOK'
  <2>1. lock' \in (Nodes \X Threads) \union {None}
    BY <1>4 DEF Leave
  <2>2. left' \in [Nodes -> SUBSET Nodes]
    BY <1>4 DEF Leave
  <2>3. /\ tpc' \in [Nodes -> [Threads -> {"idle", "lock", "lockToRemove", "remove", "total", "claim",
                                          "accept", "acceptNothing"}]]
        /\ gone' \in [Nodes -> [Threads -> Nodes \union {None}]]
        /\ total' \in [Nodes -> [Threads -> SUBSET Queues]]
        /\ claimed' \in [Nodes -> [Threads -> SUBSET Queues]]
    BY <1>4 DEF Leave
  <2>4. /\ members' \subseteq Nodes /\ departed' \subseteq Nodes \ members'
        /\ allocated' \in [Nodes -> SUBSET Queues] \union {None}
        /\ running' \in [Nodes -> BOOLEAN] /\ ticking' \in [Nodes -> BOOLEAN]
        /\ events' \in [Nodes -> Nat]
        /\ expected' \in [Nodes -> SUBSET Queues]
        /\ workers' \in [Nodes -> SUBSET Queues]
    BY <1>4 DEF Leave
  <2>5. ASSUME strategy' = "CLUSTER", NEW m \in Nodes, NEW t \in Threads,
               tpc'[m][t] \in {"remove", "total", "claim"}
        PROVE  lock' = <<m, t>>
    <3>1. m # n /\ tpc'[m][t] = tpc[m][t]
      BY <1>4, <2>5 DEF Leave
    <3>2. lock = <<m, t>>
      BY <1>4, <2>5, <3>1 DEF Leave
    <3> QED
      BY <1>4, <3>1, <3>2 DEF Leave
  <2>6. UNCHANGED database
    BY <1>4 DEF Leave
  <2> QED
    BY <2>1, <2>2, <2>3, <2>4, <2>5, <2>6
<1>5. ASSUME NEW n \in Nodes, NEW t \in Threads, ThreadStep(n, t)
      PROVE  TypeOK'
  <2>1. CASE t = "timer" /\ Tick(n)
    BY <1>5, <2>1 DEF Tick, Goto
  <2>2. CASE t = "timer" /\ ClaimSlice(n)
    <3>1. /\ tpc[n][t] = "claim" /\ total[n][t] \subseteq Queues
          /\ total' = [total EXCEPT ![n][t] = {}]
          /\ \/ Goto(n, t, "idle") /\ UNCHANGED claimed
             \/ /\ claimed' = [claimed EXCEPT ![n][t] = Slice(instance[n], total[n][t])]
                /\ Goto(n, t, "accept")
          /\ UNCHANGED <<gone, database, cluster, manager, inbox>>
      BY <1>5, <2>2 DEF ClaimSlice
    <3>2. Slice(instance[n], total[n][t]) \subseteq Queues
      BY <3>1, SliceOfQueues
    <3>3. /\ claimed' \in [Nodes -> [Threads -> SUBSET Queues]]
          /\ total' \in [Nodes -> [Threads -> SUBSET Queues]]
      <4>1. claimed' = claimed \/ claimed' = [claimed EXCEPT ![n][t] = Slice(instance[n], total[n][t])]
        BY <3>1
      <4>2. CASE claimed' = claimed
        BY <1>5, <3>1, <4>2
      <4>3. CASE claimed' = [claimed EXCEPT ![n][t] = Slice(instance[n], total[n][t])]
        BY <1>5, <3>1, <3>2, <4>3
      <4> QED
        BY <4>1, <4>2, <4>3
    <3>4. /\ tpc' \in [Nodes -> [Threads -> {"idle", "lock", "lockToRemove", "remove", "total",
                                            "claim", "accept", "acceptNothing"}]]
          /\ \A m \in Nodes, u \in Threads :
               tpc'[m][u] \in {"remove", "total", "claim"} => tpc[m][u] \in {"remove", "total", "claim"}
      <4>1. PICK label \in {"idle", "accept"} : tpc' = [tpc EXCEPT ![n][t] = label]
        BY <3>1 DEF Goto
      <4> QED
        BY <1>5, <4>1
    <3>5. UNCHANGED <<gone, database, cluster, manager, inbox>>
      BY <3>1
    <3> QED
      BY <3>3, <3>4, <3>5
  <2>3. CASE t = "timer" /\ ClaimAll(n)
    <3>1. /\ tpc[n][t] = "claim"
          /\ claimed' = [claimed EXCEPT ![n][t] = total[n][t]]
          /\ total' = [total EXCEPT ![n][t] = {}]
          /\ Goto(n, t, "accept")
          /\ UNCHANGED <<gone, database, cluster, manager, inbox>>
      BY <1>5, <2>3 DEF ClaimAll
    <3> QED
      BY <1>5, <3>1 DEF Goto
  <2>4. CASE HandleEvent(n, t)
    BY <1>5, <2>4 DEF HandleEvent, Goto
  <2>5. CASE HandleDeparture(n, t)
    BY <1>5, <2>5 DEF HandleDeparture, Goto
  <2>6. CASE Lock(n, t)
    <3>1. lock = None /\ lock' = <<n, t>> /\ tpc[n][t] \in {"lock", "lockToRemove"}
      BY <2>6 DEF Lock
    <3>2. /\ tpc' \in [Nodes -> [Threads -> {"idle", "lock", "lockToRemove", "remove", "total",
                                            "claim", "accept", "acceptNothing"}]]
          /\ \A m \in Nodes, u \in Threads : <<m, u>> # <<n, t>> => tpc'[m][u] = tpc[m][u]
      BY <1>5, <2>6 DEF Lock, Goto
    <3>3. strategy = "CLUSTER" =>
            \A m \in Nodes, u \in Threads : tpc[m][u] \notin {"remove", "total", "claim"}
      BY <3>1 DEF Threads
    <3> QED
      BY <1>5, <2>6, <3>1, <3>2, <3>3 DEF Lock
  <2>7. CASE RemoveClaimedResources(n, t)
    <3>1. /\ tpc' \in [Nodes -> [Threads -> {"idle", "lock", "lockToRemove", "remove", "total",
                                            "claim", "accept", "acceptNothing"}]]
          /\ tpc'[n][t] \in {"idle", "lock"}
          /\ \A m \in Nodes, u \in Threads : (m = n /\ u = t) \/ tpc'[m][u] = tpc[m][u]
      <4>1. PICK label \in {"idle", "lock"} : tpc' = [tpc EXCEPT ![n][t] = label]
        BY <2>7 DEF RemoveClaimedResources, Goto
      <4> QED
        BY <1>5, <4>1
    <3>2. allocated' \in [Nodes -> SUBSET Queues] \union {None}
      <4>1. CASE allocated = None
        BY <2>7, <4>1 DEF RemoveClaimedResources
      <4>2. CASE allocated # None
        <5>1. /\ allocated \in [Nodes -> SUBSET Queues]
              /\ allocated' = [allocated EXCEPT ![gone[n][t]] = {}]
          BY <2>7, <4>2 DEF RemoveClaimedResources
        <5> QED
          BY <5>1
      <4> QED
        BY <4>1, <4>2
    <3>3. ASSUME strategy = "CLUSTER", NEW m \in Nodes, NEW u \in Threads,
                 tpc'[m][u] \in {"remove", "total", "claim"}
          PROVE  FALSE
      <4>0. m # n \/ u # t
        BY <3>1, <3>3
      <4>1. lock = <<m, u>>
        BY <3>1, <3>3, <4>0
      <4>2. tpc[n][t] = "remove"
        BY <2>7 DEF RemoveClaimedResources
      <4> QED
        BY <1>5, <3>3, <4>0, <4>1, <4>2
    <3>4. gone' \in [Nodes -> [Threads -> Nodes \union {None}]] /\ lock' = None
      BY <1>5, <2>7 DEF RemoveClaimedResources
    <3>5. UNCHANGED <<members, departed, total, claimed, database, manager, inbox>>
      BY <2>7 DEF RemoveClaimedResources
    <3> QED
      BY <3>1, <3>2, <3>3, <3>4, <3>5
  <2>8. CASE GetTotal(n, t)
    BY <1>5, <2>8 DEF GetTotal, Goto
  <2>9. CASE Claim(n, t)
    BY <1>5, <2>9, ClaimsOwnOrFree DEF Claim, Goto, Allocation
  <2>10. CASE Accept(n, t)
    BY <1>5, <2>10 DEF Accept, SetClaimedRepairWorkers, ApplyChanges, ClaimEnds, Goto
  <2> QED
    BY <1>5, <2>1, <2>2, <2>3, <2>4, <2>5, <2>6, <2>7, <2>8, <2>9, <2>10 DEF ThreadStep
<1>6. ASSUME NEW n \in Nodes, NEW t \in Threads, LockTimeout(n, t)
      PROVE  TypeOK'
  BY <1>6 DEF LockTimeout, MayFail, Goto
<1>7. ASSUME NEW n \in Nodes, NEW t \in Threads, DepartureTimeout(n, t)
      PROVE  TypeOK'
  BY <1>7 DEF DepartureTimeout, MayFail, Goto
<1>8. ASSUME NEW n \in Nodes, NEW t \in Threads, GetTotalFails(n, t)
      PROVE  TypeOK'
  <2>1. CASE strategy = "CLUSTER"
    <3>1. /\ tpc[n][t] = "total" /\ lock' = None /\ Goto(n, t, "acceptNothing")
          /\ UNCHANGED ticking
      BY <1>8, <2>1 DEF GetTotalFails
    <3>2. \A m \in Nodes, s \in Threads : tpc'[m][s] \notin {"remove", "total", "claim"}
      BY <1>8, <2>1, <3>1 DEF Goto
    <3> QED
      BY <1>8, <3>1, <3>2 DEF GetTotalFails, MayFail, Goto
  <2>2. CASE strategy # "CLUSTER"
    <3>1. /\ ticking' = [ticking EXCEPT ![n] = FALSE] /\ Goto(n, t, "idle") /\ UNCHANGED lock
      BY <1>8, <2>2 DEF GetTotalFails
    <3> QED
      BY <1>8, <2>2, <3>1 DEF GetTotalFails, MayFail, Goto
  <2> QED
    BY <2>1, <2>2
<1>9. ASSUME NEW n \in Nodes, NEW t \in Threads, AcceptFails(n, t)
      PROVE  TypeOK'
  BY <1>9 DEF AcceptFails, MayFail, ClaimEnds, Goto
<1>10. CASE UNCHANGED vars
  BY <1>10 DEF vars
<1> QED
  BY <1>1, <1>2, <1>3, <1>4, <1>5, <1>6, <1>7, <1>8, <1>9, <1>10 DEF Next

\* The configuration, the map, the managers and the threads keep their types; in a
\* cluster, whoever reads or writes the map holds the cluster's lock
\* (HazelcastResourceAllocater.claim, removeClaimedResources).
THEOREM TypeCorrect == Spec => []TypeOK
BY TypeInit, TypeNext, PTL DEF Spec

-----------------------------------------------------------------------------
(* Nobody claims what another member has claimed *)

LEMMA ClaimKeepsDisjoint ==
  ASSUME TypeOK, ClaimsAreDisjoint, NEW n \in Nodes, NEW t \in Threads, Claim(n, t)
  PROVE  ClaimsAreDisjoint'
<1>1. PICK c \in ClaimResources(n, total[n][t]) : allocated' = [Allocation EXCEPT ![n] = c]
  BY DEF Claim
<1>2. Allocation \in [Nodes -> SUBSET Queues]
  BY DEF TypeOK, Allocation
<1>3. c \subseteq Allocation[n] \union (Queues \ TakenResources)
  <2>1. total[n][t] \subseteq Queues
    BY DEF TypeOK
  <2> QED
    BY <1>1, <2>1, ClaimsOwnOrFree
<1>4. \A m \in Nodes : m # n => c \intersect Allocation[m] = {}
  BY <1>2, <1>3 DEF ClaimsAreDisjoint, TakenResources
<1>5. CASE allocated' = None
  BY <1>5 DEF ClaimsAreDisjoint, Allocation
<1>6. CASE allocated' # None
  <2>1. Allocation' = [Allocation EXCEPT ![n] = c]
    BY <1>1, <1>6 DEF Allocation
  <2> QED
    BY <1>2, <1>4, <2>1 DEF ClaimsAreDisjoint
<1> QED
  BY <1>5, <1>6

LEMMA RemovalKeepsDisjoint ==
  ASSUME TypeOK, ClaimsAreDisjoint, NEW n \in Nodes, NEW t \in Threads,
         RemoveClaimedResources(n, t)
  PROVE  ClaimsAreDisjoint'
<1>1. CASE allocated' = None
  BY <1>1 DEF ClaimsAreDisjoint, Allocation
<1>2. CASE allocated' # None
  <2>1. /\ allocated # None /\ allocated \in [Nodes -> SUBSET Queues]
        /\ allocated' = [allocated EXCEPT ![gone[n][t]] = {}]
    BY <1>2 DEF RemoveClaimedResources, TypeOK
  <2>2. \A m \in Nodes : Allocation'[m] \subseteq Allocation[m]
    BY <1>2, <2>1 DEF Allocation
  <2> QED
    BY <2>2 DEF ClaimsAreDisjoint
<1> QED
  BY <1>1, <1>2

LEMMA DisjointNext ==
  ASSUME TypeOK, ClaimsAreDisjoint, [Next]_vars
  PROVE  ClaimsAreDisjoint'
<1>1. ASSUME NEW n \in Nodes, Leave(n)
      PROVE  ClaimsAreDisjoint'
  BY <1>1 DEF Leave, ClaimsAreDisjoint, Allocation
<1>2. ASSUME UNCHANGED allocated
      PROVE  ClaimsAreDisjoint'
  BY <1>2 DEF ClaimsAreDisjoint, Allocation
<1>3. ASSUME NEW n \in Nodes, NEW t \in Threads, ThreadStep(n, t)
      PROVE  ClaimsAreDisjoint'
  <2>1. CASE Claim(n, t)
    BY <2>1, ClaimKeepsDisjoint
  <2>2. CASE RemoveClaimedResources(n, t)
    BY <2>2, RemovalKeepsDisjoint
  <2>3. CASE ~Claim(n, t) /\ ~RemoveClaimedResources(n, t)
    <3>1. UNCHANGED allocated
      BY <1>3, <2>3 DEF ThreadStep, Tick, ClaimSlice, ClaimAll, HandleEvent, HandleDeparture, Lock,
                        GetTotal, Accept, cluster
    <3> QED
      BY <1>2, <3>1
  <2> QED
    BY <2>1, <2>2, <2>3
<1>4. ASSUME NEW n \in Nodes, NEW t \in Threads,
             LockTimeout(n, t) \/ DepartureTimeout(n, t) \/ GetTotalFails(n, t) \/ AcceptFails(n, t)
      PROVE  UNCHANGED allocated
  BY <1>4 DEF LockTimeout, DepartureTimeout, GetTotalFails, AcceptFails, cluster
<1>5. ASSUME ChangeQueues \/ (\E n \in Nodes : Start(n) \/ Stop(n)) \/ UNCHANGED vars
      PROVE  UNCHANGED allocated
  BY <1>5 DEF ChangeQueues, Start, Stop, cluster, vars
<1> QED
  BY <1>1, <1>2, <1>3, <1>4, <1>5 DEF Next

\* No queue is claimed by two members, whatever claims race, time out or die half
\* way, and whoever leaves (HazelcastResourceAllocater.claimResources).
THEOREM ClaimsAreDisjointAlways == Spec => []ClaimsAreDisjoint
<1>1. Init => ClaimsAreDisjoint
  BY DEF Init, ClaimsAreDisjoint, Allocation
<1> QED
  BY <1>1, TypeInit, TypeNext, DisjointNext, PTL DEF Spec
=============================================================================
