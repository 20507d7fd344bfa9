---------------------------- MODULE AtLeastOnce ----------------------------
(***************************************************************************)
(* What a CassieQ queue promises its publishers, with no buckets, pointers *)
(* or workers: a payload that was put stays stored until a consumer        *)
(* acknowledges it or it is dead lettered.  It may be stored again, and be *)
(* acknowledged again, after that: delivery is at least once.              *)
(***************************************************************************)
EXTENDS Naturals

CONSTANT Payloads

VARIABLES
  published,  \* payloads whose put succeeded
  stored,     \* payloads the queue can still deliver
  done,       \* payloads a consumer acknowledged
  dlq         \* payloads given up after too many deliveries

vars == <<published, stored, done, dlq>>

Init == published = {} /\ stored = {} /\ done = {} /\ dlq = {}

Publish(p) ==
  /\ p \notin published
  /\ published' = published \union {p}
  /\ stored' = stored \union {p}
  /\ UNCHANGED <<done, dlq>>

\* The acknowledged delivery may not be the only one of its payload.
Acknowledge(p) ==
  /\ p \in stored
  /\ done' = done \union {p}
  /\ stored' \in {stored, stored \ {p}}
  /\ UNCHANGED <<published, dlq>>

GiveUp(p) ==
  /\ p \in published
  /\ dlq' = dlq \union {p}
  /\ UNCHANGED <<published, stored, done>>

Remove(p) ==
  /\ p \in stored \intersect (done \union dlq)
  /\ stored' = stored \ {p}
  /\ UNCHANGED <<published, done, dlq>>

StoreAgain(p) ==
  /\ p \in published
  /\ stored' = stored \union {p}
  /\ UNCHANGED <<published, done, dlq>>

Next ==
  \E p \in Payloads : Publish(p) \/ Acknowledge(p) \/ GiveUp(p) \/ Remove(p) \/ StoreAgain(p)

Spec == Init /\ [][Next]_vars
=============================================================================
