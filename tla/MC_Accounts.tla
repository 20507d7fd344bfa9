---------------------------- MODULE MC_Accounts ----------------------------
(* Accounts for TLC: accounts, queues and requests of a kind are interchangeable. *)
EXTENDS Accounts, TLC

Symmetry ==
  Permutations(Accounts) \union Permutations(QueueNames) \union Permutations(Administrators)
============================================================================
