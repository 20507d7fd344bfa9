-------------------------- MODULE MC_QueueLifecycle --------------------------
(* QueueLifecycle for TLC: requests of one kind are interchangeable. *)
EXTENDS QueueLifecycle, TLC

Symmetry ==
  Permutations(Creators \ Mortal) \union Permutations(Deleters \ Mortal)
    \union Permutations(Publishers)
==============================================================================
