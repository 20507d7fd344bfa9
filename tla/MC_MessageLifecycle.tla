------------------------ MODULE MC_MessageLifecycle ------------------------
(* MessageLifecycle for TLC: clients are interchangeable. *)
EXTENDS MessageLifecycle, TLC

Symmetry == Permutations(Clients)
============================================================================
