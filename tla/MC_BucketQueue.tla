-------------------------- MODULE MC_BucketQueue --------------------------
(* BucketQueue on small instances for TLC *)
EXTENDS BucketQueue, TLC

\* Readers, and repair workers, are interchangeable.
Symmetry == Permutations(Readers) \union Permutations(Repairers)
=============================================================================
