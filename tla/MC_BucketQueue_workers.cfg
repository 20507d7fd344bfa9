SPECIFICATION Spec
CONSTANTS
  Readers = {r1}
  Repairers = {w1, w2}
  Mortal = {}
  BucketSize = 1
  MaxDelivery = 1
  StrictFifo = TRUE
  DeleteBuckets = TRUE
  DelayedPuts = TRUE
  PutsInTime = TRUE
  ScansInTime = TRUE
  MaxIndex = 2
  Nil = Nil
SYMMETRY Symmetry
INVARIANT RepairFollowsReader
PROPERTY ImplementsAtLeastOnce
