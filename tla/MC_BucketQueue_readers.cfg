SPECIFICATION Spec
CONSTANTS
  Readers = {r1, r2}
  Repairers = {}
  Mortal = {r1, r2}
  BucketSize = 1
  MaxDelivery = 1
  StrictFifo = TRUE
  DeleteBuckets = TRUE
  DelayedPuts = TRUE
  PutsInTime = TRUE
  ScansInTime = TRUE
  MaxIndex = 2
  Nil = Nil
SYMMETRY Symmetry
INVARIANTS ClosedBucketsStayClosed  UnackedWithinReach
