SPECIFICATION Spec
CONSTANTS
  Readers = {r1}
  Repairers = {w1}
  Mortal = {w1}
  BucketSize = 2
  MaxDelivery = 1
  StrictFifo = FALSE
  DeleteBuckets = TRUE
  DelayedPuts = TRUE
  PutsInTime = TRUE
  ScansInTime = TRUE
  MaxIndex = 3
  Nil = Nil
INVARIANTS TypeOK ClosedBucketsStayClosed NothingLost UnackedWithinReach
PROPERTY OnlyAckedDeleted
