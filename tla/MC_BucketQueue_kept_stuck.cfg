SPECIFICATION FairSpec
CONSTANTS
  Readers = {r1}
  Repairers = {w1}
  Mortal = {}
  BucketSize = 1
  MaxDelivery = 1
  StrictFifo = TRUE
  DeleteBuckets = FALSE
  DelayedPuts = TRUE
  PutsInTime = TRUE
  ScansInTime = TRUE
  MaxIndex = 2
  Nil = Nil
PROPERTY EventuallySettled

