SPECIFICATION FairSpec
CONSTANTS
  Creators = {c1, c2}
  Deleters = {d1}
  Publishers = {p1}
  Mortal = {c2}
  BucketSize = 2
  RequestsInTime = TRUE
  ConsumersInTime = TRUE
  MaxIndex = 2
  Nil = Nil
PROPERTIES NewQueuesAreEmpty DeletionEnds
