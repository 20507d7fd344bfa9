SPECIFICATION Spec
CONSTANTS
  Creators = {c1}
  Deleters = {d1}
  Publishers = {p1}
  Mortal = {}
  BucketSize = 2
  RequestsInTime = TRUE
  ConsumersInTime = TRUE
  MaxIndex = 2
  Nil = Nil
INVARIANT ActiveIsProvisioned
