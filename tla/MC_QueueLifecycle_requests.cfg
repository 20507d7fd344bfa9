SPECIFICATION Spec
CONSTANTS
  Creators = {c1, c2}
  Deleters = {d1}
  Publishers = {p1}
  Mortal = {d1}
  BucketSize = 1
  RequestsInTime = TRUE
  ConsumersInTime = FALSE
  MaxIndex = 1
  Nil = Nil
INVARIANTS TypeOK DeletionSparesActive
PROPERTY StatusMovesForward
SYMMETRY Symmetry
