SPECIFICATION Spec
CONSTANTS
  Clients = {c1, c2}
  Publishers = {p1}
  Repairers = {r1}
  MaxDelivery = 2
  UpdatesInTime = TRUE
  MaxIndex = 2
  MaxWrites = 2
  MaxVersion = 3
  MaxBreaks = 1
  Nil = Nil
INVARIANTS TypeOK SoleOwner ReceiptsAreCurrent UpdatesSurvive SizeTracksMessages
SYMMETRY Symmetry
CHECK_DEADLOCK FALSE
