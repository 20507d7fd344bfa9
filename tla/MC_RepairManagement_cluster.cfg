SPECIFICATION MCSpec
CONSTANTS
  Nodes = {n1, n2}
  Mortal = {n1}
  Handlers = {h1}
  Queues = {1, 2}
  Allocators = 2
  MaxChanges = 1
  MaxFaults = 1
  None = None
INVARIANTS TypeOK ClaimsAreDisjoint
PROPERTY ClaimsSettle
CHECK_DEADLOCK FALSE
