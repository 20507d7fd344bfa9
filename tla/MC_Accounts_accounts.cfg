SPECIFICATION Spec
CONSTANTS
  Accounts = {a1, a2}
  KeyNames = {"primary", "secondary"}
  QueueNames = {q1}
  Administrators = {t1}
  Callers = {c1}
  AskedLevels = {{"CreateQueue", "DeleteQueue"}, {"None", "DeleteQueue"}}
  AskedTimes = {1}
  Skew = 1
  ChangesInTime = TRUE
  RequestsInTime = TRUE
  MaxKeys = 4
  MaxTime = 2
  MaxUrls = 1
  Nil = Nil
INVARIANTS TypeOK   
SYMMETRY Symmetry
CHECK_DEADLOCK FALSE
