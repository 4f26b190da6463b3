SPECIFICATION Spec
CHECK_DEADLOCK FALSE
CONSTANTS
  m1 = m1
  m2 = m2
  x1 = x1
  x2 = x2
  r1 = r1
  r2 = r2
  Remittances = {m1, m2}
  References = {x1, x2}
  Callers = {r1, r2}
  Appenders = {r1, r2}
  Subjects = {m1, m2}
  Actions <- EveryAction
  MaxRequests = 3
  MaxTroubles = 2
SYMMETRY Symmetry
INVARIANTS
  TypeOK
  IntegrityReportsAreTrue
  ReviewIsAudited
  DuplicateOutlivesRestart
