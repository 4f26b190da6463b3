SPECIFICATION Spec
CHECK_DEADLOCK FALSE
CONSTANTS
  i1 = i1
  a1 = a1
  r1 = r1
  r2 = r2
  NoJournal = NoJournal
  Keys = {a1}
  Invoices = {i1}
  Facts <- Unreceived
  AutoKey <- AutoKeys
  ClientKeys <- SameKeys
  Callers = {r1, r2}
  Configurations <- OpenAndGated
  MaxTroubles = 2
SYMMETRY CallerSymmetry
INVARIANTS
  TypeOK
  DecisionIsStored
  CacheIsCurrent
  PostedHasJournal
PROPERTIES
  PaymentIsControlled
