SPECIFICATION FairSpec
CONSTANTS
  m1 = m1
  m2 = m2
  x1 = x1
  x2 = x2
  r1 = r1
  r2 = r2
  NoApplication = NoApplication
  Remittances = {m1, m2}
  Items = {x1, x2}
  References = {x1, x2}
  ItemFacts <- TwoItems
  Contents <- SerialContents
  Callers = {r1}
  Configurations <- AllConfigs
  MaxOrphans = 0
INVARIANTS
  TypeOK
  PostedAsApplied
  CashBalances
  DuplicateAppliedOnce
PROPERTIES
  SettledIsFinal
  CashIsControlled
  AppliedIsPosted
CHECK_DEADLOCK FALSE
