SPECIFICATION Spec
CONSTANTS
  m1 = m1
  m2 = m2
  x1 = x1
  x2 = x2
  r1 = r1
  r2 = r2
  NoApplication = NoApplication
  Remittances = {m1}
  Items = {x1, x2}
  References = {x1, x2}
  ItemFacts <- TwoItems
  Contents <- RaceContents
  Callers = {r1, r2}
  Configurations <- AllConfigs
  MaxOrphans = 1
SYMMETRY CallerSymmetry
INVARIANTS
  AppliedNeedsEvidence
  PostedIsApplied
CHECK_DEADLOCK FALSE
