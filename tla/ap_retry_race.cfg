SPECIFICATION Spec
CONSTANTS
  i1 = i1
  i2 = i2
  i3 = i3
  k1 = k1
  k2 = k2
  k3 = k3
  a1 = a1
  a2 = a2
  a3 = a3
  r1 = r1
  r2 = r2
  NoJournal = NoJournal
  Keys <- AllKeys
  Invoices = {i1}
  Facts <- OneFacts
  DocKey <- SameDoc
  AutoKey <- AutoKeys
  ClientKeys <- OwnKeys
  Callers = {r1}
  Configurations <- ServiceConfig
  MaxOrphans = 1
INVARIANTS
  AtMostOneJournal
