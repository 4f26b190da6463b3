SPECIFICATION Spec
CONSTANTS
  m1 = m1
  m2 = m2
  invoice = invoice
  copy = copy
  remittance = remittance
  broken = broken
  e1 = e1
  e2 = e2
  w1 = w1
  w2 = w2
  NoEntity = NoEntity
  Documents = {invoice, copy, remittance, broken}
  Deterministic <- KindOf
  Malformed = {broken}
  Structured = {remittance}
  Sound = {invoice, copy}
  DocKey <- KeyOf
  Corrections = {1}
  Attachments <- MailOf
  PollSize = 2
  Hints = {"ap_invoice"}
  Workers = {w1, w2}
  Ids = {e1, e2}
SYMMETRY WorkerSymmetry
INVARIANTS
  TypeOK
  PollAccounts
  RepeatNeverClears
  OnePassesPerReference
