CONSTANTS
  a1 = a1  a2 = a2  w1 = w1  w2 = w2  r1 = r1  f1 = f1  f2 = f2  f3 = f3  r2 = r2
  Audits = {a1, a2}
  Workers = {w1}
  Rows = {r1}
  Files = {f1, f2}
  FilesOf <- OneRow
  Modes = {"pressure"}
  PageSize = 2
  MaxChanges = 1
  MaxFaults = 1
  MaxLosses = 1
  NoWorker = NoWorker
  NoAudit = NoAudit
SPECIFICATION Spec
INVARIANTS TypeOK DurableRetry Recoverable LiveFilesKept FreedConservative
PROPERTIES OnlyReviewedFilesGo
CHECK_DEADLOCK FALSE
