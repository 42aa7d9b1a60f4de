CONSTANTS
  a1 = a1  a2 = a2  w1 = w1  w2 = w2  r1 = r1  f1 = f1  f2 = f2  f3 = f3  r2 = r2
  Audits = {a1}
  Workers = {w1}
  Rows = {r1}
  Files = {f1, f2, f3}
  FilesOf <- OneRow
  Modes = {"pressure"}
  PageSize = 2
  MaxChanges = 1
  MaxFaults = 2
  MaxLosses = 1
  NoWorker = NoWorker
  NoAudit = NoAudit
SPECIFICATION FairSpec
PROPERTIES RecoveryCompletes
CHECK_DEADLOCK FALSE
