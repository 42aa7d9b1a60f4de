CONSTANTS
  a1 = a1  a2 = a2  w1 = w1  w2 = w2  r1 = r1  f1 = f1  f2 = f2  f3 = f3  r2 = r2
  Audits = {a1}
  Workers = {w1}
  Rows = {r1, r2}
  Files = {f1, f2}
  FilesOf <- TwoRows
  Modes = {"deleted"}
  PageSize = 1
  MaxChanges = 0
  MaxFaults = 0
  MaxLosses = 0
  NoWorker = NoWorker
  NoAudit = NoAudit
SPECIFICATION Spec
INVARIANTS PurgeIsComplete
CHECK_DEADLOCK FALSE
