SPECIFICATION Spec
CONSTANTS
  Nodes = {n1, n2, n3}
  Workers = {w1, w2}
  MAX_NODES = 2
  MaxReports = 3
INVARIANTS
  MemorySafe
  LastReportKept
  NoReportLeaks
PROPERTIES
  ShutdownEnds
