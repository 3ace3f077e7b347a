SPECIFICATION FairSpoolSpec
CONSTANTS
  Shards = {s1, s2}
  Replayers = {l1, l2}
  MaxAttempts = 2
  MaxFaults = 1
CHECK_DEADLOCK FALSE
INVARIANTS
  FilesBackReports
PROPERTIES
  ReportKept
  SpoolDrains
