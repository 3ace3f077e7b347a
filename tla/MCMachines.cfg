SPECIFICATION MachineSpec
CONSTANTS
  Jobs = {j1, j2}
  NoJob = NoJob
  ShardJobs = {j1}
  NFiles = 1
  PoolSurvives = FALSE
  MaxFaults = 1
  Inputs = {"a", "b"}
  Servers = {"w1"}
  RootOf <- RootFor
  MaxClicks = 2
  Procs = {"c1", "c2", "cli"}
  Clis = {"cli"}
  Autos = {"c1", "c2"}
  Build <- Scripts
  Table = 1
  Column = 2
  Histories <- FirstRows
  Gate = "c1"
  Threads = {"t1", "t2"}
  Ttl = 1
  Slow = 1
  MaxStarts = 3
  Callers = {"c1", "c2"}
  Uploaders = {"w1"}
  Docs = {"d1"}
  Artifacts <- ArtifactsOf
  Sizes = {1, 2}
  Room = 1
  MaxCalls = 2
  MaxRuns = 2
  Papers = {"j1", "j2", "j3"}
  Doc <- Documents
  Lanes = 2
  Batch = 2
  Tasks = {"info"}
  Slots = 1
  MaxTries = 2
  Instances = {1, 2, 3}
  Names = {"p"}
  Old = "q"
  Requests = {"r1", "r2"}
  MaxShared = 2
  Pinned = {"k1", "k2"}
  MaxArchives = 1
  MaxSilences = 1
  MaxCrashes = 1
INVARIANTS
  OneRunAtATime
  DoneIsTrue
PROPERTIES
  ReportIsTrue
  EndsAreTold
  MachinesSettle
CHECK_DEADLOCK FALSE
