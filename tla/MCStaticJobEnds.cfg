SPECIFICATION FairStaticSpec
CONSTANTS
  j1 = j1
  s1 = s1
  s2 = s2
  w1 = w1
  w2 = w2
  Jobs = {j1}
  Shards = {s1}
  Servers = {w1, w2}
  NoServer = NoServer
  JobOf <- OneJob
  MaxShardAttempts = 2
  LeaseTicks = 1
  MaxFaults = 0
PROPERTIES
  EverythingEnds
