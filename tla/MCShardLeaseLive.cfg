SPECIFICATION FairSpec
CONSTANTS
  j1 = j1
  j2 = j2
  s1 = s1
  s2 = s2
  s3 = s3
  w1 = w1
  w2 = w2
  Jobs = {j1}
  Shards = {s1, s2}
  Servers = {w1}
  NoServer = NoServer
  JobOf <- OneJob
  MaxShardAttempts = 2
  LeaseTicks = 2
PROPERTIES
  ShardsSettle
