SPECIFICATION FairScanSpec
CONSTANTS
  root = root
  a = a
  b = b
  sa = sa
  sb = sb
  w1 = w1
  w2 = w2
  Units = {root, a, b}
  Root = root
  Children <- Tree
  Shards = {sa}
  Found <- Files
  Servers = {w1, w2}
  NoServer = NoServer
  MaxInterrupts = 1
INVARIANTS
  ContentSound
  ReadyWhenComplete
PROPERTIES
  EndedStaysEnded
  ScanSettles
