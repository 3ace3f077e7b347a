SPECIFICATION ParserSpec
CONSTANTS
  Parsers = {p1}
  Consumers = {c1, c2}
  NPages = 3
  QueueSize = 1
  Scenarios <- Regular
INVARIANTS
  OutputTruthful
  ContentKept
PROPERTIES
  SkippedIsRight
  ParserSettles
CHECK_DEADLOCK FALSE
