SPECIFICATION DecisionSpec
CONSTANTS
  Keys = {"a", "b"}
  Entries <- ListingAndKey
  Under <- UnderPrefix
  Oversize = {}
  Skips = {}
  Workers = {w1, w2}
  TaskRoom = 2
  OutputRoom = 1
  MaxTries = 1
  ByteLimit = 1
  EarlyClose = TRUE
  MaxDeaths = 1
  PageLimits = {1, 2, 3, 4}
  PageLanes = {0, 1, 2, 3}
  EnginePages = {"p1", "p2"}
  EngineBlocks = 2
  EngineTries = 2
  EngineCalls = 2
  LayoutRoom = 1
  HighMark = 2
  SlotLimits = {1, 2}
INVARIANTS
  AuditsAgree
  AdmissionKeepsItsWord
  DiagnosticsAgree
  ManifestIsTheInput
  DownloadKeepsFiles
  CallBudgets
PROPERTIES
  LedgerSurvivesPruning
  AllEnds
CHECK_DEADLOCK FALSE
