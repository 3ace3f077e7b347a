SPECIFICATION FairGateSpec
CONSTANTS
  Calls = {c1, c2, c3}
  Threshold = 2
  MaxAttempts = 2
  Baseline = 2
  MaxLimit = 3
INVARIANTS
  GateIsSound
  NobodySleepsBesideRoom
PROPERTIES
  CircuitCloses
