SPECIFICATION FairEventsSpec
CONSTANTS
  Agents = {a1}
  Files = {f1}
  EventLimit <- Unlimited
  SpoolLimit = 2
  MaxFaults = 4
CHECK_DEADLOCK FALSE
INVARIANTS
  CountsSound
  EventsAccounted
PROPERTIES
  SpoolEmpties
