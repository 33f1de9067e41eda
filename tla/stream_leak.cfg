SPECIFICATION FairSpec
CONSTANTS
  MaxSessions = 1
  MaxMaps = 1
  WireSize = 1
PROPERTIES
  GoneClientIsNoticed
CHECK_DEADLOCK FALSE
