SPECIFICATION Spec
CONSTANTS
  MaxSessions = 2
  MaxMaps = 1
  WireSize = 1
INVARIANTS
  TypeOK
  ShownIsOwn
  LiveMeansConnected
  PacedBySession
  StartedHasPage
PROPERTIES
  ReadFailureKeepsStream
CHECK_DEADLOCK FALSE
