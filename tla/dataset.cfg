SPECIFICATION Spec
CONSTANTS
  sven = sven
  crystalmaiden = crystalmaiden
  crystal_maiden = crystal_maiden
  MaxSeen = 1
  Heroes = {sven, crystalmaiden}
  TargetName <- Names
  Horizons = {1, 3}
  PreGame = 1
  LastTime = 5
  MaxDeaths = 2
  MaxSafe = 1
INVARIANTS
  TypeOK
  FramesAligned
  LabelsExact
  SampledOncePerWindow
CONSTRAINT
  SeldomSeen
CHECK_DEADLOCK FALSE
