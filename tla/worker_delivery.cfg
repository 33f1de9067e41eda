SPECIFICATION Spec
CONSTANTS
  t1 = t1
  t2 = t2
  boosting = boosting
  Tokens = {t1}
  Models = {boosting}
  DefaultModel = boosting
  Entries <- ParsedOrNot
  Configs <- NoConfigs
  NoConfig = none
  Procs = {loop, once}
  Loop = loop
  BatchSize = 2
  MaxLen = 2
  MaxEntries = 3
  MaxCrashes = 1
INVARIANTS
  TypeOK
  AtMostOneResult
  DisjointBatches
  DeliveryInv
PROPERTIES
  AcknowledgedIsAnswered
  ImplementsQueue

