SPECIFICATION FairSpec
CONSTANTS
  t1 = t1
  t2 = t2
  boosting = boosting
  Tokens = {t1, t2}
  Models = {boosting}
  DefaultModel = boosting
  Entries <- TwoSessionsOrNot
  Configs <- AroundHero
  NoConfig = none
  Procs = {loop}
  Loop = loop
  BatchSize = 2
  MaxLen = 2
  MaxEntries = 2
  MaxCrashes = 1
INVARIANTS
  FrameAgreesWithResult
  ResultsInOrder
PROPERTIES
  HeatmapNeverRegresses
  EveryRecordLeavesQueue
  LoopKeepsPolling
