SPECIFICATION FairSpec
CONSTANTS
  Files = {m1, m2, m3}
  Broken = {}
  Workers = {w1, w2}
  JobsCap = 1
  DbCap = 1
  NoFile = none
INVARIANTS
  TypeOK
  WaitGroupCounts
  NoSendAfterClose
  EveryMatchOfferedOnce
PROPERTIES
  PoolEnds
  ImplementsBatch
\* The program ends: main returns.
CHECK_DEADLOCK FALSE
