SPECIFICATION FairSpec
CONSTANTS
  Files = {m1, m2}
  Broken = {m1}
  Workers = {w1, w2}
  JobsCap = 1
  DbCap = 1
  NoFile = none
PROPERTIES
  FileLeavesWorker
\* The program ends, or spins for ever in one file, which is no step here.
CHECK_DEADLOCK FALSE
